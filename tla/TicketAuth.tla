----------------------------- MODULE TicketAuth -----------------------------
(***************************************************************************)
(* The tls1.2_ticket_auth plug-in (tls1.2_ticket.c), as operators on the   *)
(* local data of one end.  A stream is a sequence of atoms [t, v, c]: a    *)
(* kind, a number and the client it is about.  The flights of the          *)
(* handshake are a few atoms long, so that TCP can cut them; a record is   *)
(* one head atom (five bytes) with its length, and its data.               *)
(***************************************************************************)
EXTENDS Integers, Sequences

CONSTANTS HelloLength,    \* atoms of a client hello
          ReplyLength,    \* of the server's hello and finish: 129 bytes
          ReplyLeast,     \* what the client wants of them in one read: 76 bytes
          FinishLength,   \* of the client's change of cipher and finish: 43 bytes
          SplitOver       \* more data than this is cut at random: 2048 bytes

ASSUME TicketAssumption ==
    /\ {HelloLength, ReplyLength, FinishLength, SplitOver} \subseteq Nat \ {0}
    /\ ReplyLeast \in 1..ReplyLength

Atom(t, v, c) == [t |-> t, v |-> v, c |-> c]
Flight(t, n, c) == [i \in 1..n |-> Atom(t, i, c)]

NewTicket == [status |-> 0, sendBuf |-> <<>>, recvBuf |-> <<>>]

\* the global data: the id a server has learnt, and the hellos it has seen
NewTicketGlobal == [ids |-> {}, hellos |-> {}]

\* What a decoder returns: its local and global data, what it leaves in the
\* caller's buffer, whether it is at least 0, and needsendback.
Decoded(l, g, out, back) ==
    [local |-> l, global |-> g, out |-> out, ok |-> TRUE, back |-> back]
Refused(l, g) ==
    [local |-> l, global |-> g, out |-> <<>>, ok |-> FALSE, back |-> FALSE]

\* tls12_ticket_pack_auth_data and every check of its HMAC: the key is the
\* server's key followed by the id of the client
Signed(a, c, key) == key /\ a.c = c

\* the list of hellos: have_same_cmp says yes when any of them differs
ListAdded(g, c)  == [g EXCEPT !.hellos = @ \cup {c}]
HaveSame(g, c) == \E h \in g.hellos : h # c

-----------------------------------------------------------------------------
(* Records. *)

Record(data) == <<[t |-> "head", v |-> Len(data)]>> \o data

\* the ways a write may be cut: records of any length while more than SplitOver
\* is left, then one record; cut[n] has the ways the last n units may go out
Records(data) ==
    LET Last(n) == SubSeq(data, Len(data) - n + 1, Len(data))
        cut[n \in 0..Len(data)] ==
            {Record(Last(n))} \cup
            IF n <= SplitOver THEN {}
            ELSE UNION {{Record(SubSeq(Last(n), 1, m)) \o more : more \in cut[n - m]} :
                        m \in 1..n - 1}
    IN cut[Len(data)]

\* the loop of status 8 in both decoders: whole records are taken off the front
\* of the buffer, whose head is looked at when there is more than a head;
\* from[n] is what becomes of the last n atoms
Unpacked(ok, rest, out) == [ok |-> ok, rest |-> rest, out |-> out]
Unpack(buf) ==
    LET from[n \in 0..Len(buf)] ==
            LET rest == SubSeq(buf, Len(buf) - n + 1, Len(buf))
            IN IF n <= 1 THEN Unpacked(TRUE, rest, <<>>)
               ELSE IF rest[1].t # "head" THEN Unpacked(FALSE, rest, <<>>)
               ELSE IF rest[1].v + 1 > n THEN Unpacked(TRUE, rest, <<>>)
               ELSE [from[n - rest[1].v - 1] EXCEPT !.out = SubSeq(rest, 2, rest[1].v + 1) \o @]
    IN from[Len(buf)]

UnpackOne(buf) ==                                                    \* fault
    IF Len(buf) > 1 /\ buf[1].t = "head" /\ buf[1].v + 1 <= Len(buf)
    THEN [ok |-> TRUE, rest |-> SubSeq(buf, buf[1].v + 2, Len(buf)),
          out |-> SubSeq(buf, 2, buf[1].v + 1)]
    ELSE Unpack(buf)

Reassembled_OneRecord(l, g, piece) ==                                \* fault
    LET u == UnpackOne(l.recvBuf \o piece)
    IN IF u.ok THEN Decoded([l EXCEPT !.recvBuf = u.rest], g, u.out, FALSE)
       ELSE Refused(l, g)

Reassembled(l, g, piece) ==
    LET u == Unpack(l.recvBuf \o piece)
    IN IF u.ok THEN Decoded([l EXCEPT !.recvBuf = u.rest], g, u.out, FALSE)
       ELSE Refused(l, g)

-----------------------------------------------------------------------------
(* The client. *)

\* client_encode: until the handshake is over the data waits in send_buffer, as
\* one record a call; the first call sends the hello, and a call with no data,
\* which follows the server's reply, the finish and all that waited
TicketClientEncode(l, c, data) ==
    LET queued == l.sendBuf \o Record(data)
    IN IF l.status = 8 THEN {[local |-> l, out |-> r] : r \in Records(data)}
       ELSE IF l.status = 0
       THEN {[local |-> [l EXCEPT !.status = 1, !.sendBuf = queued],
              out |-> Flight("hello", HelloLength, c)]}
       ELSE IF data = <<>>
       THEN {[local |-> [l EXCEPT !.status = 8, !.sendBuf = <<>>],
              out |-> Flight("finish", FinishLength, c) \o queued]}
       ELSE {[local |-> [l EXCEPT !.sendBuf = queued], out |-> <<>>]}

\* client_decode: the reply is checked against the client's own id; what is left
\* of its read is dropped
TicketClientDecode(l, c, piece, key) ==
    IF l.status = 8 THEN Reassembled(l, NewTicketGlobal, piece)
    ELSE IF Len(piece) >= ReplyLeast /\ piece[1].t = "reply" /\ piece[1].v = 1
            /\ Signed(piece[1], c, key)
         THEN Decoded(l, NewTicketGlobal, <<>>, TRUE)
         ELSE Refused(l, NewTicketGlobal)

-----------------------------------------------------------------------------
(* The server. *)

\* server_encode
TicketServerEncode(l, g, data) ==
    IF l.status = 8 THEN {[local |-> l, out |-> r] : r \in Records(data)}
    ELSE {[local |-> [l EXCEPT !.status = 3], out |-> Flight("reply", ReplyLength, c)] :
             c \in g.ids}

\* server_decode in its first call: the lengths in the hello must be those of the
\* read; the id in it is kept before the hello is verified; the hello is looked
\* for among those seen, and any that differs from it is taken for a repetition
Hello(l, g, piece, peer) ==
    LET c   == piece[1].c
        met == [g EXCEPT !.ids = {c}]
        l2  == [l EXCEPT !.status = 2]
    IN IF piece[1].t # "hello" THEN Refused(l2, g)
       ELSE IF piece # Flight("hello", HelloLength, c) THEN Refused(l2, g)
       ELSE IF peer.late \/ ~Signed(piece[1], c, peer.key) \/ HaveSame(g, c)
       THEN Refused(l2, met)
       ELSE Decoded(l2, ListAdded(met, c), <<>>, TRUE)

\* after the reply: the finish, verified with the id that was kept, and the
\* first of the data in the same read
Finish(l, g, piece, peer) ==
    IF /\ Len(piece) >= FinishLength /\ piece[1].t = "finish"
       /\ \A c \in g.ids : Signed(piece[1], c, peer.key)
    THEN Reassembled([l EXCEPT !.status = 8,
                        !.recvBuf = SubSeq(piece, FinishLength + 1, Len(piece))], g, <<>>)
    ELSE Refused(l, g)

TicketServerDecode(l, g, piece, peer) ==
    IF l.status = 8 THEN Reassembled(l, g, piece)
    ELSE IF l.status = 3 THEN Finish(l, g, piece, peer)
    ELSE Hello(l, g, piece, peer)
=============================================================================
