------------------------------ MODULE HttpObfs ------------------------------
(***************************************************************************)
(* The http_simple and http_post plug-ins (http_simple.c), as operators on *)
(* the local data of one end.  The first write of a client goes out as a   *)
(* request: its beginning in the URL, the rest behind the head.  A head is *)
(*    get, the bytes in the URL, host, end 1, end 2                        *)
(* where "get" is the method and the slash, "host" what follows the URL,   *)
(* and the two ends are the blank line, which TCP can cut as well.  A byte *)
(* in the URL is written as %xy; all but the last are read back as written.*)
(***************************************************************************)
EXTENDS Integers, Sequences, FiniteSets

CONSTANT StrayHex    \* whether heap memory may hold a hex digit where the last
                     \* number of the URL is read past its end

Mark(t, v) == [t |-> t, v |-> v]
EndMark == <<Mark("end", 1), Mark("end", 2)>>

NewHttp == [sentHeader |-> FALSE, recvHeader |-> FALSE, hostMatched |-> FALSE,
            recvBuf |-> <<>>]

\* strstr for the blank line: where it ends, 0 when it is not there
EndAt(s) ==
    LET at == {i \in 2..Len(s) : <<s[i - 1], s[i]>> = EndMark}
    IN IF at = {} THEN 0 ELSE CHOOSE i \in at : \A j \in at : i <= j

\* get_host_from_http_header stops at the next colon wherever it is: a host
\* written without a port, as for port 80, takes in the line behind it
HostRead(line) == IF line = "noPort" THEN "longer" ELSE line

\* http_simple_encode_head: the first n bytes as they stand in the URL
InUrl(data, n) == SubSeq(data, 1, n)

\* GET or POST, with the first n bytes in the URL and the rest behind the head
Request(data, n) ==
    <<Mark("get", 0)>> \o InUrl(data, n) \o <<Mark("host", 0)>> \o EndMark
        \o SubSeq(data, n + 1, Len(data))

\* client_encode: head_size bytes, at least one, go into the URL
HttpClientEncode(l, data) ==
    IF l.sentHeader THEN {[local |-> l, out |-> data]}
    ELSE {[local |-> [l EXCEPT !.sentHeader = TRUE],
           out |-> Request(data, n)] : n \in 1..Len(data)}

\* client_decode: nothing is kept of a read in which the head does not end
HttpClientDecode(l, piece) ==
    LET end == EndAt(piece)
    IN IF l.recvHeader THEN [local |-> l, out |-> piece]
       ELSE IF end = 0 THEN [local |-> l, out |-> <<>>]
       ELSE [local |-> [l EXCEPT !.recvHeader = TRUE],
             out |-> SubSeq(piece, end + 1, Len(piece))]

HttpServerEncode(l, data) ==
    IF l.sentHeader THEN [local |-> l, out |-> data]
    ELSE [local |-> [l EXCEPT !.sentHeader = TRUE],
          out |-> <<Mark("ok", 0)>> \o EndMark \o data]

-----------------------------------------------------------------------------
(* server_decode. *)

\* the numbers of the URL; the last is followed by more than its two digits, of
\* which a copy that is not terminated is read
UrlOf(buf) ==
    LET host == CHOOSE i \in 1..Len(buf) : buf[i].t = "host"
        url  == SubSeq(buf, 2, host - 1)
    IN {url} \cup IF StrayHex /\ url # <<>>
                  THEN {[url EXCEPT ![Len(url)].t = "bad"]} ELSE {}

\* after an error the plug-in is out of the way
PassThrough(l) == [l EXCEPT !.sentHeader = TRUE, !.recvHeader = TRUE, !.recvBuf = <<>>]

HttpAnswer(l, out, ok) == [local |-> l, out |-> out, ok |-> ok]

FullHead_Reset(l, buf, piece, peer) ==                                   \* fault
    LET end == EndAt(buf)
    IN {HttpAnswer([l EXCEPT !.hostMatched = TRUE], url \o SubSeq(buf, end + 1, Len(piece)), TRUE) :
           url \in UrlOf(buf)}

\* a head that is complete; the data behind it is counted by the length of the
\* last read
FullHead(l, buf, piece, peer) ==
    LET end == EndAt(buf)
    IN IF ~l.hostMatched /\ HostRead(peer.host) # "listed"
       THEN {HttpAnswer(PassThrough(l), <<>>, FALSE)}
       ELSE {HttpAnswer([l EXCEPT !.hostMatched = TRUE, !.recvHeader = url # <<>>],
                        url \o SubSeq(buf, end + 1, Len(piece)), url # <<>>) :
                url \in UrlOf(buf)}

HttpServerDecode(l, piece, peer) ==
    LET buf == l.recvBuf \o piece
        l2  == [l EXCEPT !.recvBuf = buf]
    IN IF l.recvHeader THEN {HttpAnswer(l, piece, TRUE)}
       ELSE IF buf[1].t # "get" THEN {HttpAnswer(PassThrough(l), <<>>, FALSE)}
       ELSE IF EndAt(buf) = 0 THEN {HttpAnswer(l2, <<>>, TRUE)}
       ELSE FullHead(l2, buf, piece, peer)
=============================================================================
