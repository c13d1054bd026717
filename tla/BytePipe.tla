------------------------------- MODULE BytePipe -------------------------------
(***************************************************************************)
(* What the TCP relay promises, without its stages, buffers and watchers:  *)
(* a connection is two pipes, "up" from the client to the target and       *)
(* "down" back.  A pipe's source is the bytes 1, 2, 3...; what it has sent *)
(* is always the first bytes of the source, at most those it has read.     *)
(***************************************************************************)
EXTENDS Naturals, Sequences

CONSTANT Conns

VARIABLES
    open,   \* the connection exists
    read,   \* bytes read, per connection and direction
    sent    \* bytes sent, per connection and direction, in order

vars == <<open, read, sent>>

Dirs == {"up", "down"}
Source(n) == [i \in 1..n |-> i]

Init ==
    /\ open = [c \in Conns |-> FALSE]
    /\ read = [c \in Conns |-> [d \in Dirs |-> 0]]
    /\ sent = [c \in Conns |-> [d \in Dirs |-> <<>>]]

Establish(c) ==
    /\ ~open[c]
    /\ open' = [open EXCEPT ![c] = TRUE]
    /\ read' = [read EXCEPT ![c] = [d \in Dirs |-> 0]]
    /\ sent' = [sent EXCEPT ![c] = [d \in Dirs |-> <<>>]]

\* Reading and sending only go on, and what is sent stays a prefix of the
\* source that has been read.
Flow(c) ==
    \A d \in Dirs :
        /\ read[c][d] <= read'[c][d]
        /\ Len(sent[c][d]) <= Len(sent'[c][d])
        /\ Len(sent'[c][d]) <= read'[c][d]
        /\ sent'[c][d] = Source(Len(sent'[c][d]))

OthersUnchanged(c) ==
    \A x \in Conns \ {c} : <<open[x], read[x], sent[x]>>' = <<open[x], read[x], sent[x]>>

Transfer(c) ==
    /\ open[c]
    /\ UNCHANGED open
    /\ Flow(c)
    /\ OthersUnchanged(c)

\* bytes read last may be dropped, none are sent
Close(c) ==
    /\ open[c]
    /\ open' = [open EXCEPT ![c] = FALSE]
    /\ UNCHANGED sent
    /\ Flow(c)
    /\ OthersUnchanged(c)

CloseAll ==
    /\ open' = [c \in Conns |-> FALSE]
    /\ UNCHANGED <<read, sent>>

Next == (\E c \in Conns : Establish(c) \/ Transfer(c) \/ Close(c)) \/ CloseAll

Spec == Init /\ [][Next]_vars
=============================================================================
