-------------------------------- MODULE Pipe --------------------------------
(***************************************************************************)
(* What a tunnelled stream promises its two ends, whatever lies between    *)
(* them: each direction delivers what was sent, in order, and says that    *)
(* there is no more only when everything has been delivered, unless the    *)
(* direction has been broken.                                              *)
(*                                                                         *)
(* Order is kept, so that a direction is two counters.                     *)
(***************************************************************************)
EXTENDS Naturals

CONSTANTS Streams, Dirs

VARIABLES
    sent,       \* sent[t][d]: chunks the sender has written
    got,        \* got[t][d]: chunks the receiver has been given
    fin,        \* <<t, d>>: the sender has finished
    eof,        \* <<t, d>>: the receiver has been told that there is no more
    broken      \* <<t, d>>: the direction was cut

vars == <<sent, got, fin, eof, broken>>

Nothing == [d \in Dirs |-> 0]

Init ==
    /\ sent = [t \in Streams |-> Nothing]
    /\ got = [t \in Streams |-> Nothing]
    /\ fin = {}
    /\ eof = {}
    /\ broken = {}

Send(t, d) ==
    /\ <<t, d>> \notin fin
    /\ sent' = [sent EXCEPT ![t][d] = @ + 1]
    /\ UNCHANGED <<got, fin, eof, broken>>

\* Nothing arrives after the end.
Deliver(t, d) ==
    /\ got[t][d] < sent[t][d]
    /\ <<t, d>> \notin eof
    /\ got' = [got EXCEPT ![t][d] = @ + 1]
    /\ UNCHANGED <<sent, fin, eof, broken>>

Finish(t, d) ==
    /\ fin' = fin \cup {<<t, d>>}
    /\ UNCHANGED <<sent, got, eof, broken>>

\* The receiver may rely on it: this was all.
End(t, d) ==
    /\ \/ <<t, d>> \in fin /\ got[t][d] = sent[t][d]
       \/ <<t, d>> \in broken
    /\ eof' = eof \cup {<<t, d>>}
    /\ UNCHANGED <<sent, got, fin, broken>>

\* Directions are cut, all those of a lost session at once.  Senders may find
\* their end closed, and receivers that there is no more.
Break(lost, closed, told) ==
    /\ broken' = broken \cup lost
    /\ told \subseteq broken'
    /\ fin' = fin \cup closed
    /\ eof' = eof \cup told
    /\ UNCHANGED <<sent, got>>

\* A stream is over, and its identity free again.
Reset(t) ==
    /\ sent' = [sent EXCEPT ![t] = Nothing]
    /\ got' = [got EXCEPT ![t] = Nothing]
    /\ fin' = fin \ ({t} \X Dirs)
    /\ eof' = eof \ ({t} \X Dirs)
    /\ broken' = broken \ ({t} \X Dirs)

Next ==
    \/ \E t \in Streams, d \in Dirs :
        Send(t, d) \/ Deliver(t, d) \/ Finish(t, d) \/ End(t, d)
    \/ \E lost, closed, told \in SUBSET (Streams \X Dirs) : Break(lost, closed, told)
    \/ \E t \in Streams : Reset(t)

Spec == Init /\ [][Next]_vars
=============================================================================
