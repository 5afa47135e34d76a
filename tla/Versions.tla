------------------------------ MODULE Versions ------------------------------
(***************************************************************************)
(* Version numbers as internal/hubupdate/update.go compares them.          *)
(*                                                                         *)
(* A version is the sequence of its dotted components, without the prefix  *)
(* "v" and what follows a dash.  A component is a number, or NotANumber    *)
(* for what strconv.Atoi refuses.                                          *)
(***************************************************************************)
EXTENDS Integers, Sequences

NotANumber == -1

Component == Nat \cup {NotANumber}

IsVersion(v) == v \in Seq(Component) /\ v # <<>>

\* Missing components are zero, and so are those that are not numbers.
At(v, i) == IF i \in 1..Len(v) /\ v[i] # NotANumber THEN v[i] ELSE 0

Places(v, w) == 1..(IF Len(v) > Len(w) THEN Len(v) ELSE Len(w))

\* compareVersions(v, w) > 0: the first difference decides.
IsNewer(v, w) ==
    \E i \in Places(v, w) :
        /\ At(v, i) > At(w, i)
        /\ \A j \in 1..(i - 1) : At(v, j) = At(w, j)

\* The pattern DownloadAndApplyHubUpdate holds a version against.
IsWellFormed(v) == Len(v) = 3 /\ \A i \in 1..3 : v[i] # NotANumber
=============================================================================
