-------------------------- MODULE ControlTLSProofs --------------------------
(***************************************************************************)
(* Theorems about the TLS identity of the control plane, for any number of *)
(* agents, crashes and lost files: a pin that was given out stays the      *)
(* hub's.                                                                  *)
(***************************************************************************)
EXTENDS ControlTLS, TLAPS

\* What the hub's pair holds, and what the place it does not use holds.
Cert == file[HubPlace]["cert"]
Key  == file[HubPlace]["key"]

OtherPlace == IF HubPlace = "own" THEN "default" ELSE "own"

\* The default pair is never the operator's, and neither is anywhere else.
Apart ==
    /\ \A p \in Parts :
        /\ file[OtherPlace][p] # NoId => HubPlace = "default" /\ file[OtherPlace][p] = OwnId
        /\ HubPlace = "default" => file[HubPlace][p] # OwnId
    /\ HubPlace = "default" => identity # OwnId

\* How far a pair has been written.
Writing ==
    /\ hub = "key" => Key = NoId /\ Cert = NoId
    /\ hub = "keyFill" => Key = Partial /\ Cert = NoId
    /\ hub = "cert" => Key = identity /\ Cert = NoId
    /\ hub = "certFill" => Key = identity /\ Cert = Partial
    /\ hub \notin {"down", "serving"} => identity \in Ids
    /\ hub = "serving" => /\ Cert \in Ids => Cert = identity
                          /\ Key \in Ids => Key = identity

\* A refusal names the one file that may be there.
Refusing ==
    refusal # "none" =>
        /\ hub = "down"
        /\ \E q \in Parts : q # refusal /\ file[HubPlace][q] = NoId

\* A certificate that can be read has its key, or that was lost.
Matched == Cert \in Ids => Key = Cert \/ Cert \in lost

\* A pin's pair is whole, or a file of it was lost and one is left.
Pinned(i) ==
    i # NoId => \/ i \in givenUp
                \/ Cert = i /\ Key = i
                \/ i \in lost /\ (Cert = i \/ Key = i)

IInv ==
    /\ TypeOK
    /\ Apart
    /\ Writing
    /\ Refusing
    /\ Matched
    /\ \A a \in Agents : Pinned(pin[a])

-----------------------------------------------------------------------------
(***************************************************************************)
(* The invariant is inductive.  No configuration names a certificate and   *)
(* no key: that is the one setting with which the hub and sshhub-ctl look  *)
(* at different places.                                                    *)
(***************************************************************************)

NoLoneCertificate == {"cert"} \notin Settings

LEMMA LookAlike ==
  ASSUME TypeOK
  PROVE  CtlPlace = HubPlace <=> configured # {"cert"}
<1>1. configured \in SUBSET Parts
  BY Assumption DEF TypeOK
<1>2. configured \in {{}, {"cert"}, {"key"}, Parts}
  BY <1>1, Zenon DEF Parts
<1> QED
  BY <1>2 DEF CtlPlace, HubPlace, Parts

LEMMA Place ==
  ASSUME TypeOK
  PROVE  /\ HubPlace \in Places /\ OtherPlace \in Places /\ HubPlace # OtherPlace
         /\ Places = {HubPlace, OtherPlace}
         /\ NoLoneCertificate => CtlPlace = HubPlace
         /\ Cert \in Ids \cup {NoId, Partial} /\ Key \in Ids \cup {NoId, Partial}
<1>1. NoLoneCertificate => configured # {"cert"}
  BY DEF TypeOK, NoLoneCertificate
<1>2. NoLoneCertificate => CtlPlace = HubPlace
  BY <1>1, LookAlike
<1> QED
  BY <1>2 DEF TypeOK, HubPlace, OtherPlace, Places, Parts, Cert, Key

LEMMA InitHolds == Init => IInv
<1> SUFFICES ASSUME Init PROVE IInv
  OBVIOUS
<1>1. PICK id \in {OwnId, NoId} :
        file = [w \in Places |-> [p \in Parts |-> IF w = "own" THEN id ELSE NoId]]
  BY DEF Init
<1>2. OwnId \in Ids
  BY Assumption DEF OwnId, Ids
<1>3. TypeOK
  BY <1>1, <1>2 DEF Init, TypeOK, HubPcs
<1>4. /\ \A p \in Parts : file["default"][p] = NoId /\ file["own"][p] = id
      /\ "cert" \in Parts /\ "key" \in Parts
  BY <1>1 DEF Places, Parts
<1>5. NoId # OwnId
  BY <1>2, Assumption
<1>6. Apart
  BY <1>4, <1>5 DEF Init, Apart, OtherPlace, HubPlace
<1>7. Matched
  BY <1>4 DEF Matched, Cert, Key, HubPlace
<1> QED
  BY <1>3, <1>6, <1>7 DEF Init, IInv, Writing, Refusing, Pinned

\* Starting changes no file.
LEMMA StartKeeps ==
  ASSUME IInv, Start
  PROVE  IInv'
<1>1. UNCHANGED <<configured, file, pin, lost, givenUp, faults>> /\ hub = "down"
  BY DEF Start, Load, LoadFails, RefuseHalf, Generate, history
<1>2. UNCHANGED <<HubPlace, OtherPlace, Cert, Key>>
  BY <1>1 DEF HubPlace, OtherPlace, Cert, Key
<1>3. Matched' /\ \A a \in Agents : Pinned(pin[a])'
  BY <1>1, <1>2 DEF IInv, Matched, Pinned
<1>4. CASE Load
  <2>1. identity' = Cert /\ Cert = Key /\ Cert \in Ids
    BY <1>4, Place DEF Load, IInv, TypeOK, Exists, Cert, Key, Parts
  <2>2. TypeOK'
    BY <1>1, <1>4, <2>1 DEF Load, IInv, TypeOK, HubPcs
  <2>3. Apart'
    BY <1>1, <1>2, <2>1 DEF IInv, Apart, Cert, Parts
  <2> QED
    BY <1>2, <1>3, <1>4, <2>1, <2>2, <2>3 DEF Load, IInv, Writing, Refusing
<1>5. CASE LoadFails
  <2>1. TypeOK'
    BY <1>1, <1>5 DEF LoadFails, IInv, TypeOK
  <2> QED
    BY <1>1, <1>2, <1>3, <1>5, <2>1 DEF LoadFails, IInv, Apart, Writing, Refusing
<1>6. CASE RefuseHalf
  <2>1. TypeOK'
    BY <1>1, <1>6 DEF RefuseHalf, IInv, TypeOK
  <2>2. Refusing'
    BY <1>1, <1>2, <1>6 DEF RefuseHalf, Refusing, Exists
  <2> QED
    BY <1>1, <1>2, <1>3, <1>6, <2>1, <2>2 DEF RefuseHalf, IInv, Apart, Writing
<1>7. CASE Generate
  <2>1. identity' = made + 1 /\ made' = made + 1 /\ made + 1 \in Ids /\ made + 1 # OwnId
    BY <1>7, Assumption DEF Generate, IInv, TypeOK, Ids, OwnId
  <2>2. TypeOK'
    BY <1>1, <1>7, <2>1 DEF Generate, IInv, TypeOK, HubPcs
  <2>3. Key = NoId /\ Cert = NoId
    BY <1>7 DEF Generate, Exists, Key, Cert, Parts
  <2>4. Apart'
    BY <1>1, <1>2, <2>1 DEF IInv, Apart
  <2> QED
    BY <1>2, <1>3, <1>7, <2>1, <2>2, <2>3, <2>4 DEF Generate, IInv, Writing, Refusing
<1> QED
  BY <1>4, <1>5, <1>6, <1>7 DEF Start

\* A write of one file of the hub's pair, seen through the names above.
LEMMA Written ==
  ASSUME TypeOK, NEW p \in Parts, NEW content, Write(p, content),
         configured' = configured
  PROVE  /\ UNCHANGED <<HubPlace, OtherPlace>>
         /\ file'[HubPlace][p] = content
         /\ \A q \in Parts : q # p => file'[HubPlace][q] = file[HubPlace][q]
         /\ \A q \in Parts : file'[OtherPlace][q] = file[OtherPlace][q]
         /\ p = "key" => Key' = content /\ Cert' = Cert
         /\ p = "cert" => Cert' = content /\ Key' = Key
         /\ content \in Ids \cup {NoId, Partial} =>
                file' \in [Places -> [Parts -> Ids \cup {NoId, Partial}]]
<1>1. UNCHANGED <<HubPlace, OtherPlace>>
  BY DEF HubPlace, OtherPlace
<1>2. file' = [file EXCEPT ![HubPlace][p] = content]
  BY DEF Write
<1>3. HubPlace \in Places /\ OtherPlace \in Places /\ HubPlace # OtherPlace
  BY Place
<1>4. /\ file'[HubPlace][p] = content
      /\ \A q \in Parts : q # p => file'[HubPlace][q] = file[HubPlace][q]
      /\ \A q \in Parts : file'[OtherPlace][q] = file[OtherPlace][q]
  BY <1>2, <1>3 DEF TypeOK
<1>5. content \in Ids \cup {NoId, Partial} =>
        file' \in [Places -> [Parts -> Ids \cup {NoId, Partial}]]
  BY <1>2, <1>3 DEF TypeOK
<1> QED
  BY <1>1, <1>4, <1>5 DEF Key, Cert, Parts

LEMMA WriteKeeps ==
  ASSUME IInv, WritePair
  PROVE  IInv'
<1> USE Assumption DEF IInv
<1>1. PICK pc \in HubPcs, p \in Parts, content \in {Partial, identity},
           next \in HubPcs \ {"down"} :
        WriteStep(pc, p, content, next)
  BY DEF WritePair, HubPcs, Parts
<1>0. content \in Ids \cup {Partial}
  BY DEF WritePair, WriteStep, Writing
<1>2. UNCHANGED <<configured, identity, refusal, pin, lost, givenUp, made, faults>>
  BY <1>1 DEF WriteStep, history
<1>3. Write(p, content)
  BY <1>1 DEF WriteStep
<1>4. TypeOK'
  BY <1>0, <1>1, <1>2, <1>3, Written DEF WriteStep, TypeOK
<1>5. /\ hub = "key" => Key' = Partial /\ Cert' = Cert /\ hub' = "keyFill"
      /\ hub = "keyFill" => Key' = identity /\ Cert' = Cert /\ hub' = "cert"
      /\ hub = "cert" => Cert' = Partial /\ Key' = Key /\ hub' = "certFill"
      /\ hub = "certFill" => Cert' = identity /\ Key' = Key /\ hub' = "serving"
      /\ hub \in {"key", "keyFill", "cert", "certFill"}
  BY <1>2, Written DEF WritePair, WriteStep, Parts
<1>6. Writing'
  BY <1>2, <1>5 DEF Writing
<1>7. Refusing'
  BY <1>2, <1>5 DEF Refusing
<1>8. Matched'
  BY <1>2, <1>5 DEF Matched, Writing
<1>9. ASSUME NEW a \in Agents PROVE Pinned(pin[a])'
  <2>1. pin[a] \in Ids \cup {NoId} /\ Pinned(pin[a])
    BY DEF TypeOK
  <2> QED
    BY <1>2, <1>5, <2>1 DEF Pinned, Writing
<1>10. Apart'
  <2>1. OwnId # Partial
    BY DEF OwnId, Ids
  <2>2. /\ UNCHANGED <<HubPlace, OtherPlace>>
        /\ file'[HubPlace][p] = content
        /\ \A q \in Parts : q # p => file'[HubPlace][q] = file[HubPlace][q]
        /\ \A q \in Parts : file'[OtherPlace][q] = file[OtherPlace][q]
    BY <1>2, <1>3, Written
  <2> QED
    BY <1>2, <2>1, <2>2 DEF Apart
<1> QED
  BY <1>4, <1>6, <1>7, <1>8, <1>9, <1>10

LEMMA CrashKeeps ==
  ASSUME IInv, Crash
  PROVE  IInv'
<1>1. UNCHANGED <<configured, file, refusal, pin, lost, givenUp, made>>
  BY DEF Crash, history
<1>2. UNCHANGED <<HubPlace, OtherPlace, Cert, Key>>
  BY <1>1 DEF HubPlace, OtherPlace, Cert, Key
<1>3. TypeOK'
  BY <1>1 DEF Crash, IInv, TypeOK, HubPcs
<1>4. OwnId \in Ids
  BY Assumption DEF OwnId, Ids
<1> QED
  BY <1>1, <1>2, <1>3, <1>4, Assumption
     DEF Crash, IInv, Apart, Writing, Refusing, Matched, Pinned

\* Whoever takes a file of the hub's pair away: what has no file left is
\* given up.
LEMMA TakenAway ==
  ASSUME TypeOK, Apart, UNCHANGED <<configured, pin>>,
         NEW losses, GivesUp(losses),
         file' \in [Places -> [Parts -> Ids \cup {NoId, Partial}]],
         \A p \in Parts : file'[OtherPlace][p] = file[OtherPlace][p],
         NEW i \in Ids, Pinned(i), i \in lost' \cup givenUp
  PROVE  Pinned(i)'
<1>1. UNCHANGED <<HubPlace, OtherPlace>>
  BY DEF HubPlace, OtherPlace
<1>2. givenUp \subseteq givenUp'
  BY DEF GivesUp
<1>3. CASE i \in givenUp \/ Cert' = i \/ Key' = i
  BY <1>2, <1>3 DEF Pinned
<1>4. CASE i \notin givenUp /\ Cert' # i /\ Key' # i
  <2>1. i # NoId /\ (Cert = i \/ Key = i)
    BY <1>4, Assumption DEF Pinned
  <2>2. \A p \in Parts : file'[HubPlace][p] # i
    BY <1>1, <1>4 DEF Cert, Key, Parts
  <2>3. \A p \in Parts : file'[OtherPlace][p] # i
    BY <2>1 DEF Apart, Cert, Key, Parts
  <2>4. \A w \in Places, p \in Parts : file'[w][p] # i
    BY <2>2, <2>3, Place
  <2> QED
    BY <1>4, <2>4 DEF GivesUp, Pinned
<1> QED
  BY <1>3, <1>4

LEMMA RemoveNamedKeeps ==
  ASSUME IInv, RemoveNamed
  PROVE  IInv'
<1> USE Assumption DEF IInv
<1>1. /\ UNCHANGED <<configured, hub, identity, pin, made, faults>> /\ hub = "down"
      /\ refusal \in Parts /\ refusal' = "none" /\ Write(refusal, NoId) /\ GivesUp({})
  BY DEF RemoveNamed, TypeOK
<1>2. /\ UNCHANGED <<HubPlace, OtherPlace>>
      /\ \A q \in Parts : file'[OtherPlace][q] = file[OtherPlace][q]
      /\ file' \in [Places -> [Parts -> Ids \cup {NoId, Partial}]]
      /\ Key' = NoId /\ Cert' = NoId
  BY <1>1, Written DEF Refusing, Parts, Key, Cert
<1>3. lost' = lost
  BY <1>1 DEF GivesUp
<1>4. TypeOK'
  BY <1>1, <1>2, <1>3 DEF TypeOK, GivesUp
<1>5. Apart'
  BY <1>1, <1>2 DEF Apart, Parts, Key, Cert, OwnId, Ids
<1>6. Writing' /\ Refusing' /\ Matched'
  BY <1>1, <1>2 DEF Writing, Refusing, Matched
<1>7. ASSUME NEW a \in Agents PROVE Pinned(pin[a])'
  <2>1. CASE pin[a] = NoId
    BY <1>1, <2>1 DEF Pinned
  <2>2. CASE pin[a] \in Ids
    <3>1. Pinned(pin[a]) /\ (Cert = NoId \/ Key = NoId)
      BY <1>1 DEF Refusing, Parts, Cert, Key
    <3>2. pin[a] \in lost' \cup givenUp
      BY <1>3, <2>2, <3>1 DEF Pinned
    <3> QED
      BY <1>1, <1>2, <2>2, <3>1, <3>2, TakenAway
  <2> QED
    BY <2>1, <2>2 DEF TypeOK
<1> QED
  BY <1>4, <1>5, <1>6, <1>7

LEMMA RemoveDamagedKeeps ==
  ASSUME IInv, RemoveDamaged
  PROVE  IInv'
<1> USE Assumption DEF IInv
<1>1. /\ UNCHANGED <<configured, hub, identity, refusal, pin, made, faults>>
      /\ hub = "down" /\ GivesUp({})
      /\ file' = [file EXCEPT ![HubPlace] = [p \in Parts |-> NoId]]
      /\ \A p \in Parts : Exists(p)
      /\ Cert = Partial \/ Key = Partial
  BY DEF RemoveDamaged, Parts, Cert, Key
<1>2. UNCHANGED <<HubPlace, OtherPlace>>
  BY <1>1 DEF HubPlace, OtherPlace
<1>3. /\ \A q \in Parts : file'[OtherPlace][q] = file[OtherPlace][q]
      /\ file' \in [Places -> [Parts -> Ids \cup {NoId, Partial}]]
      /\ \A q \in Parts : file'[HubPlace][q] = NoId
  BY <1>1, Place DEF TypeOK
<1>4. Key' = NoId /\ Cert' = NoId
  BY <1>2, <1>3 DEF Parts, Key, Cert
<1>5. lost' = lost
  BY <1>1 DEF GivesUp
<1>6. TypeOK'
  BY <1>1, <1>3, <1>5 DEF TypeOK, GivesUp
<1>7. OwnId # NoId
  BY DEF OwnId, Ids
<1>8. Apart'
  BY <1>1, <1>2, <1>3, <1>7 DEF Apart
<1>9. refusal = "none"
  BY <1>1 DEF Refusing, Exists
<1>10. Writing' /\ Refusing' /\ Matched'
  BY <1>1, <1>4, <1>9 DEF Writing, Refusing, Matched
<1>11. ASSUME NEW a \in Agents PROVE Pinned(pin[a])'
  <2>1. CASE pin[a] = NoId
    BY <1>1, <2>1 DEF Pinned
  <2>2. CASE pin[a] \in Ids
    <3>1. Pinned(pin[a])
      OBVIOUS
    <3>2. pin[a] \in lost' \cup givenUp
      BY <1>1, <1>5, <2>2, <3>1 DEF Pinned
    <3> QED
      BY <1>1, <1>3, <2>2, <3>1, <3>2, TakenAway
  <2> QED
    BY <2>1, <2>2 DEF TypeOK
<1> QED
  BY <1>6, <1>8, <1>10, <1>11

LEMMA LoseFileKeeps ==
  ASSUME IInv, NEW p \in Parts, NEW left \in {NoId, Partial}, LoseFile(p, left)
  PROVE  IInv'
<1> USE Assumption DEF IInv
<1>1. /\ UNCHANGED <<configured, hub, identity, refusal, pin, made>>
      /\ hub \in {"down", "serving"} /\ Exists(p) /\ faults' = faults + 1
      /\ Write(p, left) /\ GivesUp({file[HubPlace][p]} \cap Ids)
  BY DEF LoseFile
<1>2. /\ UNCHANGED <<HubPlace, OtherPlace>>
      /\ \A q \in Parts : file'[OtherPlace][q] = file[OtherPlace][q]
      /\ file' \in [Places -> [Parts -> Ids \cup {NoId, Partial}]]
      /\ file'[HubPlace][p] = left
      /\ \A q \in Parts : q # p => file'[HubPlace][q] = file[HubPlace][q]
  BY <1>1, Written
<1>3. p = "key" \/ p = "cert"
  BY DEF Parts
<1>4. \/ p = "key" /\ Key' = left /\ Cert' = Cert
      \/ p = "cert" /\ Cert' = left /\ Key' = Key
  BY <1>1, <1>3, Written
<1>5. lost' = lost \cup ({file[HubPlace][p]} \cap Ids)
  BY <1>1 DEF GivesUp
<1>6. TypeOK'
  BY <1>1, <1>2, <1>5 DEF TypeOK, GivesUp
<1>7. OwnId \notin {NoId, Partial}
  BY DEF OwnId, Ids
<1>8. Apart'
  BY <1>1, <1>2, <1>7 DEF Apart
<1>9. Writing'
  BY <1>1, <1>4 DEF Writing
<1>10. Refusing'
  <2>1. SUFFICES ASSUME refusal # "none" PROVE Refusing'
    BY <1>1 DEF Refusing
  <2>2. PICK q \in Parts : q # refusal /\ file[HubPlace][q] = NoId
    BY <2>1 DEF Refusing
  <2>3. q # p
    BY <1>1, <2>2 DEF Exists
  <2> QED
    BY <1>1, <1>2, <2>1, <2>2, <2>3 DEF Refusing
<1>11. Matched'
  <2>1. SUFFICES ASSUME Cert' \in Ids PROVE Key' = Cert' \/ Cert' \in lost'
    BY DEF Matched
  <2>2. p = "key" /\ Cert' = Cert /\ file[HubPlace][p] = Key
    BY <1>4, <2>1 DEF Key
  <2> QED
    BY <1>5, <2>1, <2>2 DEF Matched
<1>12. ASSUME NEW a \in Agents PROVE Pinned(pin[a])'
  <2>1. CASE pin[a] = NoId
    BY <1>1, <2>1 DEF Pinned
  <2>2. CASE pin[a] \in Ids
    <3>1. Pinned(pin[a]) /\ file[HubPlace][p] \in {Cert, Key}
      BY <1>3 DEF Cert, Key
    <3>2. pin[a] \in lost' \cup givenUp
      BY <1>5, <2>2, <3>1 DEF Pinned
    <3> QED
      BY <1>1, <1>2, <2>2, <3>1, <3>2, TakenAway
  <2> QED
    BY <2>1, <2>2 DEF TypeOK
<1> QED
  BY <1>6, <1>8, <1>9, <1>10, <1>11, <1>12

\* The pin is that of the pair whose certificate is there.
LEMMA InstallKeeps ==
  ASSUME IInv, NoLoneCertificate, NEW a \in Agents, InstallAgent(a)
  PROVE  IInv'
<1> USE Assumption DEF IInv
<1>1. UNCHANGED <<configured, file, hub, identity, refusal, lost, givenUp, made, faults>>
  BY DEF InstallAgent, history
<1>2. UNCHANGED <<HubPlace, OtherPlace, Cert, Key>>
  BY <1>1 DEF HubPlace, OtherPlace, Cert, Key
<1>3. Cert \in Ids /\ pin' = [pin EXCEPT ![a] = Cert]
  BY Place DEF InstallAgent, Cert
<1>4. TypeOK' /\ \A b \in Agents : pin'[b] = IF b = a THEN Cert ELSE pin[b]
  BY <1>1, <1>3 DEF TypeOK
<1>5. Apart' /\ Writing' /\ Refusing' /\ Matched'
  BY <1>1, <1>2 DEF Apart, Writing, Refusing, Matched
<1>6. Pinned(Cert)
  BY <1>3 DEF Matched, Pinned
<1>7. ASSUME NEW b \in Agents PROVE Pinned(pin[b])'
  BY <1>1, <1>2, <1>4, <1>6 DEF Pinned
<1> QED
  BY <1>4, <1>5, <1>7

LEMMA NextKeeps == NoLoneCertificate /\ IInv /\ [Next]_vars => IInv'
<1> SUFFICES ASSUME NoLoneCertificate, IInv, [Next]_vars PROVE IInv'
  OBVIOUS
<1>1. CASE UNCHANGED vars
  <2>1. UNCHANGED <<HubPlace, OtherPlace, Cert, Key>>
    BY <1>1 DEF vars, HubPlace, OtherPlace, Cert, Key
  <2>2. TypeOK' /\ Apart' /\ Writing' /\ Refusing' /\ Matched'
    BY <1>1, <2>1 DEF vars, history, IInv, TypeOK, Apart, Writing, Refusing, Matched
  <2> QED
    BY <1>1, <2>1, <2>2 DEF vars, history, IInv, Pinned
<1>2. CASE \E p \in Parts, left \in {NoId, Partial} : LoseFile(p, left)
  BY <1>2, LoseFileKeeps
<1>3. CASE \E a \in Agents : InstallAgent(a)
  BY <1>3, InstallKeeps
<1> QED
  BY <1>1, <1>2, <1>3, StartKeeps, WriteKeeps, CrashKeeps, RemoveNamedKeeps,
     RemoveDamagedKeeps DEF Next

-----------------------------------------------------------------------------
(***************************************************************************)
(* The theorems.                                                           *)
(***************************************************************************)

LEMMA Invariance == NoLoneCertificate => (Spec => []IInv)
<1> SUFFICES ASSUME NoLoneCertificate PROVE Spec => []IInv
  OBVIOUS
<1>1. Init => IInv
  BY InitHolds
<1>2. IInv /\ [Next]_vars => IInv'
  BY NextKeeps
<1> QED
  BY <1>1, <1>2, PTL DEF Spec

\* Unless tls_cert may be configured without tls_key, a pin that was given out
\* is the key the hub serves, whatever crashes and lost files come in between,
\* as long as one file of its pair is left (LoadOrCreate, controlPlanePin).
THEOREM PinsAreKept == NoLoneCertificate => (Spec => []PinsHold)
<1>1. IInv => PinsHold
  <2> SUFFICES ASSUME IInv, NEW a \in Agents, hub = "serving",
                      pin[a] \notin givenUp \cup {NoId}
               PROVE  Accepts(a)
    BY DEF PinsHold
  <2>1. pin[a] \in Ids /\ (Cert = pin[a] \/ Key = pin[a])
    BY DEF IInv, TypeOK, Pinned
  <2> QED
    BY <2>1 DEF IInv, Writing, Accepts
<1> QED
  BY <1>1, Invariance, PTL

\* What the variables may be, an identity in memory only of a pair the hub
\* has loaded or generated (LoadOrCreate).
THEOREM TypeCorrect == NoLoneCertificate => (Spec => []TypeOK)
<1>1. IInv => TypeOK
  BY DEF IInv
<1> QED
  BY <1>1, Invariance, PTL
=============================================================================
