----------------------------- MODULE SmokeProofs -----------------------------
(***************************************************************************)
(* Proofs about SmokePolicy and, at the end, about the handler around it,  *)
(* for every reservation, ceiling, request cost, set of observed digests   *)
(* and number of restarts.                                                 *)
(***************************************************************************)
EXTENDS SmokeHandler, TLAPS

-----------------------------------------------------------------------------
(* The inductive invariant *)

Reservation(s) == IF s \in S3Stages THEN 0 ELSE Amount[s]

\* Where the process is and what its object then holds.
Phases ==
    /\ Claimant => claimed
    /\ sequence > 0 => claimed
    /\ ~claimed => sequence = 0 /\ disk = <<>>
    /\ Claimant => sequence = Len(disk) /\ sequence > 0
    /\ pc = "new" => sequence = 0 /\ position = 0 /\ ~halted
    /\ pc = "stop" => code # "NONE"
    /\ pc = "sdk" => position < 5
    /\ ~halted => /\ unestablished = {} /\ ~coverageViolated /\ extras = <<>>
    /\ pc = "done" /\ code = "NONE" => position = 5 /\ ~halted /\ sequence > 0

\* The permit belongs to the stage in turn, and counts no more than one send
\* unless the policy has halted.
Permits == pc = "sdk" =>
    /\ permit.stage \in StageNames /\ Rank(permit.stage) = position
    /\ permit.sends <= 1 \/ halted
    /\ permit.approved <= permit.sends

\* What each attempt holds, by the stage's place in the chain.
Ledger == \A s \in StageNames :
    /\ Rank(s) > position => ~attempts[s].made
    /\ Rank(s) = position /\ pc \in {"new", "body"} /\ ~halted
          => ~attempts[s].made
    /\ pc = "sdk" /\ Rank(s) = position
          => /\ attempts[s].made /\ ~attempts[s].settled
             /\ attempts[s].charge = NoCharge
    /\ Rank(s) < position /\ s \in ModelStages => attempts[s].settled
    /\ s \in S3Stages => ~attempts[s].settled
    /\ attempts[s].hold = IF attempts[s].made /\ ~attempts[s].settled
                          THEN Reservation(s) ELSE 0
    /\ ~attempts[s].made => ~attempts[s].settled /\ attempts[s].charge = NoCharge

\* What was sent, while the process that claimed the directory is running
\* and after it reported completion.
Sends ==
    /\ \A s \in StageNames : sent[s] <= 1
    /\ ~claimed => \A s \in StageNames : sent[s] = 0
    /\ Claimant => \A s \in StageNames :
          /\ Rank(s) < position => sent[s] = 1
          /\ Rank(s) > position => sent[s] = 0
          /\ Rank(s) = position /\ pc = "body" /\ ~halted => sent[s] = 0
          /\ Rank(s) = position /\ pc = "sdk" => sent[s] = permit.approved
    /\ pc = "done" /\ code = "NONE" => \A s \in StageNames : sent[s] = 1

\* What was billed, against what the object knows.
Bills ==
    /\ ~claimed => \A p \in Providers : extraSpent[p] = 0
    /\ \A s \in ModelStages : sent[s] = 0 => spent[s] = 0
    /\ sequence > 0 => \A s \in ModelStages :
          /\ attempts[s].charge # NoCharge => attempts[s].charge = spent[s]
          /\ attempts[s].charge = NoCharge
                => ~attempts[s].settled /\ (attempts[s].made \/ sent[s] = 0)
          /\ attempts[s].settled => sent[s] = 1
    /\ sequence > 0 /\ BoundEstablished
          => \A p \in Providers : extraSpent[p] <= extraKnown[p]

Control == TypeOK /\ Phases /\ Permits /\ JournalNumbered
Accounts == Ledger /\ Sends /\ Bills /\ Conservation /\ CeilingSound
IInv == Control /\ Accounts
-----------------------------------------------------------------------------
(* Facts about the constants and the helpers *)

\* The stages have distinct places, from 0 to 4.
LEMMA Ranks ==
    /\ \A s \in StageNames : Rank(s) \in 0..4
    /\ \A s, t \in StageNames : Rank(s) = Rank(t) => s = t
<1>1. \A s \in StageNames : Rank(s) \in 0..4
  BY DEF Rank, StageNames
<1>2. \A s, t \in StageNames : Rank(s) = Rank(t) => s = t
  BY DEF Rank, StageNames
<1> QED BY <1>1, <1>2

\* Every stage is a model stage or an object read, and has a provider and a
\* reservation.
LEMMA Stages ==
    /\ ModelStages \subseteq StageNames /\ S3Stages \subseteq StageNames
    /\ \A s \in StageNames : s \in ModelStages <=> s \notin S3Stages
    /\ \A s \in StageNames : ProviderOf(s) \in Providers
    /\ \A s \in StageNames : Reservation(s) \in Nat
    /\ \A s \in ModelStages : Amount[s] \in Nat /\ Amount[s] > 0
BY AmountAssumption
   DEF ModelStages, S3Stages, StageNames, ProviderOf, Providers, Reservation

\* A journal entry numbered by the length of the journal keeps it numbered.
LEMMA JournalWrites ==
    ASSUME TypeOK, JournalNumbered, sequence = Len(disk),
           NEW kind \in Kinds, NEW s \in StageNames \cup {"none"},
           NEW over \in BOOLEAN, NEW w \in Writes, Journal(kind, s, over, w)
    PROVE  /\ sequence' \in Nat /\ sequence' > 0 /\ sequence' = Len(disk')
           /\ disk' \in Seq(JournalRecords) /\ JournalNumbered'
<1> DEFINE e == [ordinal |-> sequence + 1, kind |-> kind, stage |-> s,
                 overrun |-> over, file |-> w.file]
<1>1. e \in JournalRecords
  <2>1. w.file \in Files /\ sequence + 1 \in Nat
    BY DEF Writes, TypeOK
  <2> QED BY <2>1 DEF JournalRecords
<1>2. disk \in Seq(JournalRecords) /\ disk' = Append(disk, e)
      /\ sequence' = sequence + 1 /\ sequence \in Nat
  BY DEF TypeOK, Journal
<1> HIDE DEF e
<1>3. /\ disk' \in Seq(JournalRecords) /\ Len(disk') = Len(disk) + 1
      /\ \A i \in 1..Len(disk) : disk'[i] = disk[i]
      /\ disk'[Len(disk) + 1] = e
  BY <1>1, <1>2
<1>4. \A i \in DOMAIN disk' : disk'[i].ordinal = i
  <2> TAKE i \in DOMAIN disk'
  <2>1. i \in 1..Len(disk) \/ i = Len(disk) + 1
    BY <1>2, <1>3
  <2>2. CASE i \in 1..Len(disk)
    BY <2>2, <1>2, <1>3 DEF JournalNumbered
  <2>3. CASE i = Len(disk) + 1
    BY <2>3, <1>3 DEF e
  <2> QED BY <2>1, <2>2, <2>3
<1> QED BY <1>2, <1>3, <1>4 DEF JournalNumbered

\* What the counters of a permit may be, and that counting keeps it a permit.
LEMMA PermitShape ==
    /\ NoPermit \in PermitRecords
    /\ \A s \in StageNames :
          /\ NewPermit(s) \in PermitRecords
          /\ NewPermit(s).stage = s /\ NewPermit(s).checks = 0
          /\ NewPermit(s).sends = 0 /\ NewPermit(s).approved = 0
    /\ \A p \in PermitRecords :
          /\ p.checks \in 0..2 /\ p.sends \in 0..2 /\ p.approved \in 0..1
          /\ p.stage \in StageNames \cup {"none"}
<1>1. NoPermit \in PermitRecords
  BY DEF NoPermit, PermitRecords
<1>2. \A s \in StageNames :
          /\ NewPermit(s) \in PermitRecords
          /\ NewPermit(s).stage = s /\ NewPermit(s).checks = 0
          /\ NewPermit(s).sends = 0 /\ NewPermit(s).approved = 0
  BY DEF NewPermit, NoPermit, PermitRecords
<1>3. ASSUME NEW p \in PermitRecords
      PROVE  /\ p.checks \in 0..2 /\ p.sends \in 0..2 /\ p.approved \in 0..1
             /\ p.stage \in StageNames \cup {"none"}
  BY DEF PermitRecords
<1> QED BY <1>1, <1>2, <1>3

\* Counting a check, a send or an approval changes nothing else of a permit.
LEMMA CheckCounted ==
    ASSUME NEW p \in PermitRecords, NEW q, q = [p EXCEPT !.checks = @ + 1],
           p.checks < 2
    PROVE  /\ q \in PermitRecords /\ q.checks = p.checks + 1
           /\ q.stage = p.stage /\ q.sends = p.sends /\ q.approved = p.approved
<1>1. p.checks + 1 \in 0..2
  BY PermitShape
<1> QED BY <1>1 DEF PermitRecords

\* The second hook counts in the permit alone.
LEMMA SendCounted ==
    ASSUME NEW p \in PermitRecords, NEW q, q = [p EXCEPT !.sends = @ + 1],
           p.sends < 2
    PROVE  /\ q \in PermitRecords /\ q.sends = p.sends + 1
           /\ q.stage = p.stage /\ q.checks = p.checks /\ q.approved = p.approved
<1>1. p.sends + 1 \in 0..2
  BY PermitShape
<1> QED BY <1>1 DEF PermitRecords

\* An approval is counted in the permit alone.
LEMMA ApprovalCounted ==
    ASSUME NEW p \in PermitRecords, NEW q, q = [p EXCEPT !.approved = @ + 1],
           p.approved < 1
    PROVE  /\ q \in PermitRecords /\ q.approved = p.approved + 1
           /\ q.stage = p.stage /\ q.checks = p.checks /\ q.sends = p.sends
<1>1. p.approved + 1 \in 0..1
  BY PermitShape
<1> QED BY <1>1 DEF PermitRecords

\* The two ways an attempt changes keep it an attempt.
LEMMA AttemptShape ==
    /\ \A n \in Nat :
          /\ NewAttempt(n) \in AttemptRecords
          /\ NewAttempt(n).made /\ ~NewAttempt(n).settled
          /\ NewAttempt(n).hold = n /\ NewAttempt(n).charge = NoCharge
    /\ /\ NoAttempt \in AttemptRecords
       /\ ~NoAttempt.made /\ ~NoAttempt.settled
       /\ NoAttempt.hold = 0 /\ NoAttempt.charge = NoCharge
    /\ \A a \in AttemptRecords :
          /\ a.made \in BOOLEAN /\ a.settled \in BOOLEAN
          /\ a.hold \in Nat /\ a.charge \in Nat \cup {NoCharge}
    /\ NoCharge \notin Nat
<1>1. \A n \in Nat :
          /\ NewAttempt(n) \in AttemptRecords
          /\ NewAttempt(n).made /\ ~NewAttempt(n).settled
          /\ NewAttempt(n).hold = n /\ NewAttempt(n).charge = NoCharge
  BY DEF NewAttempt, NoAttempt, AttemptRecords
<1>2. /\ NoAttempt \in AttemptRecords
      /\ ~NoAttempt.made /\ ~NoAttempt.settled
      /\ NoAttempt.hold = 0 /\ NoAttempt.charge = NoCharge
  BY DEF NoAttempt, AttemptRecords
<1>3. \A a \in AttemptRecords :
          /\ a.made \in BOOLEAN /\ a.settled \in BOOLEAN
          /\ a.hold \in Nat /\ a.charge \in Nat \cup {NoCharge}
  BY DEF AttemptRecords
<1>4. NoCharge \notin Nat
  BY DEF NoCharge
<1> QED BY <1>1, <1>2, <1>3, <1>4

\* Counting a delivery changes no amount.
LEMMA DeliveredKeeps ==
    ASSUME TypeOK, permit.stage \in StageNames, NEW valid \in BOOLEAN
    PROVE  /\ Delivered(valid) \in [StageNames -> AttemptRecords]
           /\ \A s \in StageNames :
                 /\ Delivered(valid)[s].made = attempts[s].made
                 /\ Delivered(valid)[s].hold = attempts[s].hold
                 /\ Delivered(valid)[s].charge = attempts[s].charge
                 /\ Delivered(valid)[s].settled = attempts[s].settled
<1>1. PICK a \in AttemptRecords : a = attempts[permit.stage]
  BY DEF TypeOK
<1> DEFINE b == [a EXCEPT !.delivery = IF valid THEN "YES" ELSE "UNKNOWN"]
<1>2. /\ b \in AttemptRecords /\ b.made = a.made /\ b.hold = a.hold
      /\ b.charge = a.charge /\ b.settled = a.settled
  BY <1>1 DEF AttemptRecords
<1>3. Delivered(valid) = [attempts EXCEPT ![permit.stage] = b]
  BY <1>1 DEF Delivered, TypeOK
<1> HIDE DEF b
<1> QED BY <1>1, <1>2, <1>3 DEF TypeOK

\* A settlement replaces one stage's charge, hold and settled.
LEMMA SettleShape ==
    ASSUME TypeOK, NEW s \in ModelStages, s = permit.stage,
           NEW c \in Nat, NEW valid \in BOOLEAN, NEW exceeded \in BOOLEAN,
           Settle(s, c, valid, exceeded)
    PROVE  /\ attempts' \in [StageNames -> AttemptRecords]
           /\ attempts'[s].charge = c /\ attempts'[s].settled = valid
           /\ attempts'[s].hold = (IF valid THEN 0 ELSE Amount[s])
           /\ attempts'[s].made = attempts[s].made
           /\ \A t \in StageNames : t # s => attempts'[t] = attempts[t]
<1>1. s \in StageNames /\ Amount[s] \in Nat
  BY Stages
<1>2. PICK a \in AttemptRecords : a = attempts[s]
  BY <1>1 DEF TypeOK
<1> DEFINE b == [[a EXCEPT !.delivery = IF valid THEN "YES" ELSE "UNKNOWN"]
                   EXCEPT !.charge = c, !.settled = valid,
                          !.hold = IF valid THEN 0 ELSE Amount[s]]
<1>3. /\ b \in AttemptRecords /\ b.charge = c /\ b.settled = valid
      /\ b.hold = (IF valid THEN 0 ELSE Amount[s]) /\ b.made = a.made
  BY <1>1, <1>2 DEF AttemptRecords
<1>4. attempts' = [attempts EXCEPT ![s] = b]
  BY <1>1, <1>2 DEF Settle, Delivered, TypeOK
<1> HIDE DEF b
<1> QED BY <1>1, <1>2, <1>3, <1>4 DEF TypeOK
-----------------------------------------------------------------------------
(* Steps that move no money and send nothing *)

Quiet ==
    /\ UNCHANGED <<position, exposure, attempts, unestablished,
                   coverageViolated, extraKnown, claimed, sent, spent, extraSpent>>
    /\ pc' = "new" => pc = "new" /\ halted' = halted
    /\ pc' = "body" /\ ~halted' => pc = "body" /\ ~halted
    /\ pc' = "sdk" => pc = "sdk" /\ permit'.approved = permit.approved
    /\ Claimant' => Claimant
    /\ sequence' > 0 => sequence > 0
    /\ pc' = "done" /\ code' = "NONE" => \/ Claimant /\ position = 5
                                         \/ pc = "done" /\ code = "NONE"

\* A step that moves no money and sends nothing keeps the accounts.
LEMMA QuietKeepsAccounts ==
    ASSUME IInv, Quiet
    PROVE  Accounts'
<1> USE DEF IInv, Control, Accounts, Quiet
<1>1. Ledger'
  BY DEF Ledger
<1>2. Sends'
  <2>1. pc' = "done" /\ code' = "NONE" => \A s \in StageNames : sent'[s] = 1
    BY Ranks DEF Sends
  <2> QED BY <2>1 DEF Sends, Claimant
<1>3. Bills'
  BY DEF Bills, BoundEstablished
<1>4. Conservation'
  BY DEF Conservation, Holds, Known, Hold, Charge
<1>5. CeilingSound'
  BY DEF CeilingSound, BoundEstablished, WithinCaps
<1> QED BY <1>1, <1>2, <1>3, <1>4, <1>5

\* bind_clients runs before the claim: only clients, halted and the exit change.
LEMMA BindClientsStep ==
    ASSUME IInv, BindClients
    PROVE  Control' /\ Quiet
<1> USE DEF IInv, Control
<1>1. TypeOK'
  BY PermitShape DEF TypeOK, BindClients, object, Services, Codes
<1>2. Phases' /\ Permits'
  BY DEF Phases, Permits, Claimant, BindClients, object, Services, Codes
<1>3. JournalNumbered'
  BY DEF JournalNumbered, object, BindClients
<1>4. Quiet
  BY DEF Quiet, Claimant, Phases, BindClients, object, Services, Codes
<1> QED BY <1>1, <1>2, <1>3, <1>4

\* A refused activation touches nothing but the exit code.
LEMMA ActivateRefusedStep ==
    ASSUME IInv, ActivateRefused
    PROVE  Control' /\ Quiet
<1> USE DEF IInv, Control
<1>1. TypeOK'
  BY PermitShape DEF TypeOK, ActivateRefused, object, Codes
<1>2. Phases' /\ Permits'
  BY DEF Phases, Permits, Claimant, ActivateRefused, object, Codes
<1>3. JournalNumbered'
  BY DEF JournalNumbered, object, ActivateRefused
<1>4. Quiet
  BY DEF Quiet, Claimant, Phases, ActivateRefused, object, Codes
<1> QED BY <1>1, <1>2, <1>3, <1>4

\* A policy that lost the claim is used and halted, and owns no journal.
LEMMA ActivateStopsStep ==
    ASSUME IInv, ActivateStops
    PROVE  Control' /\ Quiet
<1> USE DEF IInv, Control
<1>1. TypeOK'
  BY PermitShape DEF TypeOK, ActivateStops, object, Codes
<1>2. Phases' /\ Permits'
  BY DEF Phases, Permits, Claimant, ActivateStops, object, Codes
<1>3. JournalNumbered'
  BY DEF JournalNumbered, object, ActivateStops
<1>4. Quiet
  BY DEF Quiet, Claimant, Phases, ActivateStops, object, Codes
<1> QED BY <1>1, <1>2, <1>3, <1>4

\* Most actions leave most variables alone: their type needs these facts only.
LEMMA TypeFrame ==
    ASSUME TypeOK,
           permit' \in PermitRecords, halted' \in BOOLEAN, code' \in Codes,
           pc' \in {"new", "body", "sdk", "stop", "done", "dead"},
           UNCHANGED <<used, clients, position, sequence, exposure, attempts,
                       unestablished, coverageViolated, extras, extraEvidence,
                       extraKnown, claimed, disk, sent, spent, extraSpent, runs>>
    PROVE  TypeOK'
BY DEF TypeOK

\* A refused stage reserves nothing.
LEMMA InvokeRefusedStep ==
    ASSUME IInv, NEW t \in StageNames, InvokeRefused(t)
    PROVE  Control' /\ Quiet
<1> USE DEF IInv, Control
<1>1. TypeOK'
  BY PermitShape DEF TypeOK, InvokeRefused, object, Codes, RaiseInBody, Refusals
<1>2. Phases' /\ Permits'
  BY DEF Phases, Permits, Claimant, InvokeRefused, object, Codes, RaiseInBody, Refusals
<1>3. JournalNumbered'
  BY DEF JournalNumbered, object, InvokeRefused
<1>4. Quiet
  BY DEF Quiet, Claimant, Phases, InvokeRefused, object, Codes, RaiseInBody, Refusals
<1> QED BY <1>1, <1>2, <1>3, <1>4

\* A send refused because the policy halted is not counted.
LEMMA SendRefusedStep ==
    ASSUME IInv, SendRefused
    PROVE  Control' /\ Quiet
<1> USE DEF IInv, Control
<1>1. TypeOK'
  <2>1. permit' \in PermitRecords
    BY PermitShape DEF TypeOK, SendRefused, RaiseInSdk, InvokeFails
  <2>2. /\ halted' \in BOOLEAN /\ code' \in Codes
        /\ pc' \in {"new", "body", "sdk", "stop", "done", "dead"}
    BY DEF TypeOK, SendRefused, RaiseInSdk, InvokeFails, RaiseInBody, Codes
  <2> QED BY <2>1, <2>2, TypeFrame DEF SendRefused
<1>2. Phases' /\ Permits'
  BY DEF Phases, Permits, Claimant, SendRefused, object, Codes, RaiseInSdk, InvokeFails,
         RaiseInBody, NoPermit
<1>3. JournalNumbered'
  BY DEF JournalNumbered, object, SendRefused
<1>4. Quiet
  BY DEF Quiet, Claimant, Phases, SendRefused, object, Codes, RaiseInSdk, InvokeFails,
         RaiseInBody, NoPermit
<1> QED BY <1>1, <1>2, <1>3, <1>4

\* A call that raises leaves its reservation held.
LEMMA CallRaisesStep ==
    ASSUME IInv, CallRaises
    PROVE  Control' /\ Quiet
<1> USE DEF IInv, Control
<1>1. TypeOK'
  BY PermitShape DEF TypeOK, CallRaises, object, Codes, InvokeFails, RaiseInBody, NoPermit
<1>2. Phases' /\ Permits'
  BY DEF Phases, Permits, Claimant, CallRaises, object, Codes, InvokeFails, RaiseInBody, NoPermit
<1>3. JournalNumbered'
  BY DEF JournalNumbered, object, CallRaises
<1>4. Quiet
  BY DEF Quiet, Claimant, Phases, CallRaises, object, Codes, InvokeFails, RaiseInBody, NoPermit
<1> QED BY <1>1, <1>2, <1>3, <1>4

\* An exception of the body changes no account.
LEMMA BodyRaisesStep ==
    ASSUME IInv, BodyRaises
    PROVE  Control' /\ Quiet
<1> USE DEF IInv, Control
<1>1. TypeOK'
  BY PermitShape DEF TypeOK, BodyRaises, object, Codes
<1>2. Phases' /\ Permits'
  BY DEF Phases, Permits, Claimant, BodyRaises, object, Codes
<1>3. JournalNumbered'
  BY DEF JournalNumbered, object, BodyRaises
<1>4. Quiet
  BY DEF Quiet, Claimant, Phases, BodyRaises, object, Codes
<1> QED BY <1>1, <1>2, <1>3, <1>4

\* The parameter check only counts itself.
LEMMA ParametersHookStep ==
    ASSUME IInv, ParametersHook
    PROVE  Control' /\ Quiet
<1> USE DEF IInv, Control
<1> DEFINE q == [permit EXCEPT !.checks = @ + 1]
<1>1. /\ q \in PermitRecords /\ q.stage = permit.stage
      /\ q.sends = permit.sends /\ q.approved = permit.approved
  <2>1. permit \in PermitRecords /\ permit.checks < 2
    BY DEF TypeOK, ParametersHook
  <2> QED BY <2>1, CheckCounted
<1>2. \/ /\ permit' = permit \/ permit' = q
         /\ UNCHANGED <<halted, pc, code>>
      \/ /\ permit' = NoPermit /\ halted'
         /\ \/ pc' = "body" /\ UNCHANGED code
            \/ pc' = "stop" /\ code' \in {"UNEXPECTED_REQUEST", "EXTRA_ATTEMPT"}
  BY DEF ParametersHook, RaiseInSdk, InvokeFails, RaiseInBody
<1> HIDE DEF q
<1>3. /\ pc = "sdk"
      /\ UNCHANGED <<used, clients, position, sequence, exposure, attempts,
                     unestablished, coverageViolated, extras, extraEvidence,
                     extraKnown, claimed, disk, sent, spent, extraSpent, runs>>
  BY DEF ParametersHook
<1>4. TypeOK'
  <2>1. permit' \in PermitRecords
    BY <1>1, <1>2, PermitShape DEF TypeOK
  <2>2. /\ halted' \in BOOLEAN /\ code' \in Codes
        /\ pc' \in {"new", "body", "sdk", "stop", "done", "dead"}
    BY <1>2, <1>3 DEF TypeOK, Codes
  <2> QED BY <1>3, <2>1, <2>2, TypeFrame
<1>5. Phases' /\ Permits'
  BY <1>1, <1>2, <1>3 DEF Phases, Permits, Claimant
<1>6. JournalNumbered'
  BY <1>3 DEF JournalNumbered
<1>7. Quiet
  BY <1>1, <1>2, <1>3 DEF Quiet, Claimant, Phases, NoPermit
<1> QED BY <1>4, <1>5, <1>6, <1>7

\* A misdirected send is counted, never approved.
LEMMA SendMisdirectedStep ==
    ASSUME IInv, SendMisdirected
    PROVE  Control' /\ Quiet
<1> USE DEF IInv, Control
<1>1. /\ Resent \in PermitRecords /\ Resent.stage = permit.stage
      /\ Resent.sends = 1 /\ Resent.approved = permit.approved
      /\ Resent.approved <= 1
  <2>1. permit \in PermitRecords /\ permit.sends = 0
    BY DEF TypeOK, SendMisdirected, FirstSend
  <2>2. permit.approved \in 0..1
    BY <2>1, PermitShape
  <2> QED BY <2>1, <2>2, SendCounted DEF Resent
<1>2. \/ permit' = Resent /\ UNCHANGED <<halted, pc, code>>
      \/ InvokeFails("ENDPOINT_INVALID")
  BY DEF SendMisdirected, RaiseInSdk
<1>3. /\ pc = "sdk" /\ permit.sends = 0
      /\ UNCHANGED <<used, clients, position, sequence, exposure, attempts,
                     unestablished, coverageViolated, extras, extraEvidence,
                     extraKnown, claimed, disk, sent, spent, extraSpent, runs>>
  BY DEF SendMisdirected, FirstSend
<1> USE DEF InvokeFails, RaiseInBody, NoPermit
<1>4. TypeOK'
  <2>1. permit' \in PermitRecords
    BY <1>1, <1>2, PermitShape DEF TypeOK
  <2>2. /\ halted' \in BOOLEAN /\ code' \in Codes
        /\ pc' \in {"new", "body", "sdk", "stop", "done", "dead"}
    BY <1>2, <1>3 DEF TypeOK, Codes
  <2> QED BY <1>3, <2>1, <2>2, TypeFrame
<1>5. Phases' /\ Permits'
  BY <1>1, <1>2, <1>3 DEF Phases, Permits, Claimant
<1>6. JournalNumbered'
  BY <1>3 DEF JournalNumbered
<1>7. Quiet
  BY <1>1, <1>2, <1>3 DEF Quiet, Claimant, Phases
<1> QED BY <1>4, <1>5, <1>6, <1>7

\* A blocked send is journalled, halts the policy and is never approved.
LEMMA SendBlockedStep ==
    ASSUME IInv, SendBlocked
    PROVE  Control' /\ Quiet
<1> USE DEF IInv, Control
<1>1. PICK w \in Writes :
          /\ Journal("blocked-send", permit.stage, FALSE, w)
          /\ RaiseInSdk(IF w.ok THEN "EXTRA_SEND"
                        ELSE "EVIDENCE_PUBLICATION_FAILED", Resent, TRUE)
  BY DEF SendBlocked
<1>2. /\ pc = "sdk" /\ ~halted
      /\ extras' = Append(extras, [stage |-> permit.stage, delivery |-> "NO",
                                   charge |-> NoCharge])
      /\ UNCHANGED <<used, clients, position, exposure, attempts, unestablished,
                     coverageViolated, extraEvidence, extraKnown, claimed, sent,
                     spent, extraSpent, runs>>
  BY DEF SendBlocked
<1>3. permit.stage \in StageNames /\ permit.sends <= 1 /\ sequence = Len(disk)
  BY <1>2 DEF Permits, Phases, Claimant
<1>4. /\ Resent \in PermitRecords /\ Resent.stage = permit.stage
      /\ Resent.approved <= Resent.sends /\ Resent.approved = permit.approved
  <2>1. permit \in PermitRecords /\ permit.approved <= permit.sends
    BY <1>2 DEF TypeOK, Permits
  <2>2. permit.sends \in 0..2 /\ permit.approved \in 0..1
    BY <2>1, PermitShape
  <2>3. permit.sends < 2
    BY <1>3, <2>2
  <2> QED BY <2>1, <2>2, <2>3, SendCounted DEF Resent
<1>5. /\ sequence' \in Nat /\ sequence' > 0 /\ sequence' = Len(disk')
      /\ disk' \in Seq(JournalRecords) /\ JournalNumbered'
  BY <1>1, <1>3, JournalWrites DEF Kinds
<1>6. /\ halted'
      /\ \/ permit' = Resent /\ UNCHANGED <<pc, code>>
         \/ /\ permit' = NoPermit
            /\ \/ pc' = "body" /\ UNCHANGED code
               \/ /\ pc' = "stop"
                  /\ code' \in {"EXTRA_SEND", "EVIDENCE_PUBLICATION_FAILED"}
  BY <1>1 DEF RaiseInSdk, InvokeFails, RaiseInBody
<1>7. extras' \in Seq(ExtraRecords)
  <2>1. [stage |-> permit.stage, delivery |-> "NO", charge |-> NoCharge]
           \in ExtraRecords
    BY <1>3 DEF ExtraRecords
  <2> QED BY <1>2, <2>1 DEF TypeOK
<1>8. TypeOK'
  BY <1>2, <1>4, <1>5, <1>6, <1>7, PermitShape DEF TypeOK, Codes
<1>9. Phases' /\ Permits'
  BY <1>2, <1>4, <1>5, <1>6 DEF Phases, Permits, Claimant
<1>10. Quiet
  BY <1>2, <1>4, <1>5, <1>6 DEF Quiet, Claimant, Phases
<1> QED BY <1>5, <1>8, <1>9, <1>10

\* The body returns: complete only at the end of an unhalted chain.
LEMMA BodyReturnsStep ==
    ASSUME IInv, BodyReturns
    PROVE  Control' /\ Quiet
<1> USE DEF IInv, Control
<1>1. /\ pc = "body"
      /\ UNCHANGED <<used, clients, position, exposure, attempts, permit,
                     unestablished, coverageViolated, extras, extraEvidence,
                     extraKnown, claimed, sent, spent, extraSpent, runs>>
  BY DEF BodyReturns
<1>2. sequence = Len(disk) /\ sequence > 0
  BY <1>1 DEF Phases, Claimant
<1>3. CASE ~halted /\ position = 5
  <2>1. PICK w \in Writes :
            /\ Journal("complete", "none", FALSE, w)
            /\ halted' = ~w.ok
            /\ pc' = IF w.ok THEN "done" ELSE "stop"
            /\ code' = IF w.ok THEN "NONE" ELSE "EVIDENCE_PUBLICATION_FAILED"
    BY <1>3 DEF BodyReturns, Complete
  <2>2. /\ sequence' \in Nat /\ sequence' > 0 /\ sequence' = Len(disk')
        /\ disk' \in Seq(JournalRecords) /\ JournalNumbered'
    BY <1>2, <2>1, JournalWrites DEF Kinds
  <2>3. w.ok \in BOOLEAN
    BY DEF Writes
  <2>4. TypeOK'
    BY <1>1, <2>1, <2>2, <2>3 DEF TypeOK, Codes
  <2>5. Phases' /\ Permits'
    BY <1>1, <1>3, <2>1, <2>2, <2>3 DEF Phases, Permits, Claimant
  <2>6. Quiet
    BY <1>1, <1>2, <1>3, <2>1, <2>2, <2>3 DEF Quiet, Claimant
  <2> QED BY <2>2, <2>4, <2>5, <2>6
<1>4. CASE ~(~halted /\ position = 5)
  <2>1. /\ pc' = "stop" /\ code' = "CHAIN_INCOMPLETE"
        /\ UNCHANGED <<halted, sequence, disk>>
    BY <1>4 DEF BodyReturns, Complete
  <2>2. TypeOK'
    BY <1>1, <2>1 DEF TypeOK, Codes
  <2>3. Phases' /\ Permits' /\ JournalNumbered'
    BY <1>1, <2>1 DEF Phases, Permits, Claimant, JournalNumbered
  <2>4. Quiet
    BY <1>1, <2>1 DEF Quiet, Claimant
  <2> QED BY <2>2, <2>3, <2>4
<1> QED BY <1>3, <1>4

\* The stop is journalled by the claimant, and keeps the accounts.
LEMMA StopStep ==
    ASSUME IInv, Stop
    PROVE  Control' /\ Quiet
<1> USE DEF IInv, Control
<1>1. PICK w \in Writes :
          /\ Journal("stopped", "none", FALSE, w)
          /\ code' = IF w.ok THEN code ELSE "EVIDENCE_PUBLICATION_FAILED"
  BY DEF Stop
<1>2. /\ pc = "stop" /\ halted' /\ pc' = "done"
      /\ UNCHANGED <<used, clients, position, exposure, attempts, permit,
                     unestablished, coverageViolated, extras, extraEvidence,
                     extraKnown, claimed, sent, spent, extraSpent, runs>>
  BY DEF Stop
<1>3. sequence = Len(disk) /\ sequence > 0 /\ claimed /\ code # "NONE"
  BY <1>2 DEF Phases, Claimant
<1>4. /\ sequence' \in Nat /\ sequence' > 0 /\ sequence' = Len(disk')
      /\ disk' \in Seq(JournalRecords) /\ JournalNumbered'
  BY <1>1, <1>3, JournalWrites DEF Kinds
<1>5. code' # "NONE"
  BY <1>1, <1>3
<1>6. TypeOK'
  BY <1>1, <1>2, <1>4 DEF TypeOK, Codes
<1>7. Phases' /\ Permits'
  BY <1>2, <1>3, <1>4, <1>5 DEF Phases, Permits, Claimant
<1>8. Quiet
  BY <1>2, <1>3, <1>5 DEF Quiet, Claimant
<1> QED BY <1>4, <1>6, <1>7, <1>8

-----------------------------------------------------------------------------
(* Steps that begin, settle or forget *)

\* Whatever one stage's hold and charge change by, its provider's exposure
\* must change by, and then the accounts still balance.
LEMMA Balance ==
    ASSUME TypeOK, Conservation, NEW t \in ModelStages, NEW d \in Int,
           attempts' \in [StageNames -> AttemptRecords],
           \A u \in StageNames : u # t => attempts'[u] = attempts[u],
           Hold(t)' + Charge(t)' = Hold(t) + Charge(t) + d,
           exposure' = [exposure EXCEPT ![ProviderOf(t)] = @ + d],
           UNCHANGED extraKnown
    PROVE  Conservation' /\ exposure' \in [Providers -> Nat]
<1>1. \A u \in StageNames : /\ Hold(u) \in Nat /\ Charge(u) \in Nat
                            /\ Hold(u)' \in Nat /\ Charge(u)' \in Nat
                            /\ u # t => Hold(u)' = Hold(u) /\ Charge(u)' = Charge(u)
  BY AttemptShape DEF TypeOK, Hold, Charge
<1>2. \A p \in Providers : exposure[p] \in Nat /\ extraKnown[p] \in Nat
  BY DEF TypeOK
<1>3. \A p \in Providers : exposure'[p] = Holds(p)' + Known(p)'
  <2>1. /\ Holds("titan") = Hold("embedding")
        /\ Holds("titan")' = Hold("embedding")'
        /\ Holds("haiku") = Hold("router") + Hold("generation")
        /\ Holds("haiku")' = Hold("router")' + Hold("generation")'
        /\ Known("titan") = extraKnown["titan"] + Charge("embedding")
        /\ Known("titan")' = extraKnown["titan"] + Charge("embedding")'
        /\ Known("haiku") = extraKnown["haiku"] + (Charge("router") + Charge("generation"))
        /\ Known("haiku")'
              = extraKnown["haiku"] + (Charge("router")' + Charge("generation")')
    BY DEF Holds, Known
  <2>2. /\ exposure["titan"] = Holds("titan") + Known("titan")
        /\ exposure["haiku"] = Holds("haiku") + Known("haiku")
        /\ exposure["titan"] \in Nat /\ exposure["haiku"] \in Nat
        /\ extraKnown["titan"] \in Nat /\ extraKnown["haiku"] \in Nat
    BY <1>2 DEF Conservation, Providers
  <2>3. \A p \in Providers :
           exposure'[p] = IF p = ProviderOf(t) THEN exposure[p] + d ELSE exposure[p]
    BY DEF TypeOK
  <2>4. CASE t = "embedding"
    <3>1. exposure'["titan"] = exposure["titan"] + d /\ exposure'["haiku"] = exposure["haiku"]
      BY <2>3, <2>4 DEF ProviderOf, Providers
    <3>2. exposure'["titan"] = Holds("titan")' + Known("titan")'
      BY <1>1, <2>1, <2>2, <2>4, <3>1 DEF StageNames
    <3>3. exposure'["haiku"] = Holds("haiku")' + Known("haiku")'
      BY <1>1, <2>1, <2>2, <2>4, <3>1 DEF StageNames
    <3> QED BY <3>2, <3>3 DEF Providers
  <2>5. CASE t # "embedding"
    <3>1. exposure'["haiku"] = exposure["haiku"] + d /\ exposure'["titan"] = exposure["titan"]
      BY <2>3, <2>5 DEF ProviderOf, Providers
    <3>2. exposure'["titan"] = Holds("titan")' + Known("titan")'
      BY <1>1, <2>1, <2>2, <2>5, <3>1 DEF StageNames
    <3>3. t = "router" \/ t = "generation"
      BY <2>5 DEF ModelStages
    <3>4. exposure'["haiku"] = Holds("haiku")' + Known("haiku")'
      BY <1>1, <2>1, <2>2, <3>1, <3>3 DEF StageNames
    <3> QED BY <3>2, <3>4 DEF Providers
  <2> QED BY <2>4, <2>5
<1>4. \A p \in Providers : Holds(p)' + Known(p)' \in Nat
  BY <1>1, <1>2 DEF Holds, Known, StageNames, Providers
<1>5. exposure' \in [Providers -> Nat]
  BY <1>3, <1>4 DEF TypeOK
<1> QED BY <1>3, <1>5 DEF Conservation

\* A new process over an old directory knows nothing and owes nothing.
LEMMA NewObjectStep ==
    ASSUME IInv, NewObject, pc' \in {"new", "dead"}, code' = "NONE",
           UNCHANGED <<claimed, disk, sent, spent, extraSpent>>,
           runs' \in 1..MaxRuns
    PROVE  IInv'
<1> USE DEF IInv, Control, Accounts, NewObject
<1>1. \A s \in StageNames :
         /\ attempts'[s] \in AttemptRecords
         /\ ~attempts'[s].made /\ ~attempts'[s].settled
         /\ attempts'[s].hold = 0 /\ attempts'[s].charge = NoCharge
  BY AttemptShape
<1>2. TypeOK'
  <2>1. attempts' \in [StageNames -> AttemptRecords] /\ permit' \in PermitRecords
    BY AttemptShape, PermitShape
  <2>2. exposure' \in [Providers -> Nat] /\ extraKnown' \in [Providers -> Nat]
    OBVIOUS
  <2>3. extras' \in Seq(ExtraRecords)
    OBVIOUS
  <2>4. pc' \in {"new", "body", "sdk", "stop", "done", "dead"} /\ code' \in Codes
    BY DEF Codes
  <2> HIDE DEF NewObject
  <2>5. /\ position' \in 0..5 /\ sequence' \in Nat
    BY DEF NewObject
  <2>7. /\ used' \in BOOLEAN /\ halted' \in BOOLEAN /\ coverageViolated' \in BOOLEAN
    BY DEF NewObject
  <2>8. clients' = {} /\ unestablished' = {} /\ extraEvidence' = {}
    BY DEF NewObject
  <2>6. /\ claimed' \in BOOLEAN /\ disk' \in Seq(JournalRecords)
        /\ sent' \in [StageNames -> Nat] /\ spent' \in [ModelStages -> Nat]
        /\ extraSpent' \in [Providers -> Nat]
    BY DEF TypeOK
  <2> QED BY <2>1, <2>2, <2>3, <2>4, <2>5, <2>6, <2>7, <2>8, runs' \in 1..MaxRuns DEF TypeOK
<1>3. Phases' /\ Permits' /\ JournalNumbered'
  BY DEF Phases, Permits, JournalNumbered, Claimant
<1>4. Ledger'
  BY <1>1, Ranks DEF Ledger
<1>5. Sends'
  BY DEF Sends, Claimant
<1>6. Bills'
  BY DEF Bills
<1>7. Conservation'
  <2>1. \A s \in StageNames : Hold(s)' = 0 /\ Charge(s)' = 0
    BY <1>1 DEF Hold, Charge
  <2> QED BY <2>1 DEF Conservation, Holds, Known, StageNames
<1>8. CeilingSound'
  BY CapsAssumption DEF CeilingSound, WithinCaps, Providers
<1> QED BY <1>2, <1>3, <1>4, <1>5, <1>6, <1>7, <1>8

\* Dying forgets the object and nothing else.
LEMMA DieStep == ASSUME IInv, Die PROVE IInv'
<1>1. runs \in 1..MaxRuns
  BY DEF IInv, Control, TypeOK
<1> QED BY <1>1, NewObjectStep DEF Die

\* A restart builds a new object over the same directory.
LEMMA RestartStep == ASSUME IInv, Restart PROVE IInv'
<1>1. runs' \in 1..MaxRuns
  BY MaxRunsAssumption DEF IInv, Control, TypeOK, Restart
<1> QED BY <1>1, NewObjectStep DEF Restart

\* The claim starts the journal; nothing was attempted, sent or billed before it.
LEMMA ActivateClaimsStep == ASSUME IInv, ActivateClaims PROVE IInv'
<1> USE DEF IInv, Control, Accounts
<1>1. PICK w \in Writes :
          /\ Journal("claim", "none", FALSE, w)
          /\ halted' = ~w.ok
          /\ IF w.ok THEN pc' = "body" /\ UNCHANGED code
             ELSE pc' = "stop" /\ code' = "EVIDENCE_PUBLICATION_FAILED"
  BY DEF ActivateClaims
<1>2. /\ pc = "new" /\ ~claimed /\ claimed' /\ used'
      /\ UNCHANGED <<clients, position, exposure, attempts, permit,
                     unestablished, coverageViolated, extras, extraEvidence,
                     extraKnown, sent, spent, extraSpent, runs>>
  BY DEF ActivateClaims, Creatable
<1>3. /\ ~halted /\ position = 0 /\ sequence = Len(disk) /\ w.ok \in BOOLEAN
      /\ claimed' = TRUE /\ used' = TRUE
  BY <1>2 DEF Phases, Writes, ActivateClaims
<1>4. /\ sequence' \in Nat /\ sequence' > 0 /\ sequence' = Len(disk')
      /\ disk' \in Seq(JournalRecords) /\ JournalNumbered'
  BY <1>1, <1>3, JournalWrites DEF Kinds
<1>5. TypeOK'
  BY <1>1, <1>2, <1>3, <1>4 DEF TypeOK, Codes
<1>6. Phases' /\ Permits'
  BY <1>1, <1>2, <1>3, <1>4 DEF Phases, Permits, Claimant
<1>7. \A s \in StageNames : ~attempts[s].made
  BY <1>2, <1>3, Ranks DEF Ledger
<1>8. Ledger'
  <2>1. \A s \in StageNames : /\ ~(Rank(s) < 0)
                              /\ ~attempts[s].settled /\ attempts[s].charge = NoCharge
                              /\ attempts[s].hold = 0
    BY <1>7, Ranks DEF Ledger
  <2>2. pc' # "sdk" /\ UNCHANGED attempts /\ position' = 0
    BY <1>1, <1>2, <1>3
  <2> QED BY <1>7, <2>1, <2>2 DEF Ledger
<1>9. Sends'
  BY <1>1, <1>2, <1>3, Ranks DEF Sends, Claimant
<1>10. Bills'
  <2>1. \A s \in ModelStages : ~attempts[s].settled /\ attempts[s].charge = NoCharge
                               /\ sent[s] = 0
    BY <1>2, <1>7, Stages DEF Ledger, Sends
  <2>2. \A p \in Providers : extraKnown[p] \in Nat /\ extraSpent[p] = 0
    BY <1>2 DEF TypeOK, Bills
  <2> QED BY <1>2, <2>1, <2>2 DEF Bills
<1>11. Conservation' /\ CeilingSound'
  BY <1>2 DEF Conservation, CeilingSound, Holds, Known, Hold, Charge,
              BoundEstablished, WithinCaps
<1> QED BY <1>4, <1>5, <1>6, <1>8, <1>9, <1>10, <1>11

\* The reservation moves exposure and hold together and stays within the caps.
LEMMA InvokeBeginsStep ==
    ASSUME IInv, NEW t \in StageNames, InvokeBegins(t)
    PROVE  IInv'
<1> USE DEF IInv, Control, Accounts
<1> DEFINE n == Reservation(t)
<1>1. PICK w \in Writes :
          /\ Journal("attempt", t, FALSE, w)
          /\ \/ /\ w.ok
                /\ permit' = NewPermit(t) /\ pc' = "sdk"
                /\ UNCHANGED <<halted, code>>
             \/ /\ ~w.ok
                /\ halted' = TRUE
                /\ RaiseInBody("EVIDENCE_PUBLICATION_FAILED")
                /\ UNCHANGED permit
  BY DEF InvokeBegins
<1>2. /\ pc = "body" /\ ~halted /\ position < 5 /\ Rank(t) = position
      /\ exposure' = Reserved(t) /\ Fits(t)
      /\ attempts' = [attempts EXCEPT ![t] = NewAttempt(n)]
      /\ UNCHANGED <<used, clients, position, unestablished, coverageViolated,
                     extras, extraEvidence, extraKnown, claimed, sent, spent,
                     extraSpent, runs>>
  BY DEF InvokeBegins, InOrder, Reservation
<1>3. claimed /\ sequence = Len(disk) /\ sequence > 0 /\ n \in Nat
      /\ unestablished = {} /\ ~coverageViolated
  BY <1>2, Stages DEF Phases, Claimant
<1>4. /\ sequence' \in Nat /\ sequence' > 0 /\ sequence' = Len(disk')
      /\ disk' \in Seq(JournalRecords) /\ JournalNumbered'
  BY <1>1, <1>3, JournalWrites DEF Kinds
<1>5. \/ /\ permit' = NewPermit(t) /\ pc' = "sdk" /\ UNCHANGED <<halted, code>>
      \/ /\ halted' = TRUE /\ UNCHANGED permit
         /\ \/ pc' = "body" /\ UNCHANGED code
            \/ pc' = "stop" /\ code' = "EVIDENCE_PUBLICATION_FAILED"
  BY <1>1 DEF RaiseInBody
<1>6. /\ attempts[t].hold = 0 /\ attempts[t].charge = NoCharge
      /\ ~attempts[t].settled /\ sent[t] = 0
  BY <1>2 DEF Ledger, Sends, Claimant
<1>7. /\ attempts' \in [StageNames -> AttemptRecords]
      /\ attempts'[t].made /\ ~attempts'[t].settled
      /\ attempts'[t].hold = n /\ attempts'[t].charge = NoCharge
      /\ \A s \in StageNames : s # t => attempts'[s] = attempts[s]
  BY <1>2, <1>3, AttemptShape DEF TypeOK
<1> HIDE DEF n
<1>8. Conservation' /\ exposure' \in [Providers -> Nat]
  <2>1. Hold(t) = 0 /\ Charge(t) = 0 /\ Hold(t)' = n /\ Charge(t)' = 0
    BY <1>6, <1>7 DEF Hold, Charge
  <2>2. CASE t \in ModelStages
    <3>1. n = Amount[t] /\ n \in Int
      BY <1>3, <2>2 DEF n, Reservation, ModelStages, S3Stages
    <3>2. exposure' = [exposure EXCEPT ![ProviderOf(t)] = @ + n]
      BY <1>2, <2>2, <3>1 DEF Reserved, ModelStages, S3Stages
    <3>3. Hold(t)' + Charge(t)' = Hold(t) + Charge(t) + n
      BY <2>1, <3>1
    <3> QED BY <1>2, <1>7, <2>2, <3>1, <3>2, <3>3, Balance
  <2>3. CASE t \in S3Stages
    <3>1. n = 0 /\ UNCHANGED exposure
      BY <1>2, <2>3 DEF n, Reservation, Reserved
    <3>2. \A s \in StageNames : Hold(s)' = Hold(s) /\ Charge(s)' = Charge(s)
      BY <1>7, <2>1, <3>1 DEF Hold, Charge
    <3>3. \A p \in Providers : Holds(p)' = Holds(p) /\ Known(p)' = Known(p)
      BY <1>2, <3>2 DEF Holds, Known, StageNames
    <3> QED BY <3>1, <3>3 DEF Conservation, TypeOK
  <2> QED BY <2>2, <2>3, Stages
<1>9. CeilingSound'
  <2>1. WithinCaps(exposure)
    BY <1>3 DEF CeilingSound, BoundEstablished
  <2>2. CASE t \in S3Stages
    BY <1>2, <2>1, <2>2 DEF CeilingSound, Reserved
  <2>3. CASE t \in ModelStages
    <3>1. /\ exposure'[ProviderOf(t)] <= Caps[ProviderOf(t)]
          /\ exposure'["haiku"] + exposure'["titan"] <= Caps["total"]
      BY <1>2, <2>3 DEF Fits
    <3>2. \A p \in Providers : p # ProviderOf(t) => exposure'[p] = exposure[p]
      BY <1>2, <2>3 DEF Reserved, TypeOK, ModelStages, S3Stages
    <3>3. /\ exposure'["haiku"] <= Caps["haiku"]
          /\ exposure'["titan"] <= Caps["titan"]
      BY <2>1, <3>1, <3>2 DEF WithinCaps, Providers, ProviderOf
    <3> QED BY <3>1, <3>3 DEF CeilingSound, WithinCaps
  <2> QED BY <2>2, <2>3, Stages
<1>10. TypeOK'
  <2>1. /\ halted' \in BOOLEAN /\ code' \in Codes
        /\ pc' \in {"new", "body", "sdk", "stop", "done", "dead"}
    BY <1>5, <1>2 DEF TypeOK, Codes
  <2>2. permit' \in PermitRecords
    BY <1>5, PermitShape DEF TypeOK
  <2>3. /\ used' \in BOOLEAN /\ clients' \subseteq Services /\ position' \in 0..5
        /\ unestablished' \subseteq StageNames \cup {Unidentified}
        /\ coverageViolated' \in BOOLEAN
        /\ extras' \in Seq(ExtraRecords) /\ extraEvidence' \subseteq Evidence
        /\ extraKnown' \in [Providers -> Nat]
        /\ claimed' \in BOOLEAN /\ sent' \in [StageNames -> Nat]
        /\ spent' \in [ModelStages -> Nat] /\ extraSpent' \in [Providers -> Nat]
        /\ runs' \in 1..MaxRuns
    BY <1>2 DEF TypeOK
  <2> QED BY <1>4, <1>7, <1>8, <2>1, <2>2, <2>3 DEF TypeOK
<1>11. Phases'
  BY <1>2, <1>3, <1>4, <1>5 DEF Phases, Claimant
<1>12. Permits'
  BY <1>2, <1>5, PermitShape DEF Permits
<1>13. Ledger'
  <2>1. \A s \in StageNames : s # t => Rank(s) # position
    BY <1>2, Ranks
  <2>2. pc' = "body" => halted'
    BY <1>5
  <2>3. pc' # "new" /\ position' = position
    BY <1>2, <1>5
  <2>4. \A s \in StageNames : s # t =>
           /\ Rank(s) > position' => ~attempts'[s].made
           /\ Rank(s) < position' /\ s \in ModelStages => attempts'[s].settled
           /\ s \in S3Stages => ~attempts'[s].settled
           /\ attempts'[s].hold = (IF attempts'[s].made /\ ~attempts'[s].settled
                                   THEN Reservation(s) ELSE 0)
           /\ ~attempts'[s].made => /\ ~attempts'[s].settled
                                    /\ attempts'[s].charge = NoCharge
    BY <1>7, <2>3 DEF Ledger
  <2>5. Rank(t) = position' /\ position' \in 0..5
    BY <1>2 DEF TypeOK
  <2> QED BY <1>7, <2>1, <2>2, <2>3, <2>4, <2>5 DEF Ledger, n
<1>14. Sends'
  <2>1. \A s \in StageNames : Rank(s) = position => s = t
    BY <1>2, Ranks
  <2> QED BY <1>2, <1>3, <1>5, <1>6, <2>1, PermitShape DEF Sends, Claimant
<1>15. Bills'
  BY <1>2, <1>3, <1>7, Stages DEF Bills, BoundEstablished
<1> QED BY <1>4, <1>8, <1>9, <1>10, <1>11, <1>12, <1>13, <1>14, <1>15

\* The approved send is the first of the stage in turn.
LEMMA SendApprovedStep == ASSUME IInv, SendApproved PROVE IInv'
<1> USE DEF IInv, Control, Accounts
<1> DEFINE t == permit.stage
           q == [Resent EXCEPT !.approved = @ + 1]
<1>1. /\ pc = "sdk" /\ ~halted /\ permit.sends = 0 /\ permit' = q
      /\ sent' = [sent EXCEPT ![t] = @ + 1]
      /\ UNCHANGED <<used, halted, clients, position, sequence, exposure,
                     attempts, unestablished, coverageViolated, extras,
                     extraEvidence, extraKnown, pc, code, claimed, disk,
                     extraSpent, runs>>
  BY DEF SendApproved, FirstSend
<1>2. \/ t \in ModelStages /\ \E c \in Nat : spent' = [spent EXCEPT ![t] = @ + c]
      \/ t \notin ModelStages /\ UNCHANGED spent
  BY CostAssumption DEF SendApproved
<1>3. /\ t \in StageNames /\ Rank(t) = position /\ claimed /\ sequence > 0
      /\ sequence = Len(disk)
  BY <1>1 DEF Permits, Phases, Claimant
<1>4. /\ q \in PermitRecords /\ q.stage = t /\ q.sends = 1 /\ q.approved = 1
      /\ permit.approved = 0
  <2>1. permit \in PermitRecords /\ permit.sends = 0 /\ permit.approved <= 0
    BY <1>1 DEF TypeOK, Permits
  <2>2. permit.approved = 0
    BY <2>1, PermitShape
  <2>3. /\ Resent \in PermitRecords /\ Resent.stage = t /\ Resent.sends = 1
        /\ Resent.approved = 0
    BY <2>1, <2>2, SendCounted DEF Resent
  <2> QED BY <2>2, <2>3, ApprovalCounted
<1>5. sent[t] = 0
  BY <1>1, <1>3, <1>4 DEF Sends, Claimant
<1> HIDE DEF t, q
<1>6. /\ sent' \in [StageNames -> Nat] /\ sent'[t] = 1
      /\ \A s \in StageNames : s # t => sent'[s] = sent[s]
  BY <1>1, <1>3, <1>5 DEF TypeOK
<1>7. /\ spent' \in [ModelStages -> Nat]
      /\ \A s \in ModelStages : s # t => spent'[s] = spent[s]
  <2>1. spent \in [ModelStages -> Nat]
    BY DEF TypeOK
  <2>2. ASSUME t \in ModelStages, NEW c \in Nat, spent' = [spent EXCEPT ![t] = @ + c]
        PROVE  /\ spent' \in [ModelStages -> Nat]
               /\ \A s \in ModelStages : s # t => spent'[s] = spent[s]
    <3>1. spent[t] + c \in Nat
      BY <2>1, <2>2
    <3> QED BY <2>1, <2>2, <3>1
  <2> QED BY <1>2, <2>1, <2>2
<1>8. TypeOK'
  BY <1>1, <1>4, <1>6, <1>7 DEF TypeOK
<1>9. Phases' /\ JournalNumbered'
  BY <1>1 DEF Phases, Claimant, JournalNumbered
<1>10. Permits'
  BY <1>1, <1>3, <1>4 DEF Permits
<1>11. Ledger'
  BY <1>1 DEF Ledger
<1>12. Sends'
  <2>1. \A s \in StageNames : Rank(s) = position => s = t
    BY <1>3, Ranks
  <2>2. permit'.approved = 1 /\ pc' = "sdk" /\ position' = position /\ claimed'
    BY <1>1, <1>3, <1>4
  <2>3. \A s \in StageNames : /\ sent'[s] <= 1
                              /\ Rank(s) < position' => sent'[s] = 1
                              /\ Rank(s) > position' => sent'[s] = 0
                              /\ Rank(s) = position' => sent'[s] = permit'.approved
    BY <1>1, <1>3, <1>6, <2>1, <2>2 DEF Sends, Claimant
  <2> QED BY <1>3, <2>2, <2>3 DEF Sends
<1>13. Bills'
  <2>1. \A s \in ModelStages : s = t =>
           /\ attempts[s].charge = NoCharge /\ ~attempts[s].settled
           /\ attempts[s].made
    BY <1>1, <1>3 DEF Ledger
  <2> QED BY <1>1, <1>3, <1>6, <1>7, <2>1, Stages DEF Bills, BoundEstablished
<1>14. Conservation' /\ CeilingSound'
  BY <1>1 DEF Conservation, CeilingSound, Holds, Known, Hold, Charge,
              BoundEstablished, WithinCaps
<1> QED BY <1>8, <1>9, <1>10, <1>11, <1>12, <1>13, <1>14

\* A rejected response changes nothing but the delivery of its own attempt and
\* what is established: it halts and keeps the reservation held.
LEMMA ReturnRejectedStep == ASSUME IInv, ReturnRejected PROVE IInv'
<1> USE DEF IInv, Control, Accounts
<1>1. PICK noRetry \in BOOLEAN :
          /\ Counted(CountValid(noRetry))
          /\ attempts' = Delivered(CountValid(noRetry))
  BY DEF ReturnRejected
<1>2. /\ pc = "sdk" /\ halted' = TRUE /\ permit' = NoPermit
      /\ \/ pc' = "body" /\ UNCHANGED code
         \/ /\ pc' = "stop"
            /\ code' \in {"PAYLOAD_REJECTED", "UNCERTAIN_PROVIDER_OUTCOME"}
      /\ UNCHANGED <<used, clients, position, sequence, exposure,
                     coverageViolated, extras, extraEvidence, extraKnown,
                     claimed, disk, sent, spent, extraSpent, runs>>
  BY DEF ReturnRejected, InvokeFails, RaiseInBody
<1>3. permit.stage \in StageNames /\ Rank(permit.stage) = position
      /\ CountValid(noRetry) \in BOOLEAN
  BY <1>2 DEF Permits, CountValid
<1>4. /\ attempts' \in [StageNames -> AttemptRecords]
      /\ \A s \in StageNames :
            /\ attempts'[s].made = attempts[s].made
            /\ attempts'[s].hold = attempts[s].hold
            /\ attempts'[s].charge = attempts[s].charge
            /\ attempts'[s].settled = attempts[s].settled
  BY <1>1, <1>3, DeliveredKeeps
<1>5. /\ unestablished' \subseteq StageNames \cup {Unidentified}
      /\ BoundEstablished' => BoundEstablished
  BY <1>1, <1>3 DEF Counted, TypeOK, BoundEstablished
<1>6. TypeOK'
  BY <1>2, <1>4, <1>5, PermitShape DEF TypeOK, Codes
<1>7. Phases' /\ Permits' /\ JournalNumbered'
  BY <1>2 DEF Phases, Permits, Claimant, JournalNumbered
<1>8. Ledger'
  BY <1>2, <1>4 DEF Ledger
<1>9. Sends'
  BY <1>2 DEF Sends, Claimant
<1>10. Bills'
  BY <1>2, <1>4, <1>5, Stages DEF Bills
<1>11. Conservation'
  <2>1. \A s \in StageNames : Hold(s)' = Hold(s) /\ Charge(s)' = Charge(s)
    BY <1>4 DEF Hold, Charge
  <2> QED BY <1>2, <2>1 DEF Conservation, Holds, Known, StageNames
<1>12. CeilingSound'
  BY <1>2, <1>5 DEF CeilingSound, WithinCaps
<1> QED BY <1>6, <1>7, <1>8, <1>9, <1>10, <1>11, <1>12

\* How invoke ends once it has counted its call: the stage is finished, or the
\* policy is halted.
LEMMA Concluded ==
    ASSUME IInv, pc = "sdk", NEW valid \in BOOLEAN, NEW exceeded \in BOOLEAN,
           NEW c \in Verdicts(valid, exceeded), Conclude(c)
    PROVE  /\ permit' = NoPermit /\ pc' \in {"body", "stop"} /\ code' \in Codes
           /\ halted' \in BOOLEAN
           /\ pc' = "stop" => code' # "NONE"
           /\ \/ halted' = TRUE /\ position' = position
              \/ /\ ~halted' /\ ~halted /\ pc' = "body" /\ position' = position + 1
                 /\ valid /\ ~exceeded
<1>1. CASE c = "NONE"
  BY <1>1 DEF Conclude, InvokeFails, RaiseInBody, Verdicts, IInv, Control, TypeOK
<1>2. CASE c # "NONE"
  BY <1>2 DEF Conclude, InvokeFails, RaiseInBody, Verdicts, IInv, Control,
              TypeOK, Codes
<1> QED BY <1>1, <1>2

\* An object read finishes its stage only after exactly one approved send.
LEMMA ReturnObjectStep == ASSUME IInv, ReturnObject PROVE IInv'
<1> USE DEF IInv, Control, Accounts
<1> DEFINE t == permit.stage
<1>1. PICK noRetry \in BOOLEAN :
          /\ Counted(CountValid(noRetry))
          /\ attempts' = Delivered(CountValid(noRetry))
          /\ \E c \in Verdicts(CountValid(noRetry), FALSE) : Conclude(c)
  BY DEF ReturnObject
<1> DEFINE valid == CountValid(noRetry)
<1>2. /\ pc = "sdk" /\ t \in S3Stages
      /\ UNCHANGED <<used, clients, sequence, exposure, coverageViolated, extras,
                     extraEvidence, extraKnown, claimed, disk, sent, spent,
                     extraSpent, runs>>
  BY DEF ReturnObject
<1>3. /\ t \in StageNames /\ Rank(t) = position /\ position < 5
      /\ valid \in BOOLEAN /\ (valid => permit.approved = 1)
      /\ \A s \in StageNames : Rank(s) = position => s = t
  BY <1>2, Ranks DEF Permits, Phases, CountValid
<1>4. /\ attempts' \in [StageNames -> AttemptRecords]
      /\ \A s \in StageNames :
            /\ attempts'[s].made = attempts[s].made
            /\ attempts'[s].hold = attempts[s].hold
            /\ attempts'[s].charge = attempts[s].charge
            /\ attempts'[s].settled = attempts[s].settled
  BY <1>1, <1>3, DeliveredKeeps
<1>5. /\ unestablished' \subseteq StageNames \cup {Unidentified}
      /\ BoundEstablished' => BoundEstablished
      /\ valid => unestablished' = unestablished
  BY <1>1, <1>3 DEF Counted, TypeOK, BoundEstablished
<1>6. /\ permit' = NoPermit /\ pc' \in {"body", "stop"} /\ code' \in Codes
      /\ halted' \in BOOLEAN
      /\ pc' = "stop" => code' # "NONE"
      /\ \/ halted' = TRUE /\ position' = position
         \/ ~halted' /\ ~halted /\ pc' = "body" /\ position' = position + 1 /\ valid
  BY <1>1, <1>2, <1>3, Concluded
<1> HIDE DEF valid, t
<1>7. position' \in 0..5 /\ position \in 0..5
  BY <1>3, <1>6 DEF TypeOK
<1>8. TypeOK'
  BY <1>2, <1>4, <1>5, <1>6, <1>7, PermitShape DEF TypeOK
<1>9. Phases' /\ Permits' /\ JournalNumbered'
  BY <1>2, <1>5, <1>6 DEF Phases, Permits, Claimant, JournalNumbered
<1>10. Ledger'
  <2>1. \A s \in ModelStages : Rank(s) < position' => Rank(s) < position
    BY <1>2, <1>3, <1>6, <1>7, Ranks, Stages
  <2>2. \A s \in StageNames : Rank(s) > position' => Rank(s) > position
    BY <1>6, <1>7, Ranks
  <2>3. \A s \in StageNames :
           Rank(s) = position' /\ pc' = "body" /\ ~halted' => Rank(s) > position
    BY <1>6, <1>7, Ranks
  <2> QED BY <1>4, <1>6, <2>1, <2>2, <2>3 DEF Ledger
<1>11. Sends'
  <2>1. claimed' /\ claimed /\ pc' # "sdk" /\ pc' # "done" /\ UNCHANGED sent
    BY <1>2, <1>6 DEF Phases, Claimant
  <2>2. \A s \in StageNames : Rank(s) < position' => sent[s] = 1
    <3>1. \A s \in StageNames : Rank(s) < position => sent[s] = 1
      BY <1>2 DEF Sends, Claimant
    <3>2. valid => sent[t] = 1
      BY <1>2, <1>3 DEF Sends, Claimant, t
    <3> QED BY <1>3, <1>6, <1>7, <3>1, <3>2, Ranks
  <2>3. \A s \in StageNames : Rank(s) > position' => sent[s] = 0
    BY <1>2, <1>6, <1>7, Ranks DEF Sends, Claimant
  <2>4. \A s \in StageNames :
           Rank(s) = position' /\ pc' = "body" /\ ~halted' => sent[s] = 0
    BY <1>2, <1>6, <1>7, Ranks DEF Sends, Claimant
  <2> QED BY <2>1, <2>2, <2>3, <2>4 DEF Sends
<1>12. Bills'
  BY <1>2, <1>4, <1>5, Stages DEF Bills
<1>13. Conservation'
  <2>1. \A s \in StageNames : Hold(s)' = Hold(s) /\ Charge(s)' = Charge(s)
    BY <1>4 DEF Hold, Charge
  <2> QED BY <1>2, <2>1 DEF Conservation, Holds, Known, StageNames
<1>14. CeilingSound'
  BY <1>2, <1>5 DEF CeilingSound, WithinCaps
<1> QED BY <1>8, <1>9, <1>10, <1>11, <1>12, <1>13, <1>14

\* Settlement trades the hold for the charge, or keeps both and halts.
LEMMA ReturnUsageStep == ASSUME IInv, ReturnUsage PROVE IInv'
<1> USE DEF IInv, Control, Accounts
<1>0. PICK t \in ModelStages : t = permit.stage
  BY DEF ReturnUsage
<1>1. PICK noRetry \in BOOLEAN, overTokens \in BOOLEAN, w \in Writes :
          LET valid == CountValid(noRetry)
              exceeded == overTokens \/ spent[t] > Amount[t]
          IN /\ Counted(valid)
             /\ Settle(t, spent[t], valid, exceeded)
             /\ Journal("usage", t, exceeded, w)
             /\ \/ w.ok /\ \E c \in Verdicts(valid, exceeded) : Conclude(c)
                \/ /\ ~w.ok /\ InvokeFails("EVIDENCE_PUBLICATION_FAILED")
                   /\ UNCHANGED position
  BY <1>0 DEF ReturnUsage
<1>v. PICK valid \in BOOLEAN : valid = CountValid(noRetry)
  BY DEF CountValid
<1>e. PICK exceeded \in BOOLEAN : exceeded = (overTokens \/ spent[t] > Amount[t])
  OBVIOUS
<1>a. PICK actual \in Nat : actual = spent[t]
  BY DEF TypeOK
<1>s. /\ Counted(valid) /\ Settle(t, actual, valid, exceeded)
      /\ Journal("usage", t, exceeded, w)
      /\ \/ \E c \in Verdicts(valid, exceeded) : Conclude(c)
         \/ InvokeFails("EVIDENCE_PUBLICATION_FAILED") /\ UNCHANGED position
  BY <1>1, <1>v, <1>e, <1>a
<1>2. /\ pc = "sdk" /\ t \in ModelStages
      /\ UNCHANGED <<used, clients, extras, extraEvidence, extraKnown, claimed,
                     sent, spent, extraSpent, runs>>
  BY DEF ReturnUsage
<1>3. /\ t \in StageNames /\ Rank(t) = position /\ position < 5
      /\ valid \in BOOLEAN /\ (valid => permit.approved = 1)
      /\ \A s \in StageNames : Rank(s) = position => s = t
      /\ claimed /\ sequence = Len(disk) /\ sequence > 0
  BY <1>0, <1>v, <1>2, Ranks DEF Permits, Phases, Claimant, CountValid
<1>4. Amount[t] \in Nat
  BY Stages
<1>5. /\ attempts' \in [StageNames -> AttemptRecords]
      /\ attempts'[t].charge = actual /\ attempts'[t].settled = valid
      /\ attempts'[t].hold = (IF valid THEN 0 ELSE Amount[t])
      /\ attempts'[t].made = attempts[t].made
      /\ \A s \in StageNames : s # t => attempts'[s] = attempts[s]
  BY <1>0, <1>s, SettleShape
<1>6. /\ exposure' = [exposure EXCEPT ![ProviderOf(t)] =
                         IF valid THEN @ + actual - Amount[t] ELSE @ + actual]
      /\ coverageViolated' = (coverageViolated \/ exceeded)
  BY <1>s DEF Settle
<1>7. /\ unestablished' \subseteq StageNames \cup {Unidentified}
      /\ BoundEstablished' => BoundEstablished /\ valid
      /\ valid => unestablished' = unestablished
  BY <1>0, <1>s, <1>3 DEF Counted, TypeOK, BoundEstablished
<1>8. /\ sequence' \in Nat /\ sequence' > 0 /\ sequence' = Len(disk')
      /\ disk' \in Seq(JournalRecords) /\ JournalNumbered'
  BY <1>s, <1>3, JournalWrites DEF Kinds
<1>9. /\ permit' = NoPermit /\ pc' \in {"body", "stop"} /\ code' \in Codes
      /\ halted' \in BOOLEAN
      /\ pc' = "stop" => code' # "NONE"
      /\ \/ halted' = TRUE /\ position' = position
         \/ /\ ~halted' /\ ~halted /\ pc' = "body" /\ position' = position + 1
            /\ valid /\ ~exceeded
  <2>1. CASE \E c \in Verdicts(valid, exceeded) : Conclude(c)
    BY <1>2, <2>1, Concluded
  <2>2. CASE InvokeFails("EVIDENCE_PUBLICATION_FAILED") /\ UNCHANGED position
    BY <2>2 DEF InvokeFails, RaiseInBody, TypeOK, Codes
  <2> QED BY <1>s, <2>1, <2>2
<1>10. /\ attempts[t].made /\ ~attempts[t].settled
       /\ attempts[t].charge = NoCharge /\ attempts[t].hold = Amount[t]
  BY <1>2, <1>3 DEF Ledger, Reservation, ModelStages, S3Stages
<1>d. PICK d \in Int : d = IF valid THEN actual - Amount[t] ELSE actual
  BY <1>4
<1>11. exposure' = [exposure EXCEPT ![ProviderOf(t)] = @ + d]
  <2>1. exposure[ProviderOf(t)] \in Nat
    BY <1>3, Stages DEF TypeOK
  <2>2. (IF valid THEN exposure[ProviderOf(t)] + actual - Amount[t]
                  ELSE exposure[ProviderOf(t)] + actual)
           = exposure[ProviderOf(t)] + d
    BY <1>d, <1>4, <2>1
  <2> QED BY <1>6, <2>2
<1>12. Conservation' /\ exposure' \in [Providers -> Nat]
  <2>1. Hold(t) = Amount[t] /\ Charge(t) = 0
    BY <1>10 DEF Hold, Charge
  <2>2. Charge(t)' = actual /\ Hold(t)' = IF valid THEN 0 ELSE Amount[t]
    BY <1>5, AttemptShape DEF Hold, Charge
  <2>3. Hold(t)' + Charge(t)' = Hold(t) + Charge(t) + d
    BY <1>4, <1>d, <2>1, <2>2
  <2> QED BY <1>2, <1>5, <1>11, <2>3, Balance
<1>13. position' \in 0..5 /\ position \in 0..5
  BY <1>3, <1>9 DEF TypeOK
<1>14. TypeOK'
  <2>1. coverageViolated' \in BOOLEAN
    BY <1>4, <1>6 DEF TypeOK
  <2> QED BY <1>2, <1>5, <1>7, <1>8, <1>9, <1>12, <1>13, <2>1, PermitShape DEF TypeOK
<1>15. Phases' /\ Permits'
  <2>1. ~halted' => ~coverageViolated'
    BY <1>6, <1>9 DEF Phases
  <2> QED BY <1>2, <1>3, <1>7, <1>8, <1>9, <2>1 DEF Phases, Permits, Claimant
<1>16. Ledger'
  <2>1. /\ attempts'[t].made /\ (position' # position => attempts'[t].settled)
        /\ Reservation(t) = Amount[t] /\ t \notin S3Stages
    BY <1>2, <1>5, <1>9, <1>10 DEF Reservation, ModelStages, S3Stages
  <2>2. \A s \in StageNames : s # t =>
           /\ Rank(s) > position' => Rank(s) > position
           /\ Rank(s) < position' => Rank(s) < position
           /\ Rank(s) = position' /\ pc' = "body" /\ ~halted' => Rank(s) > position
    BY <1>3, <1>9, <1>13, Ranks
  <2>3. pc' # "sdk" /\ pc' # "new"
    BY <1>9
  <2>4. /\ ~(Rank(t) > position')
        /\ Rank(t) = position' => halted'
        /\ Rank(t) < position' => position' # position
    BY <1>3, <1>9, <1>13
  <2>5. ASSUME NEW s \in StageNames, s # t
        PROVE  /\ Rank(s) > position' => ~attempts'[s].made
               /\ Rank(s) = position' /\ pc' = "body" /\ ~halted' => ~attempts'[s].made
               /\ Rank(s) < position' /\ s \in ModelStages => attempts'[s].settled
               /\ s \in S3Stages => ~attempts'[s].settled
               /\ attempts'[s].hold = (IF attempts'[s].made /\ ~attempts'[s].settled
                                       THEN Reservation(s) ELSE 0)
               /\ ~attempts'[s].made => /\ ~attempts'[s].settled
                                        /\ attempts'[s].charge = NoCharge
    BY <1>5, <2>2, <2>5 DEF Ledger
  <2> QED BY <1>5, <2>1, <2>3, <2>4, <2>5 DEF Ledger
<1>17. Sends'
  <2>1. claimed' /\ claimed /\ pc' # "sdk" /\ pc' # "done" /\ UNCHANGED sent
    BY <1>2, <1>3, <1>9
  <2>2. \A s \in StageNames : Rank(s) < position' => sent[s] = 1
    <3>1. \A s \in StageNames : Rank(s) < position => sent[s] = 1
      BY <1>2 DEF Sends, Claimant
    <3>2. valid => sent[t] = 1
      BY <1>0, <1>2, <1>3 DEF Sends, Claimant
    <3> QED BY <1>3, <1>9, <1>13, <3>1, <3>2, Ranks
  <2>3. \A s \in StageNames : Rank(s) > position' => sent[s] = 0
    BY <1>2, <1>9, <1>13, Ranks DEF Sends, Claimant
  <2>4. \A s \in StageNames :
           Rank(s) = position' /\ pc' = "body" /\ ~halted' => sent[s] = 0
    BY <1>2, <1>9, <1>13, Ranks DEF Sends, Claimant
  <2> QED BY <2>1, <2>2, <2>3, <2>4 DEF Sends
<1>18. Bills'
  <2>1. valid => sent[t] = 1
    BY <1>0, <1>2, <1>3 DEF Sends, Claimant
  <2>2. attempts'[t].charge = spent[t] /\ attempts'[t].charge # NoCharge
    BY <1>a, <1>5, AttemptShape
  <2> QED BY <1>2, <1>3, <1>5, <1>7, <2>1, <2>2, Stages DEF Bills
<1>19. CeilingSound'
  <2> SUFFICES ASSUME BoundEstablished', ~coverageViolated'
               PROVE  WithinCaps(exposure')
    BY DEF CeilingSound
  <2>1. valid /\ ~exceeded /\ ~coverageViolated /\ BoundEstablished
    BY <1>6, <1>7
  <2>2. WithinCaps(exposure)
    BY <2>1 DEF CeilingSound
  <2>3. d <= 0
    <3>1. ~(spent[t] > Amount[t]) /\ valid
      BY <1>e, <2>1
    <3>2. d = actual - Amount[t]
      BY <1>d, <3>1
    <3> QED BY <1>4, <1>a, <3>1, <3>2
  <2>4. \A p \in Providers : exposure[p] \in Nat /\ exposure'[p] \in Nat
    BY <1>12 DEF TypeOK
  <2>5. \A p \in Providers :
           exposure'[p] = IF p = ProviderOf(t) THEN exposure[p] + d ELSE exposure[p]
    BY <1>11 DEF TypeOK
  <2>6. \A p \in Providers : exposure'[p] <= exposure[p]
    BY <1>11, <2>3, <2>4, <2>5
  <2>7. /\ Caps["haiku"] \in Nat /\ Caps["titan"] \in Nat /\ Caps["total"] \in Nat
    BY CapsAssumption
  <2> QED BY <2>2, <2>4, <2>6, <2>7 DEF WithinCaps, Providers
<1> QED BY <1>8, <1>12, <1>14, <1>15, <1>16, <1>17, <1>18, <1>19

\* An unidentified request ends the claim that the bound is established.
LEMMA RecordUnidentifiedStep == ASSUME IInv, RecordUnidentified PROVE IInv'
<1> USE DEF IInv, Control, Accounts
<1>1. /\ pc \in {"body", "sdk"}
      /\ unestablished' = unestablished \cup {Unidentified}
      /\ UNCHANGED <<used, clients, position, sequence, exposure, attempts,
                     coverageViolated, extras, extraEvidence, extraKnown,
                     claimed, disk, sent, spent, runs>>
  BY DEF RecordUnidentified
<1>2. extraSpent' \in [Providers -> Nat]
  <2>1. PICK p \in Providers, c \in Nat :
           extraSpent' = [extraSpent EXCEPT ![p] = @ + c]
    BY CostAssumption DEF RecordUnidentified
  <2>2. extraSpent \in [Providers -> Nat] /\ extraSpent[p] + c \in Nat
    BY DEF TypeOK
  <2> QED BY <2>1, <2>2
<1>3. /\ halted' = TRUE
      /\ \/ UNCHANGED <<permit, pc, code>>
         \/ /\ permit' \in {permit, NoPermit}
            /\ \/ pc' = "body" /\ UNCHANGED code
               \/ pc' = "stop" /\ code' = "EXTRA_EVIDENCE_INVALID"
  BY DEF RecordUnidentified, RaiseToObserver, RaiseInSdk, InvokeFails, RaiseInBody
<1>4. claimed
  BY <1>1 DEF Phases, Claimant
<1>5. ~BoundEstablished'
  BY <1>1 DEF BoundEstablished
<1>6. TypeOK'
  <2>1. unestablished' \subseteq StageNames \cup {Unidentified}
    BY <1>1 DEF TypeOK
  <2> QED BY <1>1, <1>2, <1>3, <2>1, PermitShape DEF TypeOK, Codes
<1>7. Phases' /\ Permits' /\ JournalNumbered'
  BY <1>1, <1>3 DEF Phases, Permits, Claimant, JournalNumbered
<1>8. Ledger'
  BY <1>1, <1>3 DEF Ledger
<1>9. Sends'
  BY <1>1, <1>3 DEF Sends, Claimant
<1>10. Bills'
  BY <1>1, <1>4, <1>5 DEF Bills
<1>11. Conservation' /\ CeilingSound'
  BY <1>1, <1>5 DEF Conservation, CeilingSound, Holds, Known, Hold, Charge
<1> QED BY <1>6, <1>7, <1>8, <1>9, <1>10, <1>11

\* An identified request adds its charge to exposure and to the known charges.
LEMMA RecordExtraStep ==
    ASSUME IInv, NEW e \in Evidence, NEW s \in ModelStages,
           NEW delivery \in {"YES", "UNKNOWN"}, NEW priced \in BOOLEAN,
           RecordExtra(e, s, delivery, priced)
    PROVE  IInv'
<1> USE DEF IInv, Control, Accounts
<1> DEFINE p == ProviderOf(s)
<1>1. PICK c \in ExtraCost, w \in Writes :
          /\ extraSpent' = [extraSpent EXCEPT ![p] = @ + c]
          /\ extras' = Append(extras, [stage |-> s, delivery |-> delivery,
                                charge |-> IF priced THEN c ELSE NoCharge])
          /\ exposure' = [exposure EXCEPT ![p] = @ + IF priced THEN c ELSE 0]
          /\ extraKnown' = [extraKnown EXCEPT ![p] = @ + IF priced THEN c ELSE 0]
          /\ coverageViolated' = (coverageViolated \/ (priced /\ c > 0))
          /\ unestablished' = unestablished \cup
                {t \in {s} : ~priced \/ delivery = "UNKNOWN"}
          /\ Journal("extra-request", s, FALSE, w)
          /\ IF w.ok THEN halted' = TRUE /\ UNCHANGED <<permit, pc, code>>
             ELSE RaiseToObserver("EVIDENCE_PUBLICATION_FAILED")
  BY DEF RecordExtra, Unauthorized, Unbounded
<1>2. /\ pc \in {"body", "sdk"}
      /\ extraEvidence' = extraEvidence \cup {e}
      /\ UNCHANGED <<used, clients, position, attempts, claimed, sent, spent, runs>>
  BY DEF RecordExtra
<1> DEFINE x == IF priced THEN c ELSE 0
<1>3. c \in Nat /\ x \in Nat /\ p \in Providers /\ s \in StageNames
  BY CostAssumption, Stages
<1> HIDE DEF p
<1>4. claimed /\ sequence = Len(disk) /\ sequence > 0
  BY <1>2 DEF Phases, Claimant
<1>5. /\ sequence' \in Nat /\ sequence' > 0 /\ sequence' = Len(disk')
      /\ disk' \in Seq(JournalRecords) /\ JournalNumbered'
  BY <1>1, <1>3, <1>4, JournalWrites DEF Kinds
<1>6. /\ halted' = TRUE
      /\ \/ UNCHANGED <<permit, pc, code>>
         \/ /\ permit' \in {permit, NoPermit}
            /\ \/ pc' = "body" /\ UNCHANGED code
               \/ pc' = "stop" /\ code' = "EVIDENCE_PUBLICATION_FAILED"
  BY <1>1 DEF RaiseToObserver, RaiseInSdk, InvokeFails, RaiseInBody
<1>7. extras' \in Seq(ExtraRecords)
  <2>1. [stage |-> s, delivery |-> delivery,
         charge |-> IF priced THEN c ELSE NoCharge] \in ExtraRecords
    BY <1>3 DEF ExtraRecords
  <2> HIDE DEF ExtraRecords
  <2> QED BY <1>1, <2>1 DEF TypeOK
<1>8. /\ \A q \in Providers : /\ exposure[q] \in Nat /\ extraKnown[q] \in Nat
                              /\ extraSpent[q] \in Nat
      /\ \A q \in Providers :
            /\ exposure'[q] = exposure[q] + (IF q = p THEN x ELSE 0)
            /\ extraKnown'[q] = extraKnown[q] + (IF q = p THEN x ELSE 0)
            /\ extraSpent'[q] = extraSpent[q] + (IF q = p THEN c ELSE 0)
      /\ DOMAIN exposure' = Providers /\ DOMAIN extraKnown' = Providers
      /\ DOMAIN extraSpent' = Providers
  <2> HIDE DEF x
  <2>1. /\ exposure' = [exposure EXCEPT ![p] = @ + x]
        /\ extraKnown' = [extraKnown EXCEPT ![p] = @ + x]
        /\ extraSpent' = [extraSpent EXCEPT ![p] = @ + c]
    BY <1>1 DEF x
  <2>2. /\ exposure \in [Providers -> Nat] /\ extraKnown \in [Providers -> Nat]
        /\ extraSpent \in [Providers -> Nat]
    BY DEF TypeOK
  <2> QED BY <1>3, <2>1, <2>2
<1>9. /\ exposure' \in [Providers -> Nat] /\ extraKnown' \in [Providers -> Nat]
      /\ extraSpent' \in [Providers -> Nat]
  <2>1. \A f : DOMAIN f = Providers /\ (\A q \in Providers : f[q] \in Nat)
               /\ f = [q \in DOMAIN f |-> f[q]] => f \in [Providers -> Nat]
    OBVIOUS
  <2>2. /\ exposure' = [q \in DOMAIN exposure' |-> exposure'[q]]
        /\ extraKnown' = [q \in DOMAIN extraKnown' |-> extraKnown'[q]]
        /\ extraSpent' = [q \in DOMAIN extraSpent' |-> extraSpent'[q]]
    BY <1>1 DEF TypeOK
  <2>3. \A q \in Providers : /\ exposure'[q] \in Nat /\ extraKnown'[q] \in Nat
                             /\ extraSpent'[q] \in Nat
    BY <1>3, <1>8
  <2> QED BY <1>8, <2>1, <2>2, <2>3
<1>10. TypeOK'
  <2>1. /\ unestablished' \subseteq StageNames \cup {Unidentified}
        /\ extraEvidence' \subseteq Evidence /\ coverageViolated' \in BOOLEAN
    BY <1>1, <1>2, <1>3 DEF TypeOK
  <2> QED BY <1>2, <1>5, <1>6, <1>7, <1>9, <2>1, PermitShape DEF TypeOK, Codes
<1>11. Phases' /\ Permits'
  BY <1>2, <1>4, <1>5, <1>6 DEF Phases, Permits, Claimant
<1>12. Ledger'
  BY <1>2, <1>6 DEF Ledger
<1>13. Sends'
  BY <1>2, <1>4, <1>6 DEF Sends, Claimant
<1>14. BoundEstablished' => BoundEstablished /\ priced
  BY <1>1 DEF BoundEstablished
<1>15. Bills'
  <2>1. BoundEstablished' => \A q \in Providers : extraSpent'[q] <= extraKnown'[q]
    BY <1>3, <1>4, <1>8, <1>14 DEF Bills
  <2> QED BY <1>2, <1>4, <2>1 DEF Bills
<1>16. Conservation'
  <2>1. \A q \in Providers : exposure[q] = Holds(q) + Known(q)
    BY DEF Conservation
  <2>2. \A t \in StageNames : /\ Hold(t)' = Hold(t) /\ Charge(t)' = Charge(t)
                              /\ Hold(t) \in Nat /\ Charge(t) \in Nat
    BY <1>2, AttemptShape DEF Hold, Charge, TypeOK
  <2>3. \A q \in Providers : Holds(q)' = Holds(q) /\ Holds(q) \in Nat
    BY <2>2 DEF Holds, StageNames
  <2>4. \A q \in Providers :
           Known(q) \in Nat /\ Known(q)' = Known(q) + (extraKnown'[q] - extraKnown[q])
    BY <1>8, <1>9, <2>2 DEF Known, StageNames
  <2> HIDE DEF x
  <2> QED BY <1>3, <1>8, <2>1, <2>3, <2>4 DEF Conservation
<1>17. CeilingSound'
  <2> SUFFICES ASSUME BoundEstablished', ~coverageViolated'
               PROVE  WithinCaps(exposure')
    BY DEF CeilingSound
  <2>1. priced /\ c = 0 /\ BoundEstablished /\ ~coverageViolated
    <3>1. priced /\ BoundEstablished
      BY <1>14
    <3>2. ~coverageViolated /\ ~(priced /\ c > 0)
      BY <1>1
    <3> QED BY <1>3, <3>1, <3>2
  <2>2. WithinCaps(exposure) /\ \A q \in Providers : exposure'[q] = exposure[q]
    BY <1>8, <2>1 DEF CeilingSound
  <2> QED BY <2>2 DEF WithinCaps, Providers
<1> QED BY <1>5, <1>10, <1>11, <1>12, <1>13, <1>15, <1>16, <1>17

-----------------------------------------------------------------------------
(* The inductive invariant, and what follows from it *)

\* The initial state satisfies the inductive invariant.
LEMMA InitIInv == Init => IInv
<1> SUFFICES ASSUME Init PROVE IInv
  OBVIOUS
<1> USE DEF Init, FreshObject
<1>1. \A s \in StageNames :
         /\ attempts[s] \in AttemptRecords
         /\ ~attempts[s].made /\ ~attempts[s].settled
         /\ attempts[s].hold = 0 /\ attempts[s].charge = NoCharge
  BY AttemptShape
<1>2. TypeOK
  <2>1. attempts \in [StageNames -> AttemptRecords] /\ permit \in PermitRecords
    BY AttemptShape, PermitShape
  <2>2. exposure \in [Providers -> Nat] /\ extraKnown \in [Providers -> Nat]
        /\ sent \in [StageNames -> Nat] /\ spent \in [ModelStages -> Nat]
        /\ extraSpent \in [Providers -> Nat]
    OBVIOUS
  <2>3. extras \in Seq(ExtraRecords) /\ disk \in Seq(JournalRecords)
    OBVIOUS
  <2>4. pc \in {"new", "body", "sdk", "stop", "done", "dead"} /\ code \in Codes
    BY DEF Codes
  <2>5. position \in 0..5 /\ sequence \in Nat /\ runs \in 1..MaxRuns
    BY MaxRunsAssumption
  <2>6. /\ used \in BOOLEAN /\ halted \in BOOLEAN /\ coverageViolated \in BOOLEAN
        /\ claimed \in BOOLEAN
    OBVIOUS
  <2>7. clients = {} /\ unestablished = {} /\ extraEvidence = {}
    OBVIOUS
  <2> HIDE DEF Init, FreshObject
  <2> QED BY <2>1, <2>2, <2>3, <2>4, <2>5, <2>6, <2>7 DEF TypeOK
<1>3. Phases /\ Permits /\ JournalNumbered
  BY DEF Phases, Permits, JournalNumbered, Claimant
<1>4. Ledger
  BY <1>1, Ranks DEF Ledger
<1>5. Sends
  BY DEF Sends, Claimant
<1>6. Bills
  BY DEF Bills
<1>7. Conservation
  <2>1. \A s \in StageNames : Hold(s) = 0 /\ Charge(s) = 0
    BY <1>1 DEF Hold, Charge
  <2> QED BY <2>1 DEF Conservation, Holds, Known, StageNames
<1>8. CeilingSound
  BY CapsAssumption DEF CeilingSound, WithinCaps, Providers
<1> QED BY <1>2, <1>3, <1>4, <1>5, <1>6, <1>7, <1>8 DEF IInv, Control, Accounts

\* Every step of the program, and every stutter, preserves it.
LEMMA NextIInv == IInv /\ [Next]_vars => IInv'
<1> SUFFICES ASSUME IInv, [Next]_vars PROVE IInv'
  OBVIOUS
<1>1. CASE Prepare
  BY <1>1, BindClientsStep, ActivateRefusedStep, ActivateStopsStep,
     ActivateClaimsStep, QuietKeepsAccounts DEF Prepare, IInv
<1>2. CASE Invoke
  BY <1>2, InvokeRefusedStep, InvokeBeginsStep, QuietKeepsAccounts DEF Invoke, IInv
<1>3. CASE Hooks
  BY <1>3, ParametersHookStep, SendRefusedStep, SendBlockedStep,
     SendMisdirectedStep, SendApprovedStep, QuietKeepsAccounts DEF Hooks, IInv
<1>4. CASE Return
  BY <1>4, CallRaisesStep, ReturnRejectedStep, ReturnObjectStep, ReturnUsageStep,
     QuietKeepsAccounts DEF Return, IInv
<1>5. CASE Observe
  BY <1>5, RecordUnidentifiedStep, RecordExtraStep DEF Observe
<1>6. CASE Finish
  BY <1>6, BodyRaisesStep, BodyReturnsStep, StopStep, QuietKeepsAccounts
     DEF Finish, IInv
<1>7. CASE Die \/ Restart
  BY <1>7, DieStep, RestartStep
<1>8. CASE UNCHANGED vars
  <2> USE <1>8 DEF vars, object, IInv, Control
  <2>1. Quiet
    BY DEF Quiet, Phases, Claimant
  <2>2. TypeOK'
    BY DEF TypeOK
  <2>3. Phases' /\ Permits' /\ JournalNumbered'
    BY DEF Phases, Permits, JournalNumbered, Claimant
  <2> QED BY <2>1, <2>2, <2>3, QuietKeepsAccounts
<1> QED BY <1>1, <1>2, <1>3, <1>4, <1>5, <1>6, <1>7, <1>8 DEF Next, Run

\* The inductive invariant holds in every reachable state.
THEOREM Inductive == Spec => []IInv
BY InitIInv, NextIInv, PTL DEF Spec

\* Type correctness.
THEOREM TypeCorrect == Spec => []TypeOK
<1>1. IInv => TypeOK
  BY DEF IInv, Control
<1> QED BY <1>1, Inductive, PTL

\* The journal of a claim directory is numbered without gaps, whatever writes
\* fail and however often the process dies.
THEOREM JournalIsNumbered == Spec => []JournalNumbered
<1>1. IInv => JournalNumbered
  BY DEF IInv, Control
<1> QED BY <1>1, Inductive, PTL

\* The exposure that gates reservations is what accounting() reports, for
\* every table of reservations, costs and observations.
THEOREM ExposureIsConserved == Spec => []Conservation
<1>1. IInv => Conservation
  BY DEF IInv, Accounts
<1> QED BY <1>1, Inductive, PTL

\* An established bound that was not violated is within every ceiling.
THEOREM CeilingIsSound == Spec => []CeilingSound
<1>1. IInv => CeilingSound
  BY DEF IInv, Accounts
<1> QED BY <1>1, Inductive, PTL

\* A settled attempt left exactly once and is charged what it was billed.
THEOREM SettledAttemptsAreBilled == Spec => []SettledIsBilled
<1>1. IInv => SettledIsBilled
  <2> SUFFICES ASSUME IInv, sequence > 0, NEW s \in ModelStages, attempts[s].settled
               PROVE  sent[s] = 1 /\ attempts[s].charge = spent[s]
    BY DEF SettledIsBilled
  <2> QED BY DEF IInv, Accounts, Bills
<1> QED BY <1>1, Inductive, PTL

\* The real bill never exceeds an exposure the policy calls established, as
\* long as no unanswered request cost more than its pinned reservation.
THEOREM SpendIsCovered == Spec => []SpendCovered
<1>1. IInv => SpendCovered
  <2> SUFFICES ASSUME IInv, sequence > 0, BoundEstablished, PriceBoundHeld
               PROVE  \A p \in Providers : Spend(p) <= exposure[p]
    BY DEF SpendCovered
  <2> USE DEF IInv, Control, Accounts
  <2>1. \A s \in ModelStages : /\ spent[s] \in Nat /\ Hold(s) \in Nat
                               /\ Charge(s) \in Nat
                               /\ spent[s] <= Hold(s) + Charge(s)
    <3> SUFFICES ASSUME NEW s \in ModelStages
                 PROVE  /\ spent[s] \in Nat /\ Hold(s) \in Nat /\ Charge(s) \in Nat
                        /\ spent[s] <= Hold(s) + Charge(s)
      OBVIOUS
    <3>1. /\ s \in StageNames /\ spent[s] \in Nat /\ Hold(s) \in Nat
          /\ Charge(s) \in Nat /\ Reservation(s) = Amount[s]
      BY AttemptShape, Stages DEF TypeOK, Hold, Charge, Reservation
    <3>2. CASE attempts[s].charge # NoCharge
      BY <3>1, <3>2 DEF Bills, Charge
    <3>3. CASE attempts[s].charge = NoCharge /\ attempts[s].made
      <4>1. Hold(s) = Amount[s] /\ spent[s] <= Amount[s]
        BY <3>1, <3>3 DEF Bills, Ledger, Hold, PriceBoundHeld
      <4> QED BY <3>1, <4>1
    <3>4. CASE attempts[s].charge = NoCharge /\ ~attempts[s].made
      <4>1. spent[s] = 0
        BY <3>4 DEF Bills
      <4> QED BY <3>1, <4>1
    <3> QED BY <3>1, <3>2, <3>3, <3>4
  <2>2. \A p \in Providers : /\ extraSpent[p] \in Nat /\ extraKnown[p] \in Nat
                             /\ extraSpent[p] <= extraKnown[p]
                             /\ exposure[p] = Holds(p) + Known(p)
    BY DEF TypeOK, Bills, Conservation
  <2>3. Spend("titan") <= exposure["titan"]
    BY <2>1, <2>2 DEF Spend, Holds, Known, Providers, ModelStages
  <2>4. Spend("haiku") <= exposure["haiku"]
    BY <2>1, <2>2 DEF Spend, Holds, Known, Providers, ModelStages
  <2> QED BY <2>3, <2>4 DEF Providers
<1> QED BY <1>1, Inductive, PTL

\* A completed run sent every stage once, settled everything and is within
\* its ceilings.
THEOREM CompletionIsClean == Spec => []CompleteIsClean
<1>1. IInv => CompleteIsClean
  <2> SUFFICES ASSUME IInv, pc = "done", code = "NONE"
               PROVE  /\ \A s \in StageNames : sent[s] = 1
                      /\ \A s \in ModelStages : attempts[s].settled
                      /\ \A p \in Providers : Holds(p) = 0
                      /\ extras = <<>> /\ CeilingEstablished
    BY DEF CompleteIsClean
  <2> USE DEF IInv, Control, Accounts
  <2>1. \A s \in StageNames : sent[s] = 1
    BY DEF Sends
  <2>2. /\ position = 5 /\ unestablished = {} /\ ~coverageViolated /\ extras = <<>>
    BY DEF Phases
  <2>3. \A s \in ModelStages : attempts[s].settled /\ Hold(s) = 0
    BY <2>2, Ranks, Stages DEF Ledger, Hold
  <2>4. \A p \in Providers : Holds(p) = 0
    BY <2>3 DEF Holds, ModelStages
  <2>5. CeilingEstablished
    BY <2>2 DEF CeilingEstablished, CeilingSound, BoundEstablished
  <2> QED BY <2>1, <2>2, <2>3, <2>4, <2>5
<1> QED BY <1>1, Inductive, PTL
-----------------------------------------------------------------------------
(* The run implements the one-shot chain *)

\* A step that sends nothing and cannot take the run back from its end.
Silent == /\ UNCHANGED sent
          /\ claimed => claimed'
          /\ claimed /\ Claimant' => Claimant

\* Only an approved send moves sent; no step but the claim makes a claimant.
LEMMA SilentSteps ==
    ASSUME IInv, [Next]_vars, ~SendApproved
    PROVE  Silent
<1> USE DEF Silent, Claimant
<1>1. CASE Prepare
  BY <1>1 DEF Prepare, BindClients, ActivateRefused, ActivateStops, ActivateClaims, Creatable,
              Journal, object
<1>2. CASE Invoke
  BY <1>2 DEF Invoke, InvokeRefused, InvokeBegins, Journal
<1>3. CASE Hooks
  <2>1. pc = "sdk" /\ sent' = sent /\ claimed' = claimed
    BY <1>3, ~SendApproved
       DEF Hooks, ParametersHook, SendRefused, SendBlocked, SendMisdirected
  <2> QED BY <2>1
<1>4. CASE Return
  <2>1. pc = "sdk" /\ sent' = sent /\ claimed' = claimed
    <3>1. CallRaises => pc = "sdk" /\ sent' = sent /\ claimed' = claimed
      BY DEF CallRaises
    <3>2. ReturnRejected => pc = "sdk" /\ sent' = sent /\ claimed' = claimed
      BY DEF ReturnRejected
    <3>3. ReturnObject => pc = "sdk" /\ sent' = sent /\ claimed' = claimed
      BY DEF ReturnObject
    <3>4. ReturnUsage => pc = "sdk" /\ sent' = sent /\ claimed' = claimed
      BY DEF ReturnUsage
    <3> QED BY <1>4, <3>1, <3>2, <3>3, <3>4 DEF Return
  <2> QED BY <2>1
<1>5. CASE Observe
  BY <1>5 DEF Observe, RecordUnidentified, RecordExtra, Journal
<1>6. CASE Finish
  BY <1>6 DEF Finish, BodyRaises, BodyReturns, Stop, Journal
<1>7. CASE Die \/ Restart
  BY <1>7 DEF Die, Restart
<1>8. CASE UNCHANGED vars
  BY <1>8 DEF vars
<1> QED BY <1>1, <1>2, <1>3, <1>4, <1>5, <1>6, <1>7, <1>8 DEF Next, Run

\* Every step is a delivery, the end of the run, or a stutter of the chain.
LEMMA ChainStep ==
    ASSUME IInv, [Next]_vars
    PROVE  [Chain!Next]_<<sent, claimed /\ ~Claimant>>
<1> USE DEF IInv, Control, Accounts
<1>1. CASE SendApproved
  <2>1. PICK t \in StageNames : t = permit.stage
    BY <1>1 DEF SendApproved, Permits
  <2>2. pc = "sdk" /\ ~halted /\ permit.sends = 0 /\ UNCHANGED <<pc, claimed>>
    BY <1>1 DEF SendApproved, FirstSend
  <2>3. claimed /\ Claimant /\ Claimant'
    BY <2>2 DEF Phases, Claimant
  <2>4. permit.approved = 0
    <3>1. permit.approved <= 0 /\ permit \in PermitRecords
      BY <2>2 DEF Permits, TypeOK
    <3> QED BY <3>1, PermitShape
  <2>5. sent[t] = 0 /\ Rank(t) = position
    BY <2>1, <2>2, <2>3, <2>4 DEF Sends, Permits
  <2>6. sent' = [sent EXCEPT ![t] = 1]
    <3>1. sent' = [sent EXCEPT ![t] = @ + 1]
      BY <1>1, <2>1 DEF SendApproved
    <3> QED BY <2>5, <3>1
  <2>7. \A s \in StageNames :
           [u \in StageNames |-> Rank(u)][s] < [u \in StageNames |-> Rank(u)][t]
              => sent[s] = 1
    BY <2>3, <2>5 DEF Sends
  <2>8. Chain!Deliver(t)
    BY <2>2, <2>3, <2>5, <2>6, <2>7 DEF Chain!Deliver
  <2> QED BY <2>8 DEF Chain!Next
<1>2. CASE ~SendApproved
  <2>1. Silent
    BY <1>2, SilentSteps
  <2>2. CASE claimed /\ ~Claimant
    <3>1. claimed' /\ ~Claimant'
      BY <2>1, <2>2 DEF Silent
    <3>2. UNCHANGED <<sent, claimed /\ ~Claimant>>
      BY <2>1, <2>2, <3>1 DEF Silent
    <3> QED BY <3>2
  <2>3. CASE ~(claimed /\ ~Claimant) /\ (claimed /\ ~Claimant)'
    <3>1. Chain!End
      BY <2>1, <2>3 DEF Chain!End, Silent
    <3> QED BY <3>1 DEF Chain!Next
  <2>4. CASE ~(claimed /\ ~Claimant) /\ ~(claimed /\ ~Claimant)'
    <3>1. UNCHANGED <<sent, claimed /\ ~Claimant>>
      BY <2>1, <2>4 DEF Silent
    <3> QED BY <3>1
  <2> QED BY <2>2, <2>3, <2>4
<1> QED BY <1>1, <1>2

\* Over all the processes ever started on one claim directory, every stage's
\* request leaves at most once and in order, and none leaves after the process
\* that made the claim has left activate.
THEOREM ChainIsOneShot == Spec => ImplementsChain
<1>1. Init => Chain!Init
  <2> SUFFICES ASSUME Init PROVE Chain!Init
    OBVIOUS
  <2>1. sent = [s \in StageNames |-> 0] /\ (claimed /\ ~Claimant) = FALSE
    BY DEF Init
  <2> QED BY <2>1 DEF Chain!Init
<1>2. IInv /\ [Next]_vars => [Chain!Next]_<<sent, claimed /\ ~Claimant>>
  BY ChainStep
<1> QED BY <1>1, <1>2, Inductive, PTL DEF Spec, ImplementsChain, Chain!Spec
-----------------------------------------------------------------------------
(* Every request that may have been billed is recorded *)

\* What the process relies on before it sends: the record of the attempt in
\* flight, and the usage of every model stage it has passed.
Recorded ==
    /\ pc = "sdk" => OnDisk("attempt", permit.stage)
    /\ Claimant => \A s \in ModelStages :
          Rank(s) < position => OnDisk("usage", s)

RInv == Recorded /\ RecordedBeforeSend

\* The journal is only ever appended to.
Grows == \/ disk' = disk
         \/ \E r \in JournalRecords : disk' = Append(disk, r)

\* A step that neither sends, nor begins a call, nor passes a stage.
Plain ==
    /\ Grows /\ UNCHANGED sent
    /\ pc' = "sdk" => pc = "sdk" /\ permit'.stage = permit.stage
    /\ Claimant' => position' = 0 \/ (Claimant /\ position' = position)

\* A journal write appends one record, and a write that succeeds is on disk.
LEMMA WriteAppends ==
    ASSUME TypeOK, NEW kind \in Kinds, NEW s \in StageNames \cup {"none"},
           NEW over \in BOOLEAN, NEW w \in Writes, Journal(kind, s, over, w)
    PROVE  Grows /\ (w.ok => OnDisk(kind, s)')
<1> DEFINE e == [ordinal |-> sequence + 1, kind |-> kind, stage |-> s,
                 overrun |-> over, file |-> w.file]
<1>1. /\ e \in JournalRecords /\ e.kind = kind /\ e.stage = s /\ e.file = w.file
      /\ disk' = Append(disk, e) /\ disk \in Seq(JournalRecords)
      /\ w.ok => w.file = "whole"
  <2>1. w.file \in Files /\ sequence + 1 \in Nat /\ (w.ok => w.file = "whole")
    BY DEF Writes, TypeOK
  <2>2. disk' = Append(disk, e) /\ disk \in Seq(JournalRecords)
    BY DEF Journal, TypeOK
  <2> QED BY <2>1, <2>2 DEF JournalRecords
<1> HIDE DEF e
<1>2. Grows
  BY <1>1 DEF Grows
<1>3. ASSUME w.ok PROVE OnDisk(kind, s)'
  <2>1. Len(disk) + 1 \in DOMAIN disk' /\ disk'[Len(disk) + 1] = e
    BY <1>1
  <2> QED BY <1>1, <1>3, <2>1 DEF OnDisk
<1> QED BY <1>2, <1>3

\* What is on disk stays there.
LEMMA DiskKeeps ==
    ASSUME TypeOK, Grows, NEW kind, NEW s, OnDisk(kind, s)
    PROVE  OnDisk(kind, s)'
<1>1. CASE disk' = disk
  BY <1>1 DEF OnDisk
<1>2. CASE \E r \in JournalRecords : disk' = Append(disk, r)
  <2>1. PICK r \in JournalRecords : disk' = Append(disk, r)
    BY <1>2
  <2>2. disk \in Seq(JournalRecords)
    BY DEF TypeOK
  <2>3. \A i \in DOMAIN disk : i \in DOMAIN disk' /\ disk'[i] = disk[i]
    BY <2>1, <2>2
  <2> QED BY <2>3 DEF OnDisk
<1> QED BY <1>1, <1>2 DEF Grows

\* A step that sends nothing keeps what holds of the requests sent.
LEMMA UnsentKeeps ==
    ASSUME TypeOK, RecordedBeforeSend, Grows, UNCHANGED sent
    PROVE  RecordedBeforeSend'
<1>1. \A kind, s : OnDisk(kind, s) => OnDisk(kind, s)'
  BY DiskKeeps
<1> QED BY <1>1 DEF RecordedBeforeSend

\* A plain step keeps the records.
LEMMA PlainKeeps ==
    ASSUME IInv, RInv, Plain
    PROVE  RInv'
<1>1. TypeOK /\ \A s \in StageNames : Rank(s) \in 0..4
  BY Ranks DEF IInv, Control
<1>2. \A kind, s : OnDisk(kind, s) => OnDisk(kind, s)'
  BY <1>1, DiskKeeps DEF Plain
<1>3. RecordedBeforeSend'
  BY <1>1, UnsentKeeps DEF Plain, RInv
<1>4. pc' = "sdk" => OnDisk("attempt", permit.stage)'
  <2> SUFFICES ASSUME pc' = "sdk" PROVE OnDisk("attempt", permit.stage)'
    OBVIOUS
  <2>1. PICK s : s = permit.stage
    OBVIOUS
  <2>2. permit'.stage = s /\ OnDisk("attempt", s)
    BY <2>1 DEF Plain, RInv, Recorded
  <2>3. OnDisk("attempt", s)'
    BY <1>2, <2>2
  <2> QED BY <2>2, <2>3 DEF OnDisk
<1>5. Claimant' => \A s \in ModelStages : Rank(s) < position' => OnDisk("usage", s)'
  <2> SUFFICES ASSUME Claimant', NEW s \in ModelStages, Rank(s) < position'
               PROVE  OnDisk("usage", s)'
    OBVIOUS
  <2>1. Claimant /\ position' = position
    BY <1>1, Stages DEF Plain
  <2> QED BY <1>2, <2>1 DEF RInv, Recorded
<1> QED BY <1>3, <1>4, <1>5 DEF RInv, Recorded

\* Raising inside the SDK call keeps the permit's stage or ends the call.
LEMMA RaisedInSdk ==
    ASSUME NEW c, NEW p, NEW h, RaiseInSdk(c, p, h), p.stage = permit.stage
    PROVE  /\ pc' # "sdk" \/ (pc' = pc /\ permit'.stage = permit.stage)
           /\ pc' = pc \/ pc' \in {"body", "stop"}
BY DEF RaiseInSdk, InvokeFails, RaiseInBody

\* Counting in a permit keeps its stage.
LEMMA PermitKeepsStage ==
    ASSUME TypeOK
    PROVE  /\ Resent.stage = permit.stage
           /\ [permit EXCEPT !.checks = @ + 1].stage = permit.stage
           /\ [Resent EXCEPT !.approved = @ + 1].stage = permit.stage
BY DEF TypeOK, PermitRecords, Resent

\* The preparation of a run is plain: what claims starts at the first stage.
LEMMA PrepareIsPlain ==
    ASSUME IInv, Prepare
    PROVE  Plain
<1> USE DEF IInv, Control
<1>1. CASE BindClients \/ ActivateRefused \/ ActivateStops
  <2>1. /\ disk' = disk /\ sent' = sent /\ pc' \in {"new", "done"}
    BY <1>1 DEF BindClients, ActivateRefused, ActivateStops, object, Phases
  <2> QED BY <2>1 DEF Plain, Grows, Claimant
<1>2. CASE ActivateClaims
  <2>1. PICK w \in Writes : Journal("claim", "none", FALSE, w)
    BY <1>2 DEF ActivateClaims
  <2>2. Grows
    BY <2>1, WriteAppends DEF Kinds
  <2>3. position' = 0 /\ sent' = sent /\ pc' \in {"body", "stop"}
    BY <1>2 DEF ActivateClaims, Phases
  <2> QED BY <2>2, <2>3 DEF Plain
<1> QED BY <1>1, <1>2 DEF Prepare

\* A stage that is refused changes nothing of the records; one that begins
\* has its attempt on disk before the call.
LEMMA InvokeRecords ==
    ASSUME IInv, RInv, Invoke
    PROVE  RInv'
<1> USE DEF IInv, Control
<1>1. PICK s \in StageNames : InvokeRefused(s) \/ InvokeBegins(s)
  BY DEF Invoke
<1>2. CASE InvokeRefused(s)
  <2>1. Plain
    BY <1>2 DEF InvokeRefused, Plain, Grows, Claimant, RaiseInBody, object
  <2> QED BY <2>1, PlainKeeps
<1>3. CASE InvokeBegins(s)
  <2>1. PICK w \in Writes :
           /\ Journal("attempt", s, FALSE, w)
           /\ \/ w.ok /\ permit' = NewPermit(s) /\ pc' = "sdk"
              \/ ~w.ok /\ pc' \in {"body", "stop"}
    BY <1>3 DEF InvokeBegins, RaiseInBody
  <2>2. Grows /\ (w.ok => OnDisk("attempt", s)')
    BY <2>1, WriteAppends DEF Kinds
  <2>3. sent' = sent /\ position' = position /\ Claimant
    BY <1>3 DEF InvokeBegins, Claimant
  <2>4. CASE w.ok
    <3>1. permit'.stage = s /\ pc' = "sdk" /\ OnDisk("attempt", s)'
      BY <2>1, <2>2, <2>4, PermitShape
    <3>2. OnDisk("attempt", permit.stage)'
      BY <3>1 DEF OnDisk
    <3>3. \A t \in ModelStages : Rank(t) < position => OnDisk("usage", t)'
      BY <2>2, <2>3, DiskKeeps DEF RInv, Recorded
    <3>4. RecordedBeforeSend'
      BY <2>2, <2>3, UnsentKeeps DEF RInv
    <3> QED BY <2>3, <3>2, <3>3, <3>4 DEF RInv, Recorded
  <2>5. CASE ~w.ok
    <3>1. Plain
      BY <2>1, <2>2, <2>3, <2>5 DEF Plain
    <3> QED BY <3>1, PlainKeeps
  <2> QED BY <2>4, <2>5
<1> QED BY <1>1, <1>2, <1>3

\* The hooks write nothing but a blocked send's record; the approved send
\* finds its own attempt and every earlier usage on disk.
LEMMA HooksRecords ==
    ASSUME IInv, RInv, Hooks
    PROVE  RInv'
<1> USE DEF IInv, Control
<1>1. pc = "sdk" /\ Claimant
  BY DEF Hooks, ParametersHook, SendRefused, SendBlocked, SendMisdirected,
         SendApproved, Claimant
<1>2. CASE ParametersHook
  <2> DEFINE p == [permit EXCEPT !.checks = @ + 1]
  <2>1. p.stage = permit.stage
    BY PermitKeepsStage
  <2>2. /\ disk' = disk /\ sent' = sent /\ position' = position
        /\ \/ RaiseInSdk("UNEXPECTED_REQUEST", permit, halted)
           \/ RaiseInSdk("EXTRA_ATTEMPT", p, halted)
           \/ permit' = p /\ pc' = pc
    BY <1>2 DEF ParametersHook
  <2> HIDE DEF p
  <2>3. pc' # "sdk" \/ (pc' = pc /\ permit'.stage = permit.stage)
    BY <2>1, <2>2, RaisedInSdk
  <2>4. Plain
    BY <1>1, <2>2, <2>3 DEF Plain, Grows
  <2> QED BY <2>4, PlainKeeps
<1>3. CASE SendRefused \/ SendMisdirected
  <2>1. /\ disk' = disk /\ sent' = sent /\ position' = position
        /\ \/ RaiseInSdk("UNEXPECTED_SEND", permit, halted)
           \/ RaiseInSdk("ENDPOINT_INVALID", Resent, halted)
    BY <1>3 DEF SendRefused, SendMisdirected
  <2>2. pc' # "sdk" \/ (pc' = pc /\ permit'.stage = permit.stage)
    BY <2>1, RaisedInSdk, PermitKeepsStage
  <2>3. Plain
    BY <1>1, <2>1, <2>2 DEF Plain, Grows
  <2> QED BY <2>3, PlainKeeps
<1>4. CASE SendBlocked
  <2>1. PICK w \in Writes :
           /\ Journal("blocked-send", permit.stage, FALSE, w)
           /\ RaiseInSdk(IF w.ok THEN "EXTRA_SEND"
                         ELSE "EVIDENCE_PUBLICATION_FAILED", Resent, TRUE)
    BY <1>4 DEF SendBlocked
  <2>2. Grows
    BY <1>1, <2>1, WriteAppends DEF Kinds, Permits
  <2>3. pc' # "sdk" \/ (pc' = pc /\ permit'.stage = permit.stage)
    BY <2>1, RaisedInSdk, PermitKeepsStage
  <2>4. sent' = sent /\ position' = position
    BY <1>4 DEF SendBlocked
  <2>5. Plain
    BY <1>1, <2>2, <2>3, <2>4 DEF Plain
  <2> QED BY <2>5, PlainKeeps
<1>5. CASE SendApproved
  <2>1. PICK t \in StageNames : t = permit.stage /\ Rank(t) = position
    BY <1>1 DEF Permits
  <2>2. /\ sent' = [sent EXCEPT ![t] = @ + 1] /\ permit'.stage = t
        /\ UNCHANGED <<disk, position, pc>>
    BY <1>5, <2>1, PermitKeepsStage DEF SendApproved
  <2>3. \A kind, s : OnDisk(kind, s)' = OnDisk(kind, s)
    BY <2>2 DEF OnDisk
  <2>4. OnDisk("attempt", t) /\ \A u \in ModelStages : Rank(u) < Rank(t) => OnDisk("usage", u)
    BY <1>1, <2>1 DEF RInv, Recorded
  <2>5. /\ \A s \in StageNames : sent[s] \in Nat /\ Rank(s) \in 0..4
        /\ \A s \in StageNames : Rank(s) < Rank(t) => sent[s] = 1
        /\ \A s \in StageNames : Rank(s) > Rank(t) => sent[s] = 0
        /\ \A s \in StageNames : Rank(s) = Rank(t) => s = t
    BY <1>1, <2>1, Ranks DEF TypeOK, Accounts, Sends
  <2>6. \A s \in StageNames : s # t => sent'[s] = sent[s]
    BY <2>2 DEF TypeOK
  <2>7. RecordedBeforeSend'
    <3> SUFFICES ASSUME NEW s \in StageNames, sent'[s] > 0
                 PROVE  /\ OnDisk("attempt", s)
                        /\ \A u \in StageNames : Rank(u) < Rank(s) => sent'[u] = 1
                        /\ \A u \in ModelStages : Rank(u) < Rank(s) => OnDisk("usage", u)
      BY <2>3 DEF RecordedBeforeSend
    <3>1. CASE s = t
      BY <2>4, <2>5, <2>6, <3>1
    <3>2. CASE s # t
      <4>1. sent[s] > 0 /\ Rank(s) < Rank(t)
        BY <2>5, <2>6, <3>2
      <4>2. /\ OnDisk("attempt", s)
            /\ \A u \in StageNames : Rank(u) < Rank(s) => sent[u] = 1 /\ u # t
            /\ \A u \in ModelStages : Rank(u) < Rank(s) => OnDisk("usage", u)
        BY <2>5, <4>1 DEF RInv, RecordedBeforeSend
      <4> QED BY <2>6, <4>2
    <3> QED BY <3>1, <3>2
  <2>8. Recorded'
    <3>1. OnDisk("attempt", permit.stage)'
      BY <2>2, <2>4 DEF OnDisk
    <3> QED BY <2>2, <2>3, <3>1 DEF RInv, Recorded, Claimant
  <2> QED BY <2>7, <2>8 DEF RInv
<1> QED BY <1>2, <1>3, <1>4, <1>5 DEF Hooks

\* A stage is passed only with its usage on disk, if it has one.
LEMMA ReturnRecords ==
    ASSUME IInv, RInv, Return
    PROVE  RInv'
<1> USE DEF IInv, Control
<1>1. PICK t \in StageNames : t = permit.stage /\ Rank(t) = position
  BY DEF Permits, Return, CallRaises, ReturnRejected, ReturnObject, ReturnUsage
<1>2. pc = "sdk" /\ Claimant /\ sent' = sent /\ position \in 0..5
  <2>1. CallRaises => pc = "sdk" /\ sent' = sent
    BY DEF CallRaises
  <2>2. ReturnRejected => pc = "sdk" /\ sent' = sent
    BY DEF ReturnRejected
  <2>3. ReturnObject => pc = "sdk" /\ sent' = sent
    BY DEF ReturnObject
  <2>4. ReturnUsage => pc = "sdk" /\ sent' = sent
    BY DEF ReturnUsage
  <2> QED BY <2>1, <2>2, <2>3, <2>4 DEF Return, Claimant, TypeOK
<1>3. ASSUME Grows, position' = position, pc' # "sdk"
      PROVE  RInv'
  <2>1. Plain
    BY <1>2, <1>3 DEF Plain
  <2> QED BY <2>1, PlainKeeps
<1>4. ASSUME Grows, position' = position + 1, pc' # "sdk",
             t \in ModelStages => OnDisk("usage", t)'
      PROVE  RInv'
  <2>1. \A s \in ModelStages : Rank(s) < position' => OnDisk("usage", s)'
    <3> SUFFICES ASSUME NEW s \in ModelStages, Rank(s) < position'
                 PROVE  OnDisk("usage", s)'
      OBVIOUS
    <3>1. s \in StageNames /\ Rank(s) \in 0..4 /\ (Rank(s) = Rank(t) => s = t)
      BY Ranks, Stages
    <3>2. CASE s = t
      BY <1>4, <3>2
    <3>3. CASE s # t
      <4>1. Rank(s) < position
        BY <1>1, <1>2, <1>4, <3>1, <3>3
      <4>2. OnDisk("usage", s)
        BY <1>2, <4>1 DEF RInv, Recorded
      <4> QED BY <1>4, <4>2, DiskKeeps
    <3> QED BY <3>2, <3>3
  <2>2. RecordedBeforeSend'
    BY <1>2, <1>4, UnsentKeeps DEF RInv
  <2> QED BY <1>4, <2>1, <2>2 DEF RInv, Recorded
<1>5. CASE CallRaises
  <2>1. Grows /\ position' = position /\ pc' # "sdk"
    BY <1>5 DEF CallRaises, Grows, InvokeFails, RaiseInBody
  <2> QED BY <1>3, <2>1
<1>6. CASE ReturnRejected
  <2>1. Grows /\ position' = position /\ pc' # "sdk"
    BY <1>6 DEF ReturnRejected, Grows, InvokeFails, RaiseInBody
  <2> QED BY <1>3, <2>1
<1>7. CASE ReturnObject
  <2>1. t \notin ModelStages /\ Grows
    BY <1>1, <1>7, Stages DEF ReturnObject, Grows
  <2>2. PICK c : Conclude(c)
    BY <1>7 DEF ReturnObject
  <2>3. (position' = position \/ position' = position + 1) /\ pc' # "sdk"
    BY <2>2 DEF Conclude, InvokeFails, RaiseInBody
  <2> QED BY <1>3, <1>4, <2>1, <2>3
<1>8. CASE ReturnUsage
  <2>1. PICK over \in BOOLEAN, w \in Writes :
           /\ Journal("usage", t, over, w)
           /\ \/ w.ok /\ \E c : Conclude(c)
              \/ InvokeFails("EVIDENCE_PUBLICATION_FAILED") /\ position' = position
    BY <1>1, <1>8 DEF ReturnUsage
  <2>2. Grows /\ (w.ok => OnDisk("usage", t)')
    BY <2>1, WriteAppends DEF Kinds
  <2>3. /\ pc' # "sdk"
        /\ position' = position \/ (position' = position + 1 /\ w.ok)
    BY <2>1 DEF Conclude, InvokeFails, RaiseInBody
  <2> QED BY <1>3, <1>4, <2>2, <2>3
<1> QED BY <1>5, <1>6, <1>7, <1>8 DEF Return

\* What an observer records adds to the journal alone.
LEMMA ObserveIsPlain ==
    ASSUME IInv, Observe
    PROVE  Plain
<1> USE DEF IInv, Control
<1>1. ASSUME NEW c, RaiseToObserver(c)
      PROVE  /\ pc' # "sdk" \/ (pc' = pc /\ permit'.stage = permit.stage)
             /\ pc \in {"body", "sdk"}
  BY <1>1, RaisedInSdk DEF RaiseToObserver, RaiseInBody
<1>2. CASE RecordUnidentified
  <2>1. /\ disk' = disk /\ sent' = sent /\ position' = position
        /\ RaiseToObserver("EXTRA_EVIDENCE_INVALID")
    BY <1>2 DEF RecordUnidentified
  <2> QED BY <1>1, <2>1 DEF Plain, Grows, Claimant
<1>3. ASSUME NEW e \in Evidence, NEW s \in ModelStages,
             NEW delivery, NEW priced, RecordExtra(e, s, delivery, priced)
      PROVE  Plain
  <2>1. PICK w \in Writes :
           /\ Journal("extra-request", s, FALSE, w)
           /\ \/ UNCHANGED <<permit, pc>>
              \/ RaiseToObserver("EVIDENCE_PUBLICATION_FAILED")
    BY <1>3 DEF RecordExtra
  <2>2. pc \in {"body", "sdk"} /\ sent' = sent /\ position' = position
    BY <1>3 DEF RecordExtra
  <2>3. Grows
    BY <2>1, WriteAppends, Stages DEF Kinds
  <2> QED BY <1>1, <2>1, <2>2, <2>3 DEF Plain, Claimant
<1> QED BY <1>2, <1>3 DEF Observe

\* The end of the run adds to the journal alone; a death and a restart touch
\* nothing on disk.
LEMMA FinishIsPlain ==
    ASSUME IInv, Finish \/ Die \/ Restart \/ UNCHANGED vars
    PROVE  Plain
<1> USE DEF IInv, Control
<1>1. CASE BodyRaises
  BY <1>1 DEF BodyRaises, Plain, Grows, Claimant, object
<1>2. CASE BodyReturns
  <2>1. Grows
    <3>1. disk' = disk \/ \E w \in Writes : Journal("complete", "none", FALSE, w)
      BY <1>2 DEF BodyReturns
    <3> QED BY <3>1, WriteAppends DEF Kinds, Grows
  <2>2. /\ pc = "body" /\ pc' \in {"done", "stop"}
        /\ sent' = sent /\ position' = position
    BY <1>2 DEF BodyReturns
  <2> QED BY <2>1, <2>2 DEF Plain, Claimant
<1>3. CASE Stop
  <2>1. Grows
    <3>1. \E w \in Writes : Journal("stopped", "none", FALSE, w)
      BY <1>3 DEF Stop
    <3> QED BY <3>1, WriteAppends DEF Kinds
  <2> QED BY <1>3, <2>1 DEF Stop, Plain, Claimant
<1>4. CASE Die \/ Restart
  BY <1>4 DEF Die, Restart, Plain, Grows, Claimant
<1>5. CASE UNCHANGED vars
  BY <1>5 DEF vars, object, Plain, Grows, Claimant
<1> QED BY <1>1, <1>2, <1>3, <1>4, <1>5 DEF Finish

\* Every step keeps the records.
LEMMA NextRecords == IInv /\ RInv /\ [Next]_vars => RInv'
<1> SUFFICES ASSUME IInv, RInv, [Next]_vars PROVE RInv'
  OBVIOUS
<1>1. CASE Prepare
  BY <1>1, PrepareIsPlain, PlainKeeps
<1>2. CASE Observe
  BY <1>2, ObserveIsPlain, PlainKeeps
<1>3. CASE Finish \/ Die \/ Restart \/ UNCHANGED vars
  BY <1>3, FinishIsPlain, PlainKeeps
<1> QED BY <1>1, <1>2, <1>3, InvokeRecords, HooksRecords, ReturnRecords
        DEF Next, Run

\* No request leaves before its own attempt record is whole on disk, and
\* before every earlier stage was sent and its usage recorded, over every
\* process that ever ran on the claim directory.
THEOREM RecordedBeforeSendHolds == Spec => []RecordedBeforeSend
<1>1. Init => RInv
  BY DEF Init, FreshObject, RInv, Recorded, RecordedBeforeSend, Claimant
<1>2. RInv => RecordedBeforeSend
  BY DEF RInv
<1> QED BY <1>1, <1>2, Inductive, NextRecords, PTL DEF Spec
-----------------------------------------------------------------------------
(* What the object says of itself is what the journal and the bills say *)

Written(kind, s) == \E i \in DOMAIN disk : disk[i].kind = kind /\ disk[i].stage = s

\* The object that holds a journal wrote all of it; one that holds none has
\* attempted nothing and knows of no charge.
Owned ==
    /\ sequence > 0 => sequence = Len(disk) /\ used
    /\ sequence = 0 => /\ \A s \in StageNames : ~attempts[s].made
                       /\ \A p \in Providers : extraKnown[p] = 0

\* Every stage passed was attempted; every attempt and settlement was written.
Chronicle == \A s \in StageNames :
    /\ Rank(s) < position => attempts[s].made
    /\ attempts[s].made => Written("attempt", s)
    /\ attempts[s].settled => Written("usage", s)

\* A charge that cannot be attributed leaves its stage unestablished, and one
\* over the reservation violates the coverage.
Charges == \A s \in StageNames :
    /\ attempts[s].charge # NoCharge /\ ~attempts[s].settled => s \in unestablished
    /\ ChargeOver(s) => coverageViolated

\* An extra request is priced, or leaves its stage unestablished.
Extras == \A i \in DOMAIN extras :
    /\ extras[i].delivery = "NO" => extras[i].charge = NoCharge
    /\ extras[i].charge > 0 => coverageViolated
    /\ extras[i].delivery # "NO" =>
          /\ extras[i].stage \in ModelStages
          /\ extras[i].delivery = "UNKNOWN" \/ extras[i].charge = NoCharge
                => extras[i].stage \in unestablished

\* With nothing unestablished, what bypassed the hooks is known to the unit.
Bypassed == sequence > 0 /\ BoundEstablished =>
    \A p \in Providers : extraSpent[p] = extraKnown[p]

Books == Owned /\ Chronicle /\ Charges /\ Extras /\ Bypassed

\* What most steps keep of the attempts, and the marks no step withdraws.
SameAttempts == \A s \in StageNames :
    /\ attempts'[s].made = attempts[s].made
    /\ attempts'[s].charge = attempts[s].charge
    /\ attempts'[s].settled = attempts[s].settled
Aged == /\ unestablished \subseteq unestablished'
        /\ coverageViolated => coverageViolated'

\* A step that writes at most one record, and settles, passes and observes
\* nothing.
Steady ==
    /\ SameAttempts /\ Aged /\ Grows
    /\ UNCHANGED <<position, extras, extraKnown, extraSpent>>
    /\ sequence' > 0 => sequence > 0
    /\ Owned'

\* What was written stays written.
LEMMA WrittenKeeps ==
    ASSUME TypeOK, Grows, NEW kind, NEW s, Written(kind, s)
    PROVE  Written(kind, s)'
<1>1. CASE disk' = disk
  BY <1>1 DEF Written
<1>2. CASE \E r \in JournalRecords : disk' = Append(disk, r)
  <2>1. PICK r \in JournalRecords : disk' = Append(disk, r)
    BY <1>2
  <2>2. disk \in Seq(JournalRecords)
    BY DEF TypeOK
  <2>3. \A i \in DOMAIN disk : i \in DOMAIN disk' /\ disk'[i] = disk[i]
    BY <2>1, <2>2
  <2> QED BY <2>3 DEF Written
<1> QED BY <1>1, <1>2 DEF Grows

\* A journal write writes its record, whatever becomes of the file.
LEMMA WriteIsWritten ==
    ASSUME TypeOK, NEW kind \in Kinds, NEW s \in StageNames \cup {"none"},
           NEW over \in BOOLEAN, NEW w \in Writes, Journal(kind, s, over, w)
    PROVE  Written(kind, s)'
<1> DEFINE e == [ordinal |-> sequence + 1, kind |-> kind, stage |-> s,
                 overrun |-> over, file |-> w.file]
<1>1. /\ e.kind = kind /\ e.stage = s
      /\ disk' = Append(disk, e) /\ disk \in Seq(JournalRecords)
  BY DEF Journal, TypeOK
<1> HIDE DEF e
<1>2. Len(disk) + 1 \in DOMAIN disk' /\ disk'[Len(disk) + 1] = e
  BY <1>1
<1> QED BY <1>1, <1>2 DEF Written

\* The process that claimed the directory owns its journal; what it writes
\* keeps it so.
LEMMA OwnerWrites ==
    ASSUME IInv, Owned, Claimant, UNCHANGED used,
           NEW kind \in Kinds, NEW s \in StageNames \cup {"none"},
           NEW over \in BOOLEAN, NEW w \in Writes, Journal(kind, s, over, w)
    PROVE  Owned' /\ sequence > 0 /\ sequence' > 0 /\ Grows /\ Written(kind, s)'
<1> USE DEF IInv, Control
<1>1. sequence = Len(disk) /\ sequence > 0 /\ used
  BY DEF Phases, Owned
<1>2. sequence' > 0 /\ sequence' = Len(disk') /\ Grows /\ Written(kind, s)'
  BY <1>1, JournalWrites, WriteAppends, WriteIsWritten
<1> QED BY <1>1, <1>2 DEF Owned

\* A step of the owner that writes nothing.
LEMMA OwnerWaits ==
    ASSUME IInv, Owned, Claimant, UNCHANGED <<used, sequence, disk>>
    PROVE  Owned' /\ sequence > 0 /\ Grows
<1>1. sequence > 0
  BY DEF IInv, Control, Phases
<1> QED BY <1>1 DEF Owned, Grows

\* Attempts that stay as they were stay in the chronicle, and their charges
\* stay attributed.
LEMMA AttemptsKeep ==
    ASSUME TypeOK, Chronicle, Charges, Grows, Aged, SameAttempts,
           UNCHANGED position
    PROVE  Chronicle' /\ Charges'
<1>1. Chronicle'
  BY WrittenKeeps DEF Chronicle, SameAttempts
<1>2. Charges'
  BY DEF Charges, ChargeOver, SameAttempts, Aged
<1> QED BY <1>1, <1>2

\* The extra requests listed so far stay priced or unestablished.
LEMMA ExtrasKeep ==
    ASSUME Extras, Aged, UNCHANGED extras
    PROVE  Extras'
BY DEF Extras, Aged

\* A steady step keeps the books.
LEMMA SteadyKeeps ==
    ASSUME IInv, Books, Steady
    PROVE  Books'
<1>1. Chronicle' /\ Charges' /\ Extras'
  BY AttemptsKeep, ExtrasKeep DEF Steady, Books, IInv, Control
<1>2. Bypassed'
  <2>1. BoundEstablished' => BoundEstablished
    BY DEF Steady, Aged, BoundEstablished
  <2> QED BY <2>1 DEF Steady, Books, Bypassed
<1> QED BY <1>1, <1>2 DEF Steady, Books

\* Before the claim nothing changes that the books tell; the claim finds
\* nothing sent, billed or observed.
LEMMA PrepareBooks ==
    ASSUME IInv, Books, Prepare
    PROVE  Books'
<1> USE DEF IInv, Control
<1>1. CASE BindClients \/ ActivateRefused \/ ActivateStops
  <2>1. /\ UNCHANGED <<position, extras, extraKnown, extraSpent, attempts, unestablished,
                       coverageViolated, sequence, disk>>
        /\ used => used'
    BY <1>1 DEF BindClients, ActivateRefused, ActivateStops, object
  <2>2. Owned'
    BY <2>1 DEF Books, Owned
  <2>3. Steady
    BY <2>1, <2>2 DEF Steady, SameAttempts, Aged, Grows
  <2> QED BY <2>3, SteadyKeeps
<1>2. CASE ActivateClaims
  <2>1. PICK w \in Writes : Journal("claim", "none", FALSE, w)
    BY <1>2 DEF ActivateClaims
  <2>2. /\ pc = "new" /\ ~claimed /\ used'
        /\ UNCHANGED <<position, extras, extraKnown, extraSpent, attempts, unestablished,
                       coverageViolated>>
    BY <1>2 DEF ActivateClaims, Creatable
  <2>3. sequence = 0 /\ sequence = Len(disk) /\ \A p \in Providers : extraSpent[p] = 0
    BY <2>2 DEF Phases, Accounts, Bills
  <2>4. sequence' > 0 /\ sequence' = Len(disk') /\ Grows
    BY <2>1, <2>3, JournalWrites, WriteAppends DEF Kinds
  <2>5. Owned' /\ Bypassed'
    BY <2>2, <2>3, <2>4 DEF Books, Owned, Bypassed
  <2>6. Chronicle' /\ Charges' /\ Extras'
    BY <2>2, <2>4, AttemptsKeep, ExtrasKeep DEF Books, SameAttempts, Aged
  <2> QED BY <2>5, <2>6 DEF Books
<1> QED BY <1>1, <1>2 DEF Prepare

\* A stage begins with its attempt written and nothing charged.
LEMMA InvokeBooks ==
    ASSUME IInv, Books, Invoke
    PROVE  Books'
<1> USE DEF IInv, Control
<1>1. PICK t \in StageNames : InvokeRefused(t) \/ InvokeBegins(t)
  BY DEF Invoke
<1>2. pc = "body" /\ Claimant
  BY <1>1 DEF InvokeRefused, InvokeBegins, Claimant
<1>3. CASE InvokeRefused(t)
  <2>1. /\ UNCHANGED <<position, extras, extraKnown, extraSpent, attempts, unestablished,
                       coverageViolated, sequence, disk, used>>
    BY <1>3 DEF InvokeRefused, object
  <2>2. Steady
    BY <1>2, <2>1, OwnerWaits DEF Steady, SameAttempts, Aged, Books
  <2> QED BY <2>2, SteadyKeeps
<1>4. CASE InvokeBegins(t)
  <2>1. PICK w \in Writes : Journal("attempt", t, FALSE, w)
    BY <1>4 DEF InvokeBegins
  <2>2. UNCHANGED <<used, position, extras, extraKnown, extraSpent, unestablished,
                    coverageViolated>>
    BY <1>4 DEF InvokeBegins
  <2>3. Owned' /\ sequence > 0 /\ Grows /\ Written("attempt", t)'
    BY <1>2, <2>1, <2>2, OwnerWrites DEF Kinds, Books
  <2>4. attempts' = [attempts EXCEPT ![t] = NewAttempt(Reservation(t))]
    BY <1>4 DEF InvokeBegins, Reservation
  <2>5. /\ attempts'[t].made /\ ~attempts'[t].settled
        /\ attempts'[t].charge = NoCharge
        /\ \A s \in StageNames : s # t => attempts'[s] = attempts[s]
    <3>1. Reservation(t) \in Nat /\ DOMAIN attempts = StageNames
      BY Stages DEF TypeOK
    <3>2. attempts'[t] = NewAttempt(Reservation(t))
      BY <2>4, <3>1
    <3>3. \A s \in StageNames : s # t => attempts'[s] = attempts[s]
      BY <2>4, <3>1
    <3> QED BY <3>1, <3>2, <3>3, AttemptShape
  <2>6. Chronicle'
    <3> SUFFICES ASSUME NEW s \in StageNames
                 PROVE  /\ Rank(s) < position => attempts'[s].made
                        /\ attempts'[s].made => Written("attempt", s)'
                        /\ attempts'[s].settled => Written("usage", s)'
      BY <2>2 DEF Chronicle
    <3>1. CASE s = t
      BY <2>3, <2>5, <3>1
    <3>2. CASE s # t
      BY <2>3, <2>5, <3>2, WrittenKeeps DEF Books, Chronicle
    <3> QED BY <3>1, <3>2
  <2>7. Charges'
    <3>1. ~ChargeOver(t)'
      BY <2>5, Stages DEF ChargeOver, NoCharge
    <3> QED BY <2>2, <2>5, <3>1 DEF Books, Charges, ChargeOver
  <2>8. Extras' /\ Bypassed'
    <3>1. Extras'
      BY <2>2, ExtrasKeep DEF Books, Aged
    <3> QED BY <2>2, <2>3, <3>1 DEF Books, Bypassed, BoundEstablished
  <2> QED BY <2>3, <2>6, <2>7, <2>8 DEF Books
<1> QED BY <1>1, <1>3, <1>4

\* The hooks settle nothing; a blocked send is listed as not delivered.
LEMMA HooksBooks ==
    ASSUME IInv, Books, Hooks
    PROVE  Books'
<1> USE DEF IInv, Control
<1>1. pc = "sdk" /\ Claimant
  BY DEF Hooks, ParametersHook, SendRefused, SendBlocked, SendMisdirected,
         SendApproved, Claimant
<1>2. CASE ParametersHook \/ SendRefused \/ SendMisdirected \/ SendApproved
  <2>1. UNCHANGED <<position, extras, extraKnown, extraSpent, attempts,
                    unestablished, coverageViolated, sequence, disk, used>>
    BY <1>2 DEF ParametersHook, SendRefused, SendMisdirected, SendApproved
  <2>2. Steady
    BY <1>1, <2>1, OwnerWaits DEF Steady, SameAttempts, Aged, Books
  <2> QED BY <2>2, SteadyKeeps
<1>3. CASE SendBlocked
  <2> DEFINE x == [stage |-> permit.stage, delivery |-> "NO", charge |-> NoCharge]
  <2>1. PICK w \in Writes : Journal("blocked-send", permit.stage, FALSE, w)
    BY <1>3 DEF SendBlocked
  <2>2. /\ UNCHANGED <<used, position, attempts, extraKnown, extraSpent,
                       unestablished, coverageViolated>>
        /\ extras' = Append(extras, x)
    BY <1>3 DEF SendBlocked
  <2>3. x.delivery = "NO" /\ x.charge = NoCharge /\ ~(x.charge > 0)
    BY DEF NoCharge
  <2> HIDE DEF x
  <2>4. Owned' /\ sequence > 0 /\ Grows
    BY <1>1, <2>1, <2>2, OwnerWrites DEF Kinds, Books, Permits
  <2>5. Chronicle' /\ Charges'
    BY <2>2, <2>4, AttemptsKeep DEF Books, SameAttempts, Aged
  <2>6. Extras'
    <3>1. extras \in Seq(ExtraRecords)
      BY DEF TypeOK
    <3>2. \A i \in DOMAIN extras' :
             \/ i \in DOMAIN extras /\ extras'[i] = extras[i]
             \/ extras'[i] = x
      BY <2>2, <3>1
    <3> QED BY <2>2, <2>3, <3>2 DEF Books, Extras
  <2>7. Bypassed'
    BY <2>2, <2>4 DEF Books, Bypassed, BoundEstablished
  <2> QED BY <2>4, <2>5, <2>6, <2>7 DEF Books
<1> QED BY <1>2, <1>3 DEF Hooks

\* Marks added never withdraw others.
LEMMA CountedAges ==
    ASSUME NEW valid, Counted(valid), coverageViolated => coverageViolated'
    PROVE  /\ Aged
           /\ ~valid => permit.stage \in unestablished'
BY DEF Counted, Aged

\* An answer that fails or is rejected settles nothing; an object read or a
\* settled usage passes a stage that was attempted.
LEMMA ReturnBooks ==
    ASSUME IInv, Books, Return
    PROVE  Books'
<1> USE DEF IInv, Control
<1>1. pc = "sdk" /\ Claimant /\ UNCHANGED <<used, extras, extraKnown, extraSpent>>
  <2>1. CallRaises => pc = "sdk" /\ UNCHANGED <<used, extras, extraKnown, extraSpent>>
    BY DEF CallRaises
  <2>2. ReturnRejected => pc = "sdk" /\ UNCHANGED <<used, extras, extraKnown, extraSpent>>
    BY DEF ReturnRejected
  <2>3. ReturnObject => pc = "sdk" /\ UNCHANGED <<used, extras, extraKnown, extraSpent>>
    BY DEF ReturnObject
  <2>4. ReturnUsage => pc = "sdk" /\ UNCHANGED <<used, extras, extraKnown, extraSpent>>
    BY DEF ReturnUsage
  <2> QED BY <2>1, <2>2, <2>3, <2>4 DEF Return, Claimant
<1>2. PICK t \in StageNames : t = permit.stage /\ Rank(t) = position /\ attempts[t].made
  BY <1>1 DEF Permits, Accounts, Ledger
<1>3. CASE CallRaises
  <2>1. UNCHANGED <<position, attempts, unestablished, coverageViolated, sequence, disk>>
    BY <1>3 DEF CallRaises
  <2>2. Steady
    BY <1>1, <2>1, OwnerWaits DEF Steady, SameAttempts, Aged, Books
  <2> QED BY <2>2, SteadyKeeps
<1>4. CASE ReturnRejected
  <2>1. PICK valid \in BOOLEAN : Counted(valid) /\ attempts' = Delivered(valid)
    BY <1>4 DEF ReturnRejected, CountValid
  <2>2. UNCHANGED <<position, coverageViolated, sequence, disk>>
    BY <1>4 DEF ReturnRejected
  <2>3. SameAttempts /\ Aged
    BY <1>2, <2>1, <2>2, CountedAges, DeliveredKeeps DEF SameAttempts
  <2>4. Steady
    BY <1>1, <2>2, <2>3, OwnerWaits DEF Steady, Books
  <2> QED BY <2>4, SteadyKeeps
<1>5. ASSUME Aged, Owned', Grows, sequence > 0, Charges',
             position' = position \/ position' = position + 1,
             \A s \in StageNames : attempts'[s].made = attempts[s].made,
             \A s \in StageNames : attempts'[s].settled
                => attempts[s].settled \/ Written("usage", s)'
      PROVE  Books'
  <2>1. Extras' /\ Bypassed'
    <3>1. BoundEstablished' => BoundEstablished
      BY <1>5 DEF Aged, BoundEstablished
    <3> QED BY <1>1, <1>5, <3>1, ExtrasKeep DEF Books, Bypassed
  <2>2. Chronicle'
    <3> SUFFICES ASSUME NEW s \in StageNames
                 PROVE  /\ Rank(s) < position' => attempts'[s].made
                        /\ attempts'[s].made => Written("attempt", s)'
                        /\ attempts'[s].settled => Written("usage", s)'
      BY DEF Chronicle
    <3>1. Rank(s) \in 0..4 /\ position \in 0..5 /\ (Rank(s) = Rank(t) => s = t)
      BY Ranks DEF TypeOK
    <3>2. Rank(s) < position' => Rank(s) < position \/ s = t
      BY <1>2, <1>5, <3>1
    <3>3. Rank(s) < position' => attempts'[s].made
      BY <1>2, <1>5, <3>2 DEF Books, Chronicle
    <3>4. attempts'[s].made => Written("attempt", s)'
      BY <1>5, WrittenKeeps DEF Books, Chronicle
    <3>5. attempts'[s].settled => Written("usage", s)'
      BY <1>5, WrittenKeeps DEF Books, Chronicle
    <3> QED BY <3>3, <3>4, <3>5
  <2> QED BY <1>5, <2>1, <2>2 DEF Books
<1>6. CASE ReturnObject
  <2>1. PICK valid \in BOOLEAN :
           /\ Counted(valid) /\ attempts' = Delivered(valid)
           /\ \E c : Conclude(c)
    BY <1>6 DEF ReturnObject, CountValid
  <2>2. UNCHANGED <<coverageViolated, sequence, disk>>
    BY <1>6 DEF ReturnObject
  <2>3. SameAttempts /\ Aged
    BY <1>2, <2>1, <2>2, CountedAges, DeliveredKeeps DEF SameAttempts
  <2>4. Owned' /\ sequence > 0 /\ Grows
    BY <1>1, <2>2, OwnerWaits DEF Books
  <2>5. position' = position \/ position' = position + 1
    BY <2>1 DEF Conclude
  <2>6. Charges'
    BY <2>3 DEF Books, Charges, ChargeOver, SameAttempts, Aged
  <2> QED BY <1>5, <2>3, <2>4, <2>5, <2>6 DEF SameAttempts
<1>7. CASE ReturnUsage
  <2>1. PICK noRetry \in BOOLEAN, overTokens \in BOOLEAN, w \in Writes :
           /\ Counted(CountValid(noRetry))
           /\ Settle(t, spent[t], CountValid(noRetry), overTokens \/ spent[t] > Amount[t])
           /\ Journal("usage", t, overTokens \/ spent[t] > Amount[t], w)
           /\ (\E c : Conclude(c)) \/ position' = position
    BY <1>2, <1>7 DEF ReturnUsage
  <2>2. t \in ModelStages /\ spent[t] \in Nat /\ Amount[t] \in Nat
    BY <1>2, <1>7, Stages DEF ReturnUsage, TypeOK
  <2>3. PICK valid \in BOOLEAN : valid = CountValid(noRetry)
    BY DEF CountValid
  <2>4. PICK exceeded \in BOOLEAN : exceeded = (overTokens \/ spent[t] > Amount[t])
    OBVIOUS
  <2>5. /\ attempts'[t].charge = spent[t] /\ attempts'[t].settled = valid
        /\ attempts'[t].made = attempts[t].made
        /\ \A u \in StageNames : u # t => attempts'[u] = attempts[u]
    <3>1. PICK c \in Nat : c = spent[t]
      BY <2>2
    <3>2. Settle(t, c, valid, exceeded)
      BY <2>1, <2>3, <2>4, <3>1
    <3>3. TypeOK /\ t = permit.stage /\ t \in ModelStages
      BY <1>2, <2>2
    <3>4. /\ attempts'[t].charge = c /\ attempts'[t].settled = valid
          /\ attempts'[t].made = attempts[t].made
          /\ \A u \in StageNames : u # t => attempts'[u] = attempts[u]
      BY <3>2, <3>3, SettleShape
    <3> QED BY <3>1, <3>4
  <2>6. coverageViolated' = (coverageViolated \/ exceeded)
    BY <2>1, <2>3, <2>4 DEF Settle
  <2>7. Aged /\ (~valid => t \in unestablished')
    BY <1>2, <2>1, <2>3, <2>6, CountedAges
  <2>8. Owned' /\ sequence > 0 /\ Grows /\ Written("usage", t)'
    BY <1>1, <2>1, OwnerWrites DEF Kinds, Books
  <2>9. position' = position \/ position' = position + 1
    BY <2>1 DEF Conclude
  <2>10. Charges'
    <3> SUFFICES ASSUME NEW s \in StageNames
                 PROVE  /\ attempts'[s].charge # NoCharge /\ ~attempts'[s].settled
                              => s \in unestablished'
                        /\ ChargeOver(s)' => coverageViolated'
      BY DEF Charges
    <3>1. CASE s = t
      <4>1. ChargeOver(s)' => exceeded
        BY <2>2, <2>4, <2>5, <3>1, Stages DEF ChargeOver
      <4> QED BY <2>5, <2>6, <2>7, <3>1, <4>1
    <3>2. CASE s # t
      BY <2>5, <2>7, <3>2 DEF Books, Charges, ChargeOver, Aged
    <3> QED BY <3>1, <3>2
  <2>11. \A s \in StageNames : attempts'[s].made = attempts[s].made
    BY <2>5
  <2>12. \A s \in StageNames : attempts'[s].settled
            => attempts[s].settled \/ Written("usage", s)'
    BY <2>5, <2>8
  <2> QED BY <1>5, <2>7, <2>8, <2>9, <2>10, <2>11, <2>12
<1> QED BY <1>3, <1>4, <1>6, <1>7 DEF Return

\* An observed request is known to the unit, or leaves a mark.
LEMMA ObserveBooks ==
    ASSUME IInv, Books, Observe
    PROVE  Books'
<1> USE DEF IInv, Control
<1>1. CASE RecordUnidentified
  <2>1. /\ pc \in {"body", "sdk"}
        /\ unestablished' = unestablished \cup {Unidentified}
        /\ UNCHANGED <<used, position, sequence, attempts, coverageViolated,
                       extras, extraKnown, disk>>
    BY <1>1 DEF RecordUnidentified
  <2>2. Aged /\ SameAttempts /\ ~BoundEstablished'
    BY <2>1 DEF Aged, SameAttempts, BoundEstablished
  <2>3. Owned' /\ Grows
    BY <2>1, OwnerWaits DEF Books, Claimant
  <2> QED BY <2>1, <2>2, <2>3, AttemptsKeep, ExtrasKeep DEF Books, Bypassed
<1>2. ASSUME NEW e \in Evidence, NEW s \in ModelStages,
             NEW delivery \in {"YES", "UNKNOWN"}, NEW priced \in BOOLEAN,
             RecordExtra(e, s, delivery, priced)
      PROVE  Books'
  <2>1. PICK c \in ExtraCost, w \in Writes :
           /\ extraSpent' = [extraSpent EXCEPT ![ProviderOf(s)] = @ + c]
           /\ extras' = Append(extras, [stage |-> s, delivery |-> delivery,
                                charge |-> IF priced THEN c ELSE NoCharge])
           /\ extraKnown' = [extraKnown EXCEPT ![ProviderOf(s)] =
                                @ + IF priced THEN c ELSE 0]
           /\ coverageViolated' = (coverageViolated \/ Unauthorized(priced, c))
           /\ unestablished' = unestablished \cup Unbounded(s, delivery, priced)
           /\ Journal("extra-request", s, FALSE, w)
    BY <1>2 DEF RecordExtra
  <2>2. Claimant /\ UNCHANGED <<used, position, attempts>>
    BY <1>2 DEF RecordExtra, Claimant
  <2> DEFINE x == [stage |-> s, delivery |-> delivery,
                   charge |-> IF priced THEN c ELSE NoCharge]
  <2>3. /\ x.stage = s /\ x.delivery = delivery
        /\ x.charge = (IF priced THEN c ELSE NoCharge)
        /\ extras' = Append(extras, x) /\ extras \in Seq(ExtraRecords)
    BY <2>1 DEF TypeOK
  <2> HIDE DEF x
  <2>4. c \in Nat /\ NoCharge \notin Nat /\ ~(NoCharge > 0)
    BY CostAssumption DEF NoCharge
  <2>5. Aged
    BY <2>1 DEF Aged
  <2>6. Owned' /\ sequence > 0 /\ Grows
    BY <2>1, <2>2, OwnerWrites, Stages DEF Kinds, Books
  <2>7. Chronicle' /\ Charges'
    BY <2>2, <2>5, <2>6, AttemptsKeep DEF Books, SameAttempts
  <2>8. Extras'
    <3>1. \A i \in DOMAIN extras' :
             \/ i \in DOMAIN extras /\ extras'[i] = extras[i]
             \/ extras'[i] = x
      BY <2>3
    <3>2. x.delivery # "NO" /\ x.stage \in ModelStages
      BY <2>3
    <3>3. x.charge > 0 => coverageViolated'
      BY <2>1, <2>3, <2>4 DEF Unauthorized
    <3>4. x.delivery = "UNKNOWN" \/ x.charge = NoCharge => x.stage \in unestablished'
      BY <2>1, <2>3, <2>4 DEF Unbounded
    <3>5. \A i \in DOMAIN extras :
             /\ extras[i].delivery = "NO" => extras[i].charge = NoCharge
             /\ extras[i].charge > 0 => coverageViolated'
             /\ extras[i].delivery # "NO" =>
                   /\ extras[i].stage \in ModelStages
                   /\ extras[i].delivery = "UNKNOWN" \/ extras[i].charge = NoCharge
                         => extras[i].stage \in unestablished'
      BY <2>5 DEF Books, Extras, Aged
    <3> QED BY <3>1, <3>2, <3>3, <3>4, <3>5 DEF Extras
  <2>9. Bypassed'
    <3>1. BoundEstablished' => BoundEstablished /\ priced
      BY <2>1 DEF BoundEstablished, Unbounded
    <3>2. /\ extraSpent \in [Providers -> Nat] /\ extraKnown \in [Providers -> Nat]
          /\ sequence > 0 /\ BoundEstablished
                => \A p \in Providers : extraSpent[p] = extraKnown[p]
      BY DEF TypeOK, Books, Bypassed
    <3> QED BY <2>1, <2>6, <3>1, <3>2 DEF Bypassed
  <2> QED BY <2>6, <2>7, <2>8, <2>9 DEF Books
<1> QED BY <1>1, <1>2 DEF Observe

\* The end of the run writes, and changes nothing else the books tell.
LEMMA FinishBooks ==
    ASSUME IInv, Books, Finish
    PROVE  Books'
<1> USE DEF IInv, Control
<1>1. /\ pc \in {"body", "stop"} /\ Claimant
      /\ UNCHANGED <<used, position, extras, extraKnown, extraSpent, attempts,
                     unestablished, coverageViolated>>
      /\ \/ UNCHANGED <<sequence, disk>>
         \/ \E w \in Writes : Journal("complete", "none", FALSE, w)
         \/ \E w \in Writes : Journal("stopped", "none", FALSE, w)
  <2>1. CASE BodyRaises
    BY <2>1 DEF BodyRaises, object, Claimant
  <2>2. CASE BodyReturns
    BY <2>2 DEF BodyReturns, Claimant
  <2>3. CASE Stop
    BY <2>3 DEF Stop, Claimant
  <2> QED BY <2>1, <2>2, <2>3 DEF Finish
<1>2. Owned' /\ sequence > 0 /\ Grows
  <2>1. CASE UNCHANGED <<sequence, disk>>
    BY <1>1, <2>1, OwnerWaits DEF Books
  <2>2. ASSUME NEW w \in Writes, Journal("complete", "none", FALSE, w)
        PROVE  Owned' /\ sequence > 0 /\ Grows
    BY <1>1, <2>2, OwnerWrites DEF Books, Kinds
  <2>3. ASSUME NEW w \in Writes, Journal("stopped", "none", FALSE, w)
        PROVE  Owned' /\ sequence > 0 /\ Grows
    BY <1>1, <2>3, OwnerWrites DEF Books, Kinds
  <2> QED BY <1>1, <2>1, <2>2, <2>3
<1>3. Steady
  BY <1>1, <1>2 DEF Steady, SameAttempts, Aged
<1> QED BY <1>3, SteadyKeeps

\* A new object has no books.
LEMMA NewObjectBooks ==
    ASSUME NewObject
    PROVE  Books'
<1>1. \A s \in StageNames :
         ~attempts'[s].made /\ ~attempts'[s].settled /\ attempts'[s].charge = NoCharge
  BY AttemptShape DEF NewObject
<1>2. /\ sequence' = 0 /\ position' = 0 /\ extras' = <<>>
      /\ \A p \in Providers : extraKnown'[p] = 0
  BY DEF NewObject
<1>3. Chronicle'
  BY <1>1, <1>2, Ranks DEF Chronicle
<1>4. Charges'
  BY <1>1, Stages DEF Charges, ChargeOver, NoCharge
<1>5. Extras' /\ Bypassed' /\ Owned'
  BY <1>1, <1>2 DEF Extras, Bypassed, Owned
<1> QED BY <1>3, <1>4, <1>5 DEF Books

\* Every step of the policy keeps its books.
LEMMA NextBooks == IInv /\ Books /\ [Next]_vars => Books'
<1> SUFFICES ASSUME IInv, Books, [Next]_vars PROVE Books'
  OBVIOUS
<1>1. CASE Die \/ Restart
  BY <1>1, NewObjectBooks DEF Die, Restart
<1>2. CASE UNCHANGED vars
  <2>1. UNCHANGED <<position, extras, extraKnown, extraSpent, attempts,
                    unestablished, coverageViolated, sequence, disk, used>>
    BY <1>2 DEF vars, object
  <2>2. Owned'
    BY <2>1 DEF Books, Owned
  <2>3. Steady
    BY <2>1, <2>2 DEF Steady, SameAttempts, Aged, Grows
  <2> QED BY <2>3, SteadyKeeps
<1> QED BY <1>1, <1>2, PrepareBooks, InvokeBooks, HooksBooks, ReturnBooks,
           ObserveBooks, FinishBooks DEF Next, Run
-----------------------------------------------------------------------------
(* What the journal says of overruns *)

\* No overrun is in the journal of an object whose coverage is not violated.
Overruns == sequence > 0 =>
    \A i \in DOMAIN disk : disk[i].overrun => coverageViolated

\* A step that writes nothing and withdraws no mark.
Unwritten == /\ UNCHANGED disk
             /\ sequence' > 0 => sequence > 0
             /\ coverageViolated => coverageViolated'

\* A step of the claimant that writes one record and marks what it says.
WritesMarked ==
    \E kind \in Kinds, s \in StageNames \cup {"none"}, over \in BOOLEAN, w \in Writes :
       /\ Journal(kind, s, over, w)
       /\ coverageViolated \/ over => coverageViolated'
       /\ sequence > 0 \/ disk = <<>>

\* Either kind of step keeps the journal and the coverage together.
LEMMA MarkedKeeps ==
    ASSUME TypeOK, Overruns, Unwritten \/ WritesMarked
    PROVE  Overruns'
<1>1. CASE Unwritten
  BY <1>1 DEF Unwritten, Overruns
<1>2. CASE WritesMarked
  <2>1. PICK kind \in Kinds, s \in StageNames \cup {"none"}, over \in BOOLEAN,
             w \in Writes :
           /\ Journal(kind, s, over, w)
           /\ coverageViolated \/ over => coverageViolated'
           /\ sequence > 0 \/ disk = <<>>
    BY <1>2 DEF WritesMarked
  <2> DEFINE e == [ordinal |-> sequence + 1, kind |-> kind, stage |-> s,
                   overrun |-> over, file |-> w.file]
  <2>2. /\ e.overrun = over
        /\ disk' = Append(disk, e) /\ disk \in Seq(JournalRecords)
    BY <2>1 DEF Journal, TypeOK
  <2> HIDE DEF e
  <2>3. \A i \in DOMAIN disk' : \/ i \in DOMAIN disk /\ disk'[i] = disk[i]
                                \/ disk'[i] = e
    BY <2>2
  <2>4. \A i \in DOMAIN disk : disk[i].overrun => coverageViolated'
    BY <2>1 DEF Overruns
  <2> QED BY <2>1, <2>2, <2>3, <2>4 DEF Overruns
<1> QED BY <1>1, <1>2

\* The claim is the first record, and says nothing of usage.
LEMMA PrepareMarks ==
    ASSUME IInv, Prepare
    PROVE  Unwritten \/ WritesMarked
<1> USE DEF IInv, Control
<1>1. CASE BindClients \/ ActivateRefused \/ ActivateStops
  BY <1>1 DEF BindClients, ActivateRefused, ActivateStops, object, Unwritten
<1>2. CASE ActivateClaims
  <2>1. PICK w \in Writes : Journal("claim", "none", FALSE, w)
    BY <1>2 DEF ActivateClaims
  <2>2. disk = <<>> /\ coverageViolated' = coverageViolated
    BY <1>2 DEF ActivateClaims, Creatable, Phases
  <2> QED BY <2>1, <2>2 DEF WritesMarked, Kinds
<1> QED BY <1>1, <1>2 DEF Prepare

\* An attempt says nothing of usage, and a blocked send neither.
LEMMA CallMarks ==
    ASSUME IInv, Invoke \/ Hooks
    PROVE  Unwritten \/ WritesMarked
<1> USE DEF IInv, Control
<1>1. CASE Invoke
  <2>1. PICK t \in StageNames : InvokeRefused(t) \/ InvokeBegins(t)
    BY <1>1 DEF Invoke
  <2>2. CASE InvokeRefused(t)
    BY <2>2 DEF InvokeRefused, object, Unwritten
  <2>3. CASE InvokeBegins(t)
    <3>1. PICK w \in Writes : Journal("attempt", t, FALSE, w)
      BY <2>3 DEF InvokeBegins
    <3>2. sequence > 0 /\ coverageViolated' = coverageViolated
      BY <2>3 DEF InvokeBegins, Phases, Claimant
    <3> QED BY <3>1, <3>2 DEF WritesMarked, Kinds
  <2> QED BY <2>1, <2>2, <2>3
<1>2. CASE ParametersHook \/ SendRefused \/ SendMisdirected \/ SendApproved
  BY <1>2 DEF ParametersHook, SendRefused, SendMisdirected, SendApproved, Unwritten
<1>3. CASE SendBlocked
  <2>1. PICK w \in Writes : Journal("blocked-send", permit.stage, FALSE, w)
    BY <1>3 DEF SendBlocked
  <2>2. /\ sequence > 0 /\ permit.stage \in StageNames
        /\ coverageViolated' = coverageViolated
    BY <1>3 DEF SendBlocked, Phases, Permits, Claimant
  <2> QED BY <2>1, <2>2 DEF WritesMarked, Kinds
<1> QED BY <1>1, <1>2, <1>3 DEF Hooks

\* A usage record says overrun exactly when its settlement marked it.
LEMMA ReturnMarks ==
    ASSUME IInv, Return
    PROVE  Unwritten \/ WritesMarked
<1> USE DEF IInv, Control
<1>1. CASE CallRaises \/ ReturnRejected \/ ReturnObject
  BY <1>1 DEF CallRaises, ReturnRejected, ReturnObject, Unwritten
<1>2. CASE ReturnUsage
  <2>1. PICK noRetry \in BOOLEAN, overTokens \in BOOLEAN, w \in Writes :
           /\ Settle(permit.stage, spent[permit.stage], CountValid(noRetry),
                     overTokens \/ spent[permit.stage] > Amount[permit.stage])
           /\ Journal("usage", permit.stage,
                     overTokens \/ spent[permit.stage] > Amount[permit.stage], w)
    BY <1>2 DEF ReturnUsage
  <2>2. PICK over \in BOOLEAN :
           over = (overTokens \/ spent[permit.stage] > Amount[permit.stage])
    OBVIOUS
  <2>3. Journal("usage", permit.stage, over, w)
    BY <2>1, <2>2
  <2>4. coverageViolated' = (coverageViolated \/ over)
    BY <2>1, <2>2 DEF Settle
  <2>5. sequence > 0 /\ permit.stage \in StageNames
    BY <1>2, Stages DEF ReturnUsage, Phases, Claimant
  <2> QED BY <2>3, <2>4, <2>5 DEF WritesMarked, Kinds
<1> QED BY <1>1, <1>2 DEF Return

\* Neither an observation nor the end of a run says anything of usage.
LEMMA RestMarks ==
    ASSUME IInv, Observe \/ Finish \/ UNCHANGED vars
    PROVE  Unwritten \/ WritesMarked
<1> USE DEF IInv, Control
<1>1. CASE RecordUnidentified \/ BodyRaises \/ UNCHANGED vars
  BY <1>1 DEF RecordUnidentified, BodyRaises, vars, object, Unwritten
<1>2. ASSUME NEW e \in Evidence, NEW s \in ModelStages, NEW delivery, NEW priced,
             RecordExtra(e, s, delivery, priced)
      PROVE  WritesMarked
  <2>1. PICK c \in ExtraCost, w \in Writes :
           /\ coverageViolated' = (coverageViolated \/ Unauthorized(priced, c))
           /\ Journal("extra-request", s, FALSE, w)
    BY <1>2 DEF RecordExtra
  <2>2. sequence > 0 /\ s \in StageNames
    BY <1>2, Stages DEF RecordExtra, Phases, Claimant
  <2> QED BY <2>1, <2>2 DEF WritesMarked, Kinds
<1>3. CASE BodyReturns \/ Stop
  <2>1. /\ sequence > 0 /\ coverageViolated' = coverageViolated
        /\ \/ UNCHANGED <<sequence, disk>>
           \/ \E w \in Writes : Journal("complete", "none", FALSE, w)
           \/ \E w \in Writes : Journal("stopped", "none", FALSE, w)
    BY <1>3 DEF BodyReturns, Stop, Phases, Claimant
  <2> QED BY <2>1 DEF Unwritten, WritesMarked, Kinds
<1> QED BY <1>1, <1>2, <1>3 DEF Observe, Finish

\* Every step of the policy keeps its overruns marked.
LEMMA NextOverruns == IInv /\ Overruns /\ [Next]_vars => Overruns'
<1> SUFFICES ASSUME IInv, Overruns, [Next]_vars PROVE Overruns'
  OBVIOUS
<1>1. TypeOK
  BY DEF IInv, Control
<1>2. CASE Die \/ Restart
  BY <1>2 DEF Die, Restart, NewObject, Overruns
<1>3. CASE Run \/ UNCHANGED vars
  <2>1. Unwritten \/ WritesMarked
    BY <1>3, PrepareMarks, CallMarks, ReturnMarks, RestMarks DEF Run
  <2> QED BY <1>1, <2>1, MarkedKeeps
<1> QED BY <1>2, <1>3 DEF Next
-----------------------------------------------------------------------------
(* The handler: its inductive invariant *)

\* Where the handler is, and the policy with it.
Places ==
    /\ phase \in Running \cup {"returned", "refused", "lost"}
    /\ status \in Verdict /\ reply \in Codes \cup HandlerCodes
    /\ answer \in BOOLEAN /\ compact \in BOOLEAN /\ events \in 0..MaxEvents
    /\ phase \in {"entry", "run"} =>
          /\ status = "STOPPED" /\ reply = "CLIENT_INITIALIZATION_FAILED"
          /\ ~answer
    /\ phase \in Running => ~compact
    /\ phase = "entry" => pc = "new"

\* What inspect_handler asks of the status, the code and the result.
Consistent ==
    /\ status = "STRUCTURAL_SUCCESS" <=> reply = "NONE"
    /\ status = "STRUCTURAL_SUCCESS" <=> answer
    /\ compact => status = "UNCERTAIN" /\ reply = "RESULT_TOO_LARGE" /\ events = 0
    /\ StatusConsistent /\ SuccessConsistent

\* The answer is consistent from the moment the policy is left.
Answered == phase \in {"close", "snapshot", "bound", "returned"} => Consistent

\* An answer that is not uncertain read back its whole journal; none carries
\* the events of an object that holds no journal.
ReadBack ==
    /\ phase \in {"bound", "returned"} /\ status # "UNCERTAIN" /\ used
          => Readable /\ events = sequence
    /\ events > 0 => phase \in {"bound", "returned"} /\ sequence > 0

HInv == IInv /\ Books /\ Overruns /\ Places /\ Answered /\ ReadBack
-----------------------------------------------------------------------------
(* The steps of the handler *)

\* The operator's derivation of uncertainty is the handler's, in every state.
LEMMA SameDoubt ==
    \A c : Uncertainty(c) <=> Uncertain(c)
BY Stages DEF Uncertainty, Uncertain, UncertainCodes, BoundEstablished, HeldAttempt

\* An object that has not begun, or holds no journal, leaves no doubt.
LEMMA Untouched ==
    ASSUME IInv, Books, pc = "new"
    PROVE  /\ BoundEstablished /\ ~HeldAttempt
           /\ \A s \in StageNames : ~attempts[s].made
<1>1. sequence = 0 /\ ~halted
  BY DEF IInv, Control, Phases
<1>2. unestablished = {} /\ \A s \in StageNames : ~attempts[s].made
  BY <1>1 DEF IInv, Control, Phases, Books, Owned
<1> QED BY <1>2, Stages DEF BoundEstablished, HeldAttempt

\* What the policy's state says does not move while the handler ends.
LEMMA PolicyRests ==
    ASSUME UNCHANGED vars
    PROVE  /\ \A c : Uncertainty(c)' <=> Uncertainty(c)
           /\ SuccessConsistent' <=> (status' = "STRUCTURAL_SUCCESS" =>
                 /\ \A s \in StageNames : attempts[s].made
                 /\ CeilingEstablished /\ Coverage = "WITHIN_RECORDED_RESERVATIONS"
                 /\ extras = <<>>)
           /\ Readable' <=> Readable
<1> USE DEF vars, object
<1>1. \A c : Uncertainty(c)' <=> Uncertainty(c)
  BY DEF Uncertainty
<1>2. CeilingEstablished' <=> CeilingEstablished
  BY DEF CeilingEstablished, BoundEstablished, WithinCaps
<1>3. Coverage' = Coverage
  BY DEF Coverage, BoundEstablished
<1>4. Readable' <=> Readable
  BY DEF Readable
<1> QED BY <1>1, <1>2, <1>3, <1>4 DEF SuccessConsistent

\* A result made uncertain by the handler's own failures is consistent.
LEMMA Spoiled ==
    ASSUME status' = "UNCERTAIN", ~answer',
           \/ /\ reply' \in {"CLIENT_CLOSE_FAILED", "LOCAL_EVIDENCE_UNAVAILABLE"}
              /\ ~compact'
           \/ reply' = "RESULT_TOO_LARGE" /\ compact' /\ events' = 0
    PROVE  Consistent'
<1>1. StatusConsistent'
  BY DEF StatusConsistent, Codes
<1> QED BY <1>1 DEF Consistent, SuccessConsistent

\* So is a stop without doubt, and a stop with the doubt the handler found.
LEMMA Doubted ==
    ASSUME UNCHANGED vars, ~answer', ~compact', NEW c, reply' = c,
           \/ /\ c \in {"CLIENT_INITIALIZATION_FAILED", "CLIENT_FACTORY_INVALID",
                        "LOCAL_EXECUTION_UNAVAILABLE", "RESULT_INVALID",
                        "RESULT_TOO_LARGE"}
              /\ status' = "STOPPED" /\ BoundEstablished /\ ~HeldAttempt
              /\ c = "LOCAL_EXECUTION_UNAVAILABLE"
                    => \A s \in StageNames : ~attempts[s].made
           \/ /\ c \in (Codes \ {"NONE", "REQUEST_INVALID"}) \cup {"SMOKE_STOPPED"}
              /\ status' = IF Uncertain(c) THEN "UNCERTAIN" ELSE "STOPPED"
    PROVE  Consistent'
<1>1. Uncertainty(c)' <=> Uncertain(c)
  BY SameDoubt, PolicyRests
<1>2. Uncertainty(reply)' <=> Uncertain(c)
  <2>1. Uncertainty(reply)' <=> Uncertainty(c)'
    BY DEF Uncertainty
  <2> QED BY <1>1, <2>1
<1>3. CASE /\ c \in (Codes \ {"NONE", "REQUEST_INVALID"}) \cup {"SMOKE_STOPPED"}
           /\ status' = IF Uncertain(c) THEN "UNCERTAIN" ELSE "STOPPED"
  <2>1. StatusConsistent'
    BY <1>2, <1>3 DEF StatusConsistent, Codes
  <2> QED BY <1>3, <2>1 DEF Consistent, SuccessConsistent, Codes
<1>4. CASE /\ c \in {"CLIENT_INITIALIZATION_FAILED", "CLIENT_FACTORY_INVALID",
                     "LOCAL_EXECUTION_UNAVAILABLE", "RESULT_INVALID",
                     "RESULT_TOO_LARGE"}
           /\ status' = "STOPPED" /\ BoundEstablished /\ ~HeldAttempt
           /\ c = "LOCAL_EXECUTION_UNAVAILABLE"
                 => \A s \in StageNames : ~attempts[s].made
  <2>1. ~Uncertain(c)
    BY <1>4 DEF Uncertain, UncertainCodes
  <2>2. attempts' = attempts
    BY DEF vars, object
  <2>3. StatusConsistent'
    BY <1>2, <1>4, <2>1, <2>2 DEF StatusConsistent, Codes
  <2> QED BY <1>4, <2>3 DEF Consistent, SuccessConsistent
<1> QED BY <1>3, <1>4

\* A completed policy is one the operator calls a success.
LEMMA Completed ==
    ASSUME IInv, Books, pc = "done", code = "NONE"
    PROVE  /\ BoundEstablished /\ ~HeldAttempt
           /\ \A s \in StageNames : attempts[s].made
           /\ CeilingEstablished /\ Coverage = "WITHIN_RECORDED_RESERVATIONS"
           /\ extras = <<>>
<1> USE DEF IInv, Control, Accounts
<1>1. position = 5 /\ unestablished = {} /\ ~coverageViolated /\ extras = <<>>
  BY DEF Phases
<1>2. \A s \in StageNames : Rank(s) < position
  BY <1>1, Ranks
<1>3. \A s \in StageNames : attempts[s].made
  BY <1>2 DEF Books, Chronicle
<1>4. ~HeldAttempt
  BY <1>2, Stages DEF HeldAttempt, Ledger
<1>5. BoundEstablished /\ CeilingEstablished /\ Coverage = "WITHIN_RECORDED_RESERVATIONS"
  BY <1>1 DEF CeilingEstablished, CeilingSound, BoundEstablished, Coverage
<1> QED BY <1>1, <1>3, <1>4, <1>5

\* A step of the handler that leaves the policy alone keeps what is proved of
\* the policy.
LEMMA PolicyKeeps ==
    ASSUME IInv, Books, Overruns, UNCHANGED vars
    PROVE  IInv' /\ Books' /\ Overruns'
BY NextIInv, NextBooks, NextOverruns

\* Until the policy is left there is nothing to answer.
LEMMA BeforeSteps ==
    ASSUME HInv, EnvelopeRefused \/ FactoryBuilds
    PROVE  HInv'
<1>1. IInv' /\ Books' /\ Overruns'
  BY PolicyKeeps DEF HInv, EnvelopeRefused, FactoryBuilds
<1>2. UNCHANGED <<vars, status, reply, answer, compact, events>>
      /\ phase = "entry" /\ phase' \in {"refused", "run"}
  BY DEF EnvelopeRefused, FactoryBuilds
<1>3. Places'
  BY <1>2 DEF HInv, Places, Running
<1>4. Answered' /\ ReadBack'
  BY <1>2 DEF HInv, Answered, ReadBack
<1> QED BY <1>1, <1>3, <1>4 DEF HInv

\* Without clients or without the orchestrator the policy was never begun.
LEMMA UnbegunSteps ==
    ASSUME HInv, FactoryFails \/ ImportFails
    PROVE  HInv'
<1> USE DEF HInv
<1>1. IInv' /\ Books' /\ Overruns'
  BY PolicyKeeps DEF FactoryFails, ImportFails
<1>2. /\ UNCHANGED <<vars, answer, compact, events>>
      /\ phase \in {"entry", "run"} /\ phase' = "close" /\ pc = "new"
      /\ reply' \in {"CLIENT_INITIALIZATION_FAILED", "CLIENT_FACTORY_INVALID",
                     "LOCAL_EXECUTION_UNAVAILABLE"}
  BY DEF FactoryFails, ImportFails, Places
<1>3. /\ BoundEstablished /\ ~HeldAttempt
      /\ \A s \in StageNames : ~attempts[s].made
  BY <1>2, Untouched
<1>4. status' = "STOPPED"
  BY <1>2, <1>3 DEF FactoryFails, ImportFails, Places
<1>5. ~answer /\ ~compact
  BY <1>2 DEF Places, Running
<1>6. Places'
  BY <1>2, <1>4, <1>5 DEF Places, Running, Verdict, HandlerCodes
<1>7. Consistent'
  BY <1>2, <1>3, <1>4, <1>5, Doubted
<1>8. ReadBack'
  BY <1>2 DEF ReadBack
<1> QED BY <1>1, <1>6, <1>7, <1>8 DEF Answered

\* While the policy runs the handler waits.
LEMMA PolicyRunsStep ==
    ASSUME HInv, PolicyRuns
    PROVE  HInv'
<1>1. IInv' /\ Books' /\ Overruns'
  <2>1. [Next]_vars
    BY DEF PolicyRuns, Next, Run, Prepare
  <2> QED BY <2>1, NextIInv, NextBooks, NextOverruns DEF HInv
<1>2. UNCHANGED local /\ phase = "run"
  BY DEF PolicyRuns
<1>3. Places' /\ Answered' /\ ReadBack'
  BY <1>2 DEF HInv, Places, Answered, ReadBack, local
<1> QED BY <1>1, <1>3 DEF HInv

\* A stop is answered with the code and the doubt it left.
LEMMA PolicyStoppedStep ==
    ASSUME HInv, PolicyStopped
    PROVE  HInv'
<1> USE DEF HInv
<1>1. IInv' /\ Books' /\ Overruns'
  BY PolicyKeeps DEF PolicyStopped
<1>2. /\ UNCHANGED <<vars, answer, compact, events>>
      /\ phase = "run" /\ phase' = "close" /\ reply' = Listed(code)
      /\ status' = (IF Uncertain(Listed(code)) THEN "UNCERTAIN" ELSE "STOPPED")
      /\ code \in Codes \ {"NONE"}
  BY DEF PolicyStopped, IInv, Control, TypeOK
<1>3. reply' \in (Codes \ {"NONE", "REQUEST_INVALID"}) \cup {"SMOKE_STOPPED"}
  BY <1>2 DEF Listed
<1>4. ~answer /\ ~compact
  BY <1>2 DEF Places, Running
<1>5. Places'
  BY <1>2, <1>3, <1>4 DEF Places, Running, Verdict, HandlerCodes
<1>6. Consistent'
  <2>1. PICK c : c = Listed(code)
    OBVIOUS
  <2>2. /\ reply' = c /\ c \in (Codes \ {"NONE", "REQUEST_INVALID"}) \cup {"SMOKE_STOPPED"}
        /\ status' = (IF Uncertain(c) THEN "UNCERTAIN" ELSE "STOPPED")
    BY <1>2, <1>3, <2>1
  <2> QED BY <1>2, <1>4, <2>2, Doubted
<1>7. ReadBack'
  BY <1>2 DEF ReadBack
<1> QED BY <1>1, <1>5, <1>6, <1>7 DEF Answered

\* A completed run is answered with its result, or without one and no doubt.
LEMMA PolicyCompletedStep ==
    ASSUME HInv, PolicyCompleted
    PROVE  HInv'
<1> USE DEF HInv
<1>1. IInv' /\ Books' /\ Overruns'
  BY PolicyKeeps DEF PolicyCompleted
<1>2. /\ UNCHANGED <<vars, compact, events>>
      /\ phase = "run" /\ phase' = "close" /\ pc = "done" /\ code = "NONE"
      /\ \/ status' = "STRUCTURAL_SUCCESS" /\ reply' = "NONE" /\ answer' = TRUE
         \/ /\ reply' \in {"RESULT_INVALID", "RESULT_TOO_LARGE"}
            /\ UNCHANGED <<status, answer>>
  BY DEF PolicyCompleted
<1>3. ~answer /\ ~compact /\ status = "STOPPED"
  BY <1>2 DEF Places, Running
<1>4. Places'
  BY <1>2, <1>3 DEF Places, Running, Verdict, HandlerCodes, Codes
<1>5. /\ BoundEstablished /\ ~HeldAttempt
      /\ \A s \in StageNames : attempts[s].made
      /\ CeilingEstablished /\ Coverage = "WITHIN_RECORDED_RESERVATIONS"
      /\ extras = <<>>
  BY <1>2, Completed
<1>6. SuccessConsistent'
  BY <1>2, <1>5, PolicyRests
<1>7. Consistent'
  <2>1. CASE status' = "STRUCTURAL_SUCCESS" /\ reply' = "NONE" /\ answer' = TRUE
    <3>1. ~Uncertainty("NONE")
      BY <1>5, SameDoubt DEF Uncertain, UncertainCodes
    <3>2. ~Uncertainty("NONE")'
      BY <1>2, <3>1, PolicyRests
    <3>3. ~Uncertainty(reply)'
      BY <2>1, <3>2 DEF Uncertainty
    <3>4. StatusConsistent'
      BY <2>1, <3>3 DEF StatusConsistent
    <3> QED BY <1>2, <1>3, <1>6, <2>1, <3>4 DEF Consistent
  <2>2. CASE reply' \in {"RESULT_INVALID", "RESULT_TOO_LARGE"}
             /\ UNCHANGED <<status, answer>>
    BY <1>2, <1>3, <1>5, <2>2, Doubted
  <2> QED BY <1>2, <2>1, <2>2
<1>8. ReadBack'
  BY <1>2 DEF ReadBack
<1> QED BY <1>1, <1>4, <1>7, <1>8 DEF Answered

\* What was consistent stays so while neither the policy nor the answer moves.
LEMMA ConsistentKeeps ==
    ASSUME Consistent, UNCHANGED <<vars, status, reply, answer, compact>>,
           compact => events' = events
    PROVE  Consistent'
<1>1. Uncertainty(reply)' <=> Uncertainty(reply)
  <2>1. PICK c : c = reply
    OBVIOUS
  <2>2. Uncertainty(c)' <=> Uncertainty(c)
    BY PolicyRests
  <2> QED BY <2>1, <2>2 DEF Uncertainty
<1>2. attempts' = attempts
  BY DEF vars, object
<1>3. StatusConsistent'
  BY <1>1, <1>2 DEF Consistent, StatusConsistent
<1>4. SuccessConsistent'
  BY PolicyRests DEF Consistent, SuccessConsistent
<1> QED BY <1>3, <1>4 DEF Consistent

\* Closing keeps the answer, or makes it uncertain.
LEMMA CloseStep ==
    ASSUME HInv, Close
    PROVE  HInv'
<1> USE DEF HInv
<1>1. IInv' /\ Books' /\ Overruns'
  BY PolicyKeeps DEF Close
<1>2. /\ UNCHANGED <<vars, compact, events>>
      /\ phase = "close" /\ phase' = "snapshot"
      /\ \/ UNCHANGED <<status, reply, answer>>
         \/ /\ status' = "UNCERTAIN" /\ reply' = "CLIENT_CLOSE_FAILED"
            /\ ~answer' /\ answer' \in BOOLEAN
  BY DEF Close
<1>3. Consistent /\ ~compact
  BY <1>2 DEF Answered, Places, Running
<1>4. Places'
  BY <1>2, <1>3 DEF Places, Running, Verdict, HandlerCodes
<1>5. Consistent'
  <2>1. CASE UNCHANGED <<status, reply, answer>>
    BY <1>2, <1>3, <2>1, ConsistentKeeps
  <2>2. CASE status' = "UNCERTAIN" /\ reply' = "CLIENT_CLOSE_FAILED" /\ ~answer'
    BY <1>2, <1>3, <2>2, Spoiled
  <2> QED BY <1>2, <2>1, <2>2
<1>6. ReadBack'
  BY <1>2 DEF ReadBack
<1> QED BY <1>1, <1>4, <1>5, <1>6 DEF Answered

\* The snapshot reads the whole journal back, or makes the answer uncertain.
LEMMA SnapshotStep ==
    ASSUME HInv, Snapshot
    PROVE  HInv'
<1> USE DEF HInv
<1>1. IInv' /\ Books' /\ Overruns'
  BY PolicyKeeps DEF Snapshot
<1>2. /\ UNCHANGED <<vars, compact>>
      /\ phase = "snapshot" /\ phase' = "bound"
      /\ \/ /\ used => Readable
            /\ events' = IF used THEN sequence ELSE 0
            /\ UNCHANGED <<status, reply, answer>>
         \/ /\ status' = "UNCERTAIN" /\ reply' = "LOCAL_EVIDENCE_UNAVAILABLE"
            /\ ~answer' /\ answer' \in BOOLEAN /\ events' = 0
  BY DEF Snapshot
<1>3. Consistent /\ ~compact /\ 0 \in 0..MaxEvents /\ sequence \in Nat
  BY <1>2, MaxEventsAssumption DEF Answered, Places, Running, IInv, Control, TypeOK
<1>4. CASE /\ used => Readable
           /\ events' = IF used THEN sequence ELSE 0
           /\ UNCHANGED <<status, reply, answer>>
  <2>1. events' \in 0..MaxEvents
    BY <1>3, <1>4, MaxEventsAssumption DEF Readable
  <2>2. Places'
    BY <1>2, <1>3, <1>4, <2>1 DEF Places, Running
  <2>3. Consistent'
    BY <1>2, <1>3, <1>4, ConsistentKeeps
  <2>4. ReadBack'
    <3>1. Readable' <=> Readable
      BY <1>2, PolicyRests
    <3>2. used' = used /\ sequence' = sequence
      BY <1>2 DEF vars, object
    <3> QED BY <1>2, <1>3, <1>4, <3>1, <3>2 DEF ReadBack
  <2> QED BY <1>1, <2>2, <2>3, <2>4 DEF Answered
<1>5. CASE /\ status' = "UNCERTAIN" /\ reply' = "LOCAL_EVIDENCE_UNAVAILABLE"
           /\ ~answer' /\ answer' \in BOOLEAN /\ events' = 0
  <2>1. Places'
    BY <1>2, <1>3, <1>5 DEF Places, Running, Verdict, HandlerCodes
  <2>2. Consistent'
    BY <1>2, <1>3, <1>5, Spoiled
  <2>3. ReadBack'
    BY <1>5 DEF ReadBack
  <2> QED BY <1>1, <2>1, <2>2, <2>3 DEF Answered
<1> QED BY <1>2, <1>4, <1>5

\* The response is sent as it is, or in the compact form that is uncertain.
LEMMA RespondStep ==
    ASSUME HInv, Respond
    PROVE  HInv'
<1> USE DEF HInv
<1>1. IInv' /\ Books' /\ Overruns'
  BY PolicyKeeps DEF Respond
<1>2. /\ UNCHANGED vars /\ phase = "bound" /\ phase' = "returned"
      /\ \/ UNCHANGED <<status, reply, answer, compact, events>>
         \/ /\ status' = "UNCERTAIN" /\ reply' = "RESULT_TOO_LARGE"
            /\ ~answer' /\ answer' \in BOOLEAN
            /\ compact' /\ compact' \in BOOLEAN /\ events' = 0
  BY DEF Respond
<1>3. Consistent /\ 0 \in 0..MaxEvents
  BY <1>2, MaxEventsAssumption DEF Answered
<1>4. CASE UNCHANGED <<status, reply, answer, compact, events>>
  <2>1. Places'
    BY <1>2, <1>4 DEF Places, Running
  <2>2. Consistent'
    BY <1>2, <1>3, <1>4, ConsistentKeeps
  <2>3. ReadBack'
    <3>1. Readable' <=> Readable
      BY <1>2, PolicyRests
    <3>2. used' = used /\ sequence' = sequence
      BY <1>2 DEF vars, object
    <3> QED BY <1>2, <1>4, <3>1, <3>2 DEF ReadBack
  <2> QED BY <1>1, <2>1, <2>2, <2>3 DEF Answered
<1>5. CASE /\ status' = "UNCERTAIN" /\ reply' = "RESULT_TOO_LARGE"
           /\ ~answer' /\ answer' \in BOOLEAN
           /\ compact' /\ compact' \in BOOLEAN /\ events' = 0
  <2>1. Places'
    BY <1>2, <1>3, <1>5 DEF Places, Running, Verdict, HandlerCodes
  <2>2. Consistent'
    BY <1>5, Spoiled
  <2>3. ReadBack'
    BY <1>5 DEF ReadBack
  <2> QED BY <1>1, <2>1, <2>2, <2>3 DEF Answered
<1> QED BY <1>2, <1>4, <1>5

\* A lost invocation leaves no answer, and the next one starts afresh.
LEMMA AfreshSteps ==
    ASSUME HInv, Lost \/ InvokedAgain
    PROVE  HInv'
<1> USE DEF HInv
<1>1. /\ NewObject /\ code' = "NONE"
      /\ UNCHANGED <<claimed, disk, sent, spent, extraSpent>>
      /\ \/ Fresh("lost") /\ pc' = "dead"
         \/ Fresh("entry") /\ pc' = "new"
  BY DEF Lost, InvokedAgain
<1>2. runs' \in 1..MaxRuns
  BY MaxRunsAssumption DEF Lost, InvokedAgain, IInv, Control, TypeOK
<1>3. IInv' /\ Books' /\ Overruns'
  <2>1. Overruns'
    BY <1>1 DEF NewObject, Overruns
  <2> QED BY <1>1, <1>2, <2>1, NewObjectStep, NewObjectBooks
<1>4. Places'
  <2>1. /\ phase' \in {"lost", "entry"} /\ (phase' = "entry" => pc' = "new")
        /\ status' = "STOPPED" /\ reply' = "CLIENT_INITIALIZATION_FAILED"
        /\ answer' = FALSE /\ compact' = FALSE /\ events' = 0
    BY <1>1 DEF Fresh
  <2>2. 0 \in 0..MaxEvents
    BY MaxEventsAssumption
  <2> QED BY <2>1, <2>2 DEF Places, Running, Verdict, HandlerCodes
<1>5. Answered' /\ ReadBack'
  BY <1>1 DEF Answered, ReadBack, Fresh
<1> QED BY <1>3, <1>4, <1>5

\* Every step of the handler preserves its invariant.
LEMMA HandlerNextInv == HInv /\ [HandlerNext]_hvars => HInv'
<1> SUFFICES ASSUME HInv, [HandlerNext]_hvars PROVE HInv'
  OBVIOUS
<1>1. CASE UNCHANGED hvars
  <2>1. UNCHANGED <<vars, phase, status, reply, answer, compact, events>>
    BY <1>1 DEF hvars, local
  <2>2. IInv' /\ Books' /\ Overruns'
    BY <2>1, PolicyKeeps DEF HInv
  <2>3. Places'
    BY <2>1 DEF HInv, Places, vars
  <2>4. Answered'
    BY <2>1, ConsistentKeeps DEF HInv, Answered
  <2>5. ReadBack'
    <3>1. Readable' <=> Readable
      BY <2>1, PolicyRests
    <3>2. used' = used /\ sequence' = sequence
      BY <2>1 DEF vars, object
    <3> QED BY <2>1, <3>1, <3>2 DEF HInv, ReadBack
  <2> QED BY <2>2, <2>3, <2>4, <2>5 DEF HInv
<1> QED BY <1>1, BeforeSteps, UnbegunSteps, PolicyRunsStep, PolicyStoppedStep,
           PolicyCompletedStep, CloseStep, SnapshotStep, RespondStep, AfreshSteps
        DEF HandlerNext

\* The handler's invariant holds in every reachable state.
LEMMA HandlerInductive == HandlerSpec => []HInv
<1>1. HandlerInit => HInv
  <2> SUFFICES ASSUME HandlerInit PROVE HInv
    OBVIOUS
  <2>1. IInv
    BY InitIInv DEF HandlerInit
  <2>2. Books /\ Overruns
    <3> USE DEF HandlerInit, Init, FreshObject
    <3>1. \A s \in StageNames :
             ~attempts[s].made /\ ~attempts[s].settled /\ attempts[s].charge = NoCharge
      BY AttemptShape
    <3>2. Chronicle
      BY <3>1, Ranks DEF Chronicle
    <3>3. Charges
      BY <3>1, Stages DEF Charges, ChargeOver, NoCharge
    <3>4. Extras /\ Bypassed /\ Owned
      BY <3>1 DEF Extras, Bypassed, Owned
    <3>5. Overruns
      BY DEF Overruns
    <3> QED BY <3>2, <3>3, <3>4, <3>5 DEF Books
  <2>3. Places
    <3>1. /\ phase = "entry" /\ pc = "new"
          /\ status = "STOPPED" /\ reply = "CLIENT_INITIALIZATION_FAILED"
          /\ answer = FALSE /\ compact = FALSE /\ events = 0
      BY DEF HandlerInit, Init
    <3>2. 0 \in 0..MaxEvents
      BY MaxEventsAssumption
    <3> QED BY <3>1, <3>2 DEF Places, Running, Verdict, HandlerCodes
  <2>4. Answered /\ ReadBack
    BY DEF HandlerInit, Answered, ReadBack
  <2> QED BY <2>1, <2>2, <2>3, <2>4 DEF HInv
<1> QED BY <1>1, HandlerNextInv, PTL DEF HandlerSpec
-----------------------------------------------------------------------------
(* What the response says *)

\* The operator accepts every response a handler with a policy can return,
\* for every reservation, ceiling, cost, observation and number of
\* invocations over one /tmp.
THEOREM InspectorAcceptsHolds == HandlerSpec => []InspectorAccepts
<1>1. HInv => InspectorAccepts
  <2> SUFFICES ASSUME HInv, phase = "returned" PROVE InspectHandler
    BY DEF InspectorAccepts
  <2> USE DEF HInv, IInv, Control, Accounts
  <2>1. Consistent
    BY DEF Answered
  <2>2. AttemptsConsistent
    <3> SUFFICES ASSUME NEW s \in StageNames, attempts[s].made
                 PROVE  /\ attempts[s].hold = IF attempts[s].settled \/ s \in S3Stages
                                              THEN 0 ELSE Amount[s]
                        /\ attempts[s].settled => /\ s \in ModelStages
                                                  /\ attempts[s].charge # NoCharge
                        /\ attempts[s].charge # NoCharge /\ ~attempts[s].settled
                              => s \in unestablished
                        /\ ChargeOver(s) => Coverage = "VIOLATED"
      BY DEF AttemptsConsistent
    <3>1. sequence > 0
      BY DEF Books, Owned, TypeOK
    <3>2. attempts[s].settled \in BOOLEAN
      BY AttemptShape DEF TypeOK
    <3>3. attempts[s].hold = IF attempts[s].settled \/ s \in S3Stages
                             THEN 0 ELSE Amount[s]
      BY <3>2 DEF Ledger, Reservation
    <3>4. attempts[s].settled => s \in ModelStages /\ attempts[s].charge # NoCharge
      BY <3>1, Stages DEF Ledger, Bills
    <3>5. /\ attempts[s].charge # NoCharge /\ ~attempts[s].settled => s \in unestablished
          /\ ChargeOver(s) => Coverage = "VIOLATED"
      BY DEF Books, Charges, Coverage
    <3> QED BY <3>3, <3>4, <3>5
  <2>3. ExtrasConsistent
    BY DEF Books, Extras, ExtrasConsistent, Coverage
  <2>4. TotalsConsistent
    BY DEF TotalsConsistent, Coverage, BoundEstablished, CeilingEstablished
  <2>5. HoldsConsistent
    <3>1. \A s \in StageNames : ListedHold(s) = Hold(s)
      <4>1. \A s \in StageNames : ~attempts[s].made => attempts[s].hold = 0
        BY DEF Ledger
      <4> QED BY <4>1 DEF ListedHold, Hold
    <3> QED BY <3>1 DEF HoldsConsistent, Holds, StageNames
  <2>6. OverrunsConsistent
    <3> SUFFICES ASSUME NEW i \in DOMAIN disk, disk[i].ordinal <= events,
                        disk[i].overrun
                 PROVE  Coverage = "VIOLATED"
      BY DEF OverrunsConsistent
    <3>1. events > 0
      BY DEF JournalNumbered, Places, TypeOK
    <3>2. sequence > 0
      BY <3>1 DEF ReadBack
    <3> QED BY <3>2 DEF Overruns, Coverage
  <2> QED BY <2>1, <2>2, <2>3, <2>4, <2>5, <2>6 DEF Consistent, InspectHandler
<1> QED BY <1>1, HandlerInductive, PTL

\* A response that is not uncertain leaves no doubt about money: nothing is
\* held, and what is known is to the unit what the providers will bill.
THEOREM CertainIsExactHolds == HandlerSpec => []CertainIsExact
<1>1. HInv => CertainIsExact
  <2> SUFFICES ASSUME HInv, phase = "returned", status # "UNCERTAIN", sequence > 0,
                      NEW p \in Providers
               PROVE  Holds(p) = 0 /\ Spend(p) = Known(p)
    BY DEF CertainIsExact
  <2> USE DEF HInv, IInv, Control, Accounts
  <2>1. ~Uncertainty(reply)
    BY DEF Answered, Consistent, StatusConsistent
  <2>2. BoundEstablished /\ \A s \in ModelStages : attempts[s].made => attempts[s].settled
    BY <2>1, Stages DEF Uncertainty, BoundEstablished
  <2>3. \A s \in ModelStages : Hold(s) = 0 /\ Charge(s) = spent[s] /\ spent[s] \in Nat
    <3> SUFFICES ASSUME NEW s \in ModelStages
                 PROVE  Hold(s) = 0 /\ Charge(s) = spent[s] /\ spent[s] \in Nat
      OBVIOUS
    <3>1. spent[s] \in Nat /\ s \in StageNames
      BY Stages DEF TypeOK
    <3>2. CASE attempts[s].made
      BY <2>2, <3>1, <3>2, Stages DEF Ledger, Bills, Hold, Charge
    <3>3. CASE ~attempts[s].made
      BY <3>1, <3>3 DEF Ledger, Bills, Hold, Charge
    <3> QED BY <3>1, <3>2, <3>3
  <2>4. extraSpent[p] = extraKnown[p] /\ extraSpent[p] \in Nat
    BY <2>2 DEF Books, Bypassed, TypeOK
  <2> QED BY <2>3, <2>4 DEF Holds, Spend, Known, ModelStages
<1> QED BY <1>1, HandlerInductive, PTL

\* A response that is not uncertain comes with the journal of everything it
\* did, each attempt and each settlement readable in it.
THEOREM EvidenceNamesAttemptsHolds == HandlerSpec => []EvidenceNamesAttempts
<1>1. HInv => EvidenceNamesAttempts
  <2> SUFFICES ASSUME HInv PROVE EvidenceNamesAttempts
    OBVIOUS
  <2> USE DEF HInv, IInv, Control, Accounts
  <2>1. HandlerTypeOK
    BY DEF HandlerTypeOK, Places
  <2>2. ASSUME phase = "returned", status # "UNCERTAIN", NEW s \in StageNames
        PROVE  /\ attempts[s].made => OnDisk("attempt", s) /\ events > 0
               /\ attempts[s].settled => OnDisk("usage", s)
    <3>1. attempts[s].settled => attempts[s].made
      BY DEF Ledger
    <3> SUFFICES ASSUME attempts[s].made
                 PROVE  /\ OnDisk("attempt", s) /\ events > 0
                        /\ attempts[s].settled => OnDisk("usage", s)
      BY <3>1
    <3>2. sequence > 0 /\ sequence = Len(disk) /\ used
      BY DEF Books, Owned, TypeOK
    <3>3. Readable /\ events > 0
      BY <2>2, <3>2 DEF ReadBack
    <3>4. \A i \in DOMAIN disk : disk[i].file = "whole"
      <4> SUFFICES ASSUME NEW i \in DOMAIN disk PROVE disk[i].file = "whole"
        OBVIOUS
      <4>1. i \in 1..sequence
        BY <3>2 DEF TypeOK
      <4>2. PICK j \in DOMAIN disk : disk[j].ordinal = i /\ disk[j].file = "whole"
        BY <3>3, <4>1 DEF Readable
      <4>3. j = i
        BY <4>2 DEF JournalNumbered
      <4> QED BY <4>2, <4>3
    <3>5. ASSUME NEW kind, Written(kind, s) PROVE OnDisk(kind, s)
      BY <3>4, <3>5 DEF Written, OnDisk
    <3> QED BY <3>3, <3>5 DEF Books, Chronicle
  <2> QED BY <2>1, <2>2 DEF EvidenceNamesAttempts
<1> QED BY <1>1, HandlerInductive, PTL
====
