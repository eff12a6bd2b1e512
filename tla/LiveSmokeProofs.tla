-------------------------- MODULE LiveSmokeProofs --------------------------
(***************************************************************************)
(* Proofs about LiveSmoke, for every set of processes, number of cases,    *)
(* reservation, greatest bill and caps.                                    *)
(***************************************************************************)
EXTENDS LiveSmoke, TLAPS

-----------------------------------------------------------------------------
(* The inductive invariant *)

\* One process at most made the directory; every other one did nothing but
\* start and stop.
Alone ==
    /\ \A r, q \in claimed : r = q
    /\ \A r \in claimed : pc[r] # "start"
    /\ \A r \in Runs : pc[r] \notin {"start", "raised", "dead"} => r \in claimed

\* How many of the calls 1..c are p's.
Taken(p, c) == IF p = "typesafe" THEN (c + 1) \div 2 ELSE c \div 2

\* The money p's calls so far may have taken, by the plan.
WithinPlan(p) == account[p].committed + account[p].reserved
                 <= account[p].requests * Reservation[p]

Exact(p) == account[p].committed = billed[p] /\ account[p].reserved = 0

\* The last reply is known to have cost more than was reserved for it.
Overran == reply.known /\ reply.cost > Reservation[Provider]

Before == {"open"} \cup Configuring
Holding == {"announce", "dispatch", "wired", "settle"}
Settled == {"complete", "verify"}

\* Before the loop nothing happened.
Untouched(w) == w \in Before =>
    /\ position = 1 /\ ~active /\ announced = {} /\ completed = {}
    /\ \A p \in Providers : account[p].requests = 0 /\ Exact(p) /\ billed[p] = 0

\* Between two calls nothing is in hand and the ledger is the bill.
Between == ~active /\ \A p \in Providers :
    Exact(p) /\ WithinPlan(p) /\ account[p].requests = Taken(p, position - 1)

\* During a call its reservation is in hand.
InCall(w) == active /\ \A p \in Providers :
    /\ account[p].requests = Taken(p, position) /\ WithinPlan(p)
    /\ account[p].reserved = IF p = Provider THEN Reservation[p] ELSE 0
    /\ w # "settle" \/ p # Provider => account[p].committed = billed[p]

\* A call that was answered, and what is known of its bill.
Answered ==
    /\ billed[Provider] <= account[Provider].committed + MaxBill[Provider]
    /\ reply.known => billed[Provider] = account[Provider].committed + reply.cost

\* A call that was settled: only its own provider's books may be off.
AfterCall == ~active /\ \A p \in Providers :
    /\ account[p].requests = Taken(p, position)
    /\ account[p].reserved = 0
    /\ p # Provider \/ reply.known => Exact(p)
    /\ p # Provider \/ ~Overran => WithinPlan(p)

\* The ledger and the bill, by the place w of the process that has the claim.
Books(w) ==
    /\ w = "next" => Between
    /\ w \in Holding => InCall(w)
    /\ w = "settle" => Answered
    /\ w \in Settled => AfterCall

\* The calls of the schedule: those before the position left once and have
\* their two lines, those after it have neither.
Track(w) ==
    /\ \A c \in Calls : /\ c < position => sent[c] = 1 /\ c \in completed
                        /\ c > position => sent[c] = 0
                        /\ sent[c] <= 1
                        /\ sent[c] > 0 => c \in announced
    /\ completed \subseteq announced
    /\ \A c \in announced : c <= position
    /\ w \in Holding \cup Settled => position \in Calls
    /\ w \in Before \cup {"next", "announce", "dispatch"} /\ position \in Calls
          => sent[position] = 0
    /\ w = "dispatch" => permit.wires = 0
    /\ w \in {"wired", "settle"} \cup Settled => sent[position] = permit.wires
    /\ w \in {"dispatch", "wired", "settle"} \cup Settled => position \in announced
    /\ w = "verify" => position \in completed

\* What the run says of itself.
Verdict(w) ==
    /\ w \in InLoop => PlanWithinCaps
    /\ w \in Before \cup InLoop => status = "STOPPED" /\ code = "none"
    /\ code # "budget"
    /\ status = "COMPLETED" => /\ position = 2 * Cases + 1 /\ code = "none"
                               /\ \A p \in Providers : Exact(p)
    /\ w \in Before \cup InLoop \cup {"close", "ending"} => ending = "none"
    /\ w \in {"report", "returned"} => ending = Closing
    /\ w # "returned" => result = "none"
    /\ w = "returned" => result = status

Facts(w) == Untouched(w) /\ Books(w) /\ Track(w) /\ Verdict(w)

\* A directory nobody made is one nothing was written to.
IInv ==
    /\ TypeOK /\ Alone /\ BillCovered
    /\ claimed = {} => Facts("open")
    /\ \A r \in claimed : Facts(pc[r])
-----------------------------------------------------------------------------
(* Facts about the constants and the helpers *)

\* Amounts are natural numbers and a bill is never bounded below its
\* reservation.
LEMMA Money == \A p \in Providers :
    /\ Reservation[p] \in Nat /\ Reservation[p] > 0 /\ MaxBill[p] \in Nat
    /\ Reservation[p] <= MaxBill[p] /\ Caps[p] \in Nat
BY MoneyAssumption DEF Providers

\* Each call is the next one of exactly one provider, and no provider has more
\* than one for each case.
LEMMA Turns ==
    ASSUME NEW c \in Calls
    PROVE  /\ ProviderOf(c) \in Providers
           /\ \A p \in Providers :
                 /\ Taken(p, c - 1) \in Nat
                 /\ Taken(p, c) = Taken(p, c - 1) + (IF p = ProviderOf(c) THEN 1 ELSE 0)
           /\ Taken(ProviderOf(c), c - 1) < Cases
           /\ \A p \in Providers : Taken(p, c - 1) <= Cases
<1>1. c \in Int /\ c >= 1 /\ c <= 2 * Cases /\ Cases \in Nat
  BY RunsAssumption DEF Calls
<1>2. PICK h \in Int : c = 2 * h \/ c = 2 * h + 1
  <2>1. c \div 2 \in Int /\ (c = 2 * (c \div 2) \/ c = 2 * (c \div 2) + 1)
    BY <1>1
  <2> QED BY <2>1
<1>3. CASE c = 2 * h
  <2>1. c % 2 = 0 /\ c \div 2 = h /\ (c + 1) \div 2 = h /\ (c - 1) \div 2 = h - 1
        /\ (c - 1) + 1 = c
    BY <1>1, <1>3
  <2> QED BY <2>1, <1>1, <1>3 DEF Taken, ProviderOf, Providers
<1>4. CASE c = 2 * h + 1
  <2>1. c % 2 = 1 /\ c \div 2 = h /\ (c + 1) \div 2 = h + 1 /\ (c - 1) \div 2 = h
        /\ (c - 1) + 1 = c
    BY <1>1, <1>4
  <2> QED BY <2>1, <1>1, <1>4 DEF Taken, ProviderOf, Providers
<1> QED BY <1>2, <1>3, <1>4

\* The products of the plan: taking less often costs less.
LEMMA Scale ==
    ASSUME NEW n \in Nat, NEW m \in Nat, NEW k \in Nat, n <= m
    PROVE  n * k <= m * k /\ (n + 1) * k = n * k + k /\ n * k \in Nat
BY Z3

\* Whoever is past the claim and has not stopped owns the run.
LEMMA Owner ==
    ASSUME IInv, NEW r \in Runs, pc[r] \notin {"start", "raised", "dead"}
    PROVE  /\ r \in claimed /\ claimed = {r} /\ Facts(pc[r])
           /\ \A S : At(S) <=> pc[r] \in S
<1>1. r \in claimed
  BY DEF IInv, Alone
<1>2. claimed = {r}
  BY <1>1 DEF IInv, Alone
<1> QED BY <1>1, <1>2 DEF IInv, At

\* What has to be shown of a step of the owner to a place w.
LEMMA Handover ==
    ASSUME IInv, NEW r \in claimed, NEW w, w # "start", GoTo(r, w), UNCHANGED claimed,
           TypeOK', BillCovered', Facts(w)'
    PROVE  IInv'
<1>1. claimed \subseteq Runs /\ pc \in [Runs -> {"start", "open"} \cup Configuring
                                          \cup InLoop \cup Ending \cup Stopped]
  BY DEF IInv, TypeOK
<1>2. pc'[r] = w /\ \A q \in Runs : q # r => pc'[q] = pc[q]
  BY <1>1 DEF GoTo
<1>3. claimed = {r}
  BY DEF IInv, Alone
<1>4. Alone'
  BY <1>1, <1>2, <1>3 DEF IInv, Alone
<1>5. \A q \in claimed' : Facts(pc[q])'
  BY <1>2, <1>3
<1> QED BY <1>3, <1>4, <1>5 DEF IInv
-----------------------------------------------------------------------------
(* Types *)

\* pc stays a place when a process moves to one.
LEMMA Moves ==
    ASSUME TypeOK, NEW r \in Runs, NEW w, GoTo(r, w),
           w \in {"start", "open"} \cup Configuring \cup InLoop \cup Ending \cup Stopped
    PROVE  pc' \in [Runs -> {"start", "open"} \cup Configuring \cup InLoop
                            \cup Ending \cup Stopped]
BY DEF TypeOK, GoTo

Account == [requests : Nat, committed : Nat, reserved : Int]
Accounts == [Providers -> Account]

\* Setting a field of one provider's account leaves accounts.
LEMMA AccountSets ==
    ASSUME NEW a \in Accounts, NEW p \in Providers, NEW n \in Nat, NEW i \in Int
    PROVE  /\ [a EXCEPT ![p].reserved = i] \in Accounts
           /\ [a EXCEPT ![p].committed = n] \in Accounts
           /\ [a EXCEPT ![p].requests = n] \in Accounts
BY DEF Accounts, Account

\* Setting two does.
LEMMA AccountPairs ==
    ASSUME NEW a \in Accounts, NEW p \in Providers, NEW n \in Nat, NEW i \in Int
    PROVE  /\ [a EXCEPT ![p].reserved = i, ![p].committed = n] \in Accounts
           /\ [a EXCEPT ![p].requests = n, ![p].reserved = i] \in Accounts
<1>1. [[a EXCEPT ![p].reserved = i] EXCEPT ![p].committed = n] \in Accounts
  BY AccountSets
<1>2. [[a EXCEPT ![p].requests = n] EXCEPT ![p].reserved = i] \in Accounts
  BY AccountSets
<1> QED BY <1>1, <1>2

\* What a settled account holds.
LEMMA SettledValues ==
    ASSUME NEW a \in Accounts, NEW p \in Providers, NEW charge \in Nat
    PROVE  /\ SettledAt(a, p, charge) \in Accounts
           /\ \A q \in Providers :
                 /\ SettledAt(a, p, charge)[q].requests = a[q].requests
                 /\ SettledAt(a, p, charge)[q].committed
                    = a[q].committed + (IF p = q THEN charge ELSE 0)
                 /\ SettledAt(a, p, charge)[q].reserved
                    = a[q].reserved - (IF p = q THEN Reservation[p] ELSE 0)
<1>1. a[p].committed + charge \in Nat /\ a[p].reserved - Reservation[p] \in Int
  BY Money DEF Accounts, Account
<1>2. SettledAt(a, p, charge) \in Accounts
  BY <1>1, AccountPairs DEF SettledAt
<1>3. \A q \in Providers :
         /\ SettledAt(a, p, charge)[q].requests = a[q].requests
         /\ SettledAt(a, p, charge)[q].committed
            = a[q].committed + (IF p = q THEN charge ELSE 0)
         /\ SettledAt(a, p, charge)[q].reserved
            = a[q].reserved - (IF p = q THEN Reservation[p] ELSE 0)
  BY Money DEF SettledAt, Accounts, Account
<1> QED BY <1>2, <1>3

\* What an account holds once a reservation is made.
LEMMA HeldValues ==
    ASSUME account \in Accounts, Provider \in Providers
    PROVE  /\ Held \in Accounts
           /\ \A q \in Providers :
                 /\ Held[q].requests = account[q].requests + (IF q = Provider THEN 1 ELSE 0)
                 /\ Held[q].committed = account[q].committed
                 /\ Held[q].reserved
                    = account[q].reserved + (IF q = Provider THEN Reservation[q] ELSE 0)
<1> DEFINE p == Provider
<1>0. p \in Providers
  OBVIOUS
<1> HIDE DEF p
<1>1. account[p].requests + 1 \in Nat /\ account[p].reserved + Reservation[p] \in Int
  BY <1>0, Money DEF Accounts, Account
<1>2. Held \in Accounts
  <2>1. [account EXCEPT ![p].requests = account[p].requests + 1,
                        ![p].reserved = account[p].reserved + Reservation[p]] \in Accounts
    BY <1>0, <1>1, AccountPairs
  <2> QED BY <2>1 DEF Held, p
<1>3. \A q \in Providers :
         /\ Held[q].requests = account[q].requests + (IF q = p THEN 1 ELSE 0)
         /\ Held[q].committed = account[q].committed
         /\ Held[q].reserved = account[q].reserved + (IF q = p THEN Reservation[q] ELSE 0)
  <2>1. Held = [account EXCEPT ![p].requests = @ + 1, ![p].reserved = @ + Reservation[p]]
    BY DEF Held, p
  <2> QED BY <2>1, <1>0, Money DEF Accounts, Account
<1> QED BY <1>2, <1>3 DEF p

\* The types of the fields the proofs use.
LEMMA Fields ==
    ASSUME TypeOK
    PROVE  /\ account \in Accounts
           /\ \A p \in Providers : /\ account[p].requests \in Nat
                                   /\ account[p].committed \in Nat
                                   /\ account[p].reserved \in Int
                                   /\ billed[p] \in Nat
           /\ reply.cost \in Nat /\ reply.known \in BOOLEAN
           /\ position \in Nat /\ position >= 1 /\ position <= 2 * Cases + 1
           /\ Provider \in Providers
           /\ permit.wires \in 0..1
<1>1. account \in Accounts
  BY DEF TypeOK, Accounts, Account
<1>2. Provider \in Providers
  BY DEF Provider, ProviderOf, Providers
<1>3. position \in Nat /\ position >= 1 /\ position <= 2 * Cases + 1
  BY RunsAssumption DEF TypeOK
<1>4. reply.cost \in Nat /\ reply.known \in BOOLEAN /\ permit.wires \in 0..1
  BY DEF TypeOK
<1>5. \A p \in Providers : billed[p] \in Nat
  BY DEF TypeOK
<1>6. \A p \in Providers : /\ account[p].requests \in Nat
                           /\ account[p].committed \in Nat
                           /\ account[p].reserved \in Int
  BY <1>1 DEF Accounts, Account
<1> QED BY <1>1, <1>2, <1>3, <1>4, <1>5, <1>6
-----------------------------------------------------------------------------
(* Steps that touch neither the ledger nor the calls *)

\* Everything the invariant is about, besides who is where.
Matter == <<position, ledger, permit, reply, report, journal, world>>

\* Facts and the cover of the bill read nothing else.
LEMMA Quiet ==
    ASSUME UNCHANGED Matter, NEW w
    PROVE  /\ Facts(w) => Facts(w)'
           /\ BillCovered => BillCovered'
BY DEF Matter, ledger, report, journal, world, Facts, Untouched, Books, Between, InCall,
       Answered, AfterCall, Track, Verdict, BillCovered, Exact, WithinPlan, Overran,
       Provider, Closing

\* A process stops where it is.
LEMMA Halt ==
    ASSUME NEW w, Facts(w), w # "returned"
    PROVE  Facts("dead") /\ Facts("raised")
BY DEF Facts, Untouched, Books, Track, Verdict, Before, Configuring, Holding, Settled, InLoop

\* The places before the loop are alike.
LEMMA Forward ==
    /\ Facts("open") => Facts("begin")
    /\ Facts("begin") => Facts("configure")
    /\ Facts("configure") => Facts("preflight")
BY DEF Facts, Untouched, Books, Track, Verdict, Before, Configuring, Holding, Settled, InLoop

\* Entering the loop, the plan fits the caps and nothing was taken.
LEMMA EnterLoop ==
    ASSUME TypeOK, Facts("preflight"), PlanWithinCaps
    PROVE  Facts("next")
<1>1. Between
  <2>1. position = 1 /\ ~active
        /\ \A p \in Providers : account[p].requests = 0 /\ Exact(p) /\ billed[p] = 0
    BY DEF Facts, Untouched, Before, Configuring
  <2>2. \A p \in Providers : Taken(p, 0) = 0
    BY DEF Taken, Providers
  <2>3. \A p \in Providers : WithinPlan(p)
    BY <2>1, Money, Fields DEF Exact, WithinPlan
  <2> QED BY <2>1, <2>2, <2>3 DEF Between
<1>2. Track("next")
  BY DEF Facts, Track, Before, Configuring, Holding, Settled
<1>3. Verdict("next")
  BY DEF Facts, Verdict, Before, Configuring, InLoop
<1> QED BY <1>1, <1>2, <1>3 DEF Facts, Untouched, Books, Before, Configuring, Holding, Settled

\* A quiet step of the owner keeps the invariant when the facts of its new
\* place hold already.
LEMMA QuietStep ==
    ASSUME IInv, NEW r \in claimed, NEW w, UNCHANGED <<claimed, Matter>>, GoTo(r, w),
           w \in {"open"} \cup Configuring \cup InLoop \cup Ending \cup Stopped,
           opened' \in BOOLEAN, Facts(w)
    PROVE  IInv'
<1>1. TypeOK'
  <2>1. r \in Runs
    BY DEF IInv, TypeOK
  <2>2. pc' \in [Runs -> {"start", "open"} \cup Configuring \cup InLoop
                         \cup Ending \cup Stopped]
    BY <2>1, Moves DEF IInv
  <2> QED BY <2>2 DEF IInv, TypeOK, Matter, ledger, report, journal, world
<1>2. w # "start"
  BY DEF Configuring, InLoop, Ending, Stopped
<1> QED BY <1>1, <1>2, Quiet, Handover DEF IInv

\* Claim and Refuse, by a process that never started.
LEMMA ClaimStep ==
    ASSUME IInv, NEW r \in Runs, Claim(r) \/ Refuse(r)
    PROVE  IInv'
<1>1. UNCHANGED Matter /\ opened' = opened
  BY DEF Claim, Refuse, Matter
<1>2. r \notin claimed /\ pc[r] = "start" /\ claimed \subseteq Runs
  BY DEF IInv, Alone, TypeOK, Claim, Refuse
<1>3. CASE GoTo(r, "open") /\ claimed = {} /\ claimed' = {r}
  <2>1. pc' \in [Runs -> {"start", "open"} \cup Configuring \cup InLoop
                         \cup Ending \cup Stopped]
    BY <1>3, Moves DEF IInv
  <2>2. TypeOK'
    BY <1>1, <1>3, <2>1 DEF IInv, TypeOK, Matter, ledger, report, journal, world
  <2>3. pc'[r] = "open" /\ \A q \in Runs : q # r => pc'[q] = pc[q]
    BY <1>3 DEF GoTo, IInv, TypeOK
  <2>4. Alone'
    BY <1>3, <2>3 DEF IInv, Alone
  <2>5. Facts("open")' /\ BillCovered'
    BY <1>1, <1>3, Quiet DEF IInv
  <2> QED BY <1>3, <2>2, <2>3, <2>4, <2>5 DEF IInv
<1>4. CASE GoTo(r, "raised") /\ UNCHANGED claimed
  <2>1. pc' \in [Runs -> {"start", "open"} \cup Configuring \cup InLoop
                         \cup Ending \cup Stopped]
    BY <1>4, Moves DEF IInv, Stopped
  <2>2. TypeOK'
    BY <1>1, <1>4, <2>1 DEF IInv, TypeOK, Matter, ledger, report, journal, world
  <2>3. pc'[r] = "raised" /\ \A q \in Runs : q # r => pc'[q] = pc[q]
    BY <1>4 DEF GoTo, IInv, TypeOK
  <2>4. Alone'
    BY <1>2, <1>4, <2>3 DEF IInv, Alone
  <2>5. BillCovered' /\ (claimed = {} => Facts("open")')
    BY <1>1, Quiet DEF IInv
  <2>6. \A q \in claimed : Facts(pc[q])'
    <3> TAKE q \in claimed
    <3>1. pc'[q] = pc[q] /\ Facts(pc[q])
      BY <1>2, <2>3 DEF IInv
    <3>2. \A w : Facts(w) => Facts(w)'
      BY <1>1, Quiet
    <3> QED BY <3>1, <3>2
  <2> QED BY <1>4, <2>2, <2>4, <2>5, <2>6 DEF IInv
<1> QED BY <1>3, <1>4 DEF Claim, Refuse

\* The steps up to the loop, and a death where no request is out.
LEMMA QuietSteps ==
    ASSUME IInv, NEW r \in Runs,
           \/ OpenJournal(r) \/ Prepare(r) \/ Preflight(r)
           \/ Die(r) /\ UNCHANGED billed
    PROVE  IInv'
<1>1. CASE OpenJournal(r)
  <2>1. UNCHANGED <<claimed, Matter>> /\ pc[r] = "open" /\ opened' \in BOOLEAN
        /\ (GoTo(r, "begin") \/ GoTo(r, "raised"))
    BY <1>1 DEF OpenJournal, Matter, IInv, TypeOK
  <2>2. r \in claimed /\ Facts("open")
    BY <2>1, Owner
  <2>3. Facts("begin") /\ Facts("raised")
    BY <2>2, Forward, Halt
  <2> QED BY <2>1, <2>2, <2>3, QuietStep DEF Configuring, Stopped
<1>2. CASE Prepare(r)
  <2>1. UNCHANGED <<claimed, opened, Matter>>
        /\ \/ pc[r] = "begin" /\ GoTo(r, "configure")
           \/ pc[r] = "configure" /\ GoTo(r, "preflight")
    BY <1>2 DEF Prepare, Matter
  <2>2. r \in claimed /\ Facts(pc[r])
    BY <2>1, Owner
  <2>3. pc[r] = "begin" => Facts("configure")
    BY <2>2, Forward
  <2>4. pc[r] = "configure" => Facts("preflight")
    BY <2>2, Forward
  <2>5. opened' \in BOOLEAN
    BY <2>1 DEF IInv, TypeOK
  <2> QED BY <2>1, <2>2, <2>3, <2>4, <2>5, QuietStep DEF Configuring
<1>3. CASE Preflight(r)
  <2>1. UNCHANGED <<claimed, opened, Matter>> /\ pc[r] = "preflight" /\ GoTo(r, "next")
        /\ PlanWithinCaps
    BY <1>3 DEF Preflight, Matter
  <2>2. r \in claimed /\ Facts("preflight")
    BY <2>1, Owner
  <2>3. Facts("next")
    BY <2>1, <2>2, EnterLoop DEF IInv
  <2>4. opened' \in BOOLEAN
    BY <2>1 DEF IInv, TypeOK
  <2> QED BY <2>1, <2>2, <2>3, <2>4, QuietStep DEF InLoop
<1>4. CASE Die(r) /\ UNCHANGED billed
  <2>1. UNCHANGED <<claimed, opened, Matter>> /\ pc[r] \notin Stopped /\ GoTo(r, "dead")
    BY <1>4 DEF Die, Matter, report, journal, world
  <2>2. opened' \in BOOLEAN
    BY <2>1 DEF IInv, TypeOK
  <2>3. CASE r \in claimed
    <3>1. Facts(pc[r]) /\ pc[r] # "returned"
      BY <2>1, <2>3 DEF IInv, Stopped
    <3>2. Facts("dead")
      BY <3>1, Halt
    <3> QED BY <2>1, <2>2, <2>3, <3>2, QuietStep DEF Stopped
  <2>4. CASE r \notin claimed
    <3>1. pc' \in [Runs -> {"start", "open"} \cup Configuring \cup InLoop
                           \cup Ending \cup Stopped]
      BY <2>1, Moves DEF IInv, Stopped
    <3>2. TypeOK'
      BY <2>1, <3>1 DEF IInv, TypeOK, Matter, ledger, report, journal, world
    <3>3. pc'[r] = "dead" /\ \A q \in Runs : q # r => pc'[q] = pc[q]
      BY <2>1 DEF GoTo, IInv, TypeOK
    <3>4. Alone'
      BY <2>1, <2>4, <3>3 DEF IInv, Alone, TypeOK
    <3>5. \A w : Facts(w) => Facts(w)'
      BY <2>1, Quiet
    <3>6. BillCovered'
      BY <2>1, Quiet DEF IInv
    <3>7. \A q \in claimed : Facts(pc[q])'
      <4> TAKE q \in claimed
      <4>1. pc'[q] = pc[q] /\ Facts(pc[q])
        BY <2>4, <3>3 DEF IInv, TypeOK
      <4> QED BY <4>1, <3>5
    <3> QED BY <2>1, <3>2, <3>4, <3>5, <3>6, <3>7 DEF IInv
  <2> QED BY <2>3, <2>4
<1> QED BY <1>1, <1>2, <1>3, <1>4
-----------------------------------------------------------------------------
(* Leaving the try *)

\* A stop keeps the invariant when the bill stays covered and the lines of
\* the journal stay behind the calls.
LEMMA Stops ==
    ASSUME IInv, NEW r \in Runs, pc[r] \in Configuring \cup InLoop,
           NEW a \in Accounts, NEW why \in Codes, why # "budget", StopFrom(r, a, why),
           UNCHANGED <<claimed, opened, position, permit, reply, ending, result, sent>>,
           announced' \subseteq Calls, completed' \subseteq Calls,
           billed' \in [Providers -> Nat], BillCovered', Track("close")'
    PROVE  IInv'
<1>1. r \in claimed /\ Facts(pc[r])
  BY Owner DEF Configuring, InLoop
<1>2. TypeOK'
  <2>1. /\ pc' \in [Runs -> {"start", "open"} \cup Configuring \cup InLoop
                            \cup Ending \cup Stopped]
        /\ account' \in Accounts
        /\ active' \in BOOLEAN /\ status' \in {"STOPPED", "COMPLETED"} /\ code' \in Codes
    <3>1. Provider \in Providers /\ Reservation[Provider] \in Nat
      BY Money, Fields DEF IInv
    <3>2. account' \in Accounts
      BY <3>1, SettledValues DEF StopFrom
    <3>3. pc' \in [Runs -> {"start", "open"} \cup Configuring \cup InLoop
                           \cup Ending \cup Stopped]
      <4>1. GoTo(r, "close") /\ "close" \in Ending
        BY DEF StopFrom, Ending
      <4> QED BY <4>1, Moves DEF IInv
    <3> QED BY <3>2, <3>3 DEF StopFrom, IInv, TypeOK
  <2> QED BY <2>1 DEF IInv, TypeOK, Accounts, Account
<1>3. Facts("close")'
  <2>1. Untouched("close")' /\ Books("close")'
    BY DEF Untouched, Books, Before, Configuring, Holding, Settled
  <2>2. Verdict("close")'
    <3>1. pc[r] \in Before \cup InLoop /\ Verdict(pc[r])
      BY <1>1 DEF Before, Facts
    <3>2. status = "STOPPED" /\ ending = "none" /\ result = "none"
      BY <3>1 DEF Verdict, Before, Configuring, InLoop
    <3> QED BY <3>2 DEF Verdict, StopFrom, Before, Configuring, InLoop
  <2> QED BY <2>1, <2>2 DEF Facts
<1> QED BY <1>1, <1>2, <1>3, Handover DEF StopFrom

\* What the stop leaves in the ledger: nothing changes but a reservation in
\* hand, which is charged whole to its provider.
LEMMA StopValues ==
    ASSUME TypeOK, NEW r \in Runs, NEW a \in Accounts, NEW why, StopFrom(r, a, why)
    PROVE  ~active' /\ \A q \in Providers :
               account'[q].committed
               = a[q].committed + (IF active /\ q = Provider THEN Reservation[q] ELSE 0)
<1>1. Provider \in Providers /\ Reservation[Provider] \in Nat
  BY Money, Fields
<1>2. \A q \in Providers : a[q].committed \in Nat
  BY DEF Accounts, Account
<1> QED BY <1>1, <1>2, SettledValues DEF StopFrom

\* The bill is covered after a stop that found what was committed unchanged,
\* when no more than the bill of the call in hand was added to it.
LEMMA StopCovered ==
    ASSUME TypeOK, BillCovered, NEW r \in Runs, NEW a \in Accounts, NEW why,
           StopFrom(r, a, why), UNCHANGED <<position, billed>>,
           \A q \in Providers : a[q].committed = account[q].committed
    PROVE  BillCovered'
<1>1. ~active' /\ \A q \in Providers :
         account'[q].committed
         = account[q].committed + (IF active /\ q = Provider THEN Reservation[q] ELSE 0)
  BY StopValues
<1>2. \A q \in Providers : account[q].committed \in Nat /\ billed[q] \in Nat
  BY Fields
<1> QED BY <1>1, <1>2, Money, Fields DEF BillCovered, Provider

\* Track of a stopped run asks nothing of the permit or of the place.
LEMMA TrackAtStop ==
    ASSUME NEW w, Track(w),
           UNCHANGED <<position, permit, sent, announced, completed>>
    PROVE  Track("close")'
BY DEF Track, Before, Configuring, Holding, Settled

\* Fail and Interrupt where no request is out, and InterruptSettle.
LEMMA PlainStops ==
    ASSUME IInv, NEW r \in Runs,
           \/ Fail(r)
           \/ Interrupt(r) /\ UNCHANGED billed
           \/ InterruptSettle(r)
    PROVE  IInv'
<1>1. /\ pc[r] \in Configuring \cup InLoop
      /\ UNCHANGED <<claimed, opened, position, permit, reply, ending, result, sent,
                     announced, completed, billed>>
  BY DEF Fail, Interrupt, InterruptSettle, journal, world, InLoop
<1>2. TypeOK /\ BillCovered
  BY DEF IInv
<1>3. PICK a \in Accounts, why \in Codes :
         /\ StopFrom(r, a, why) /\ why # "budget"
         /\ \A q \in Providers : a[q].committed = account[q].committed
  <2>1. account \in Accounts
    BY <1>2, Fields
  <2>2. CASE Fail(r) \/ Interrupt(r)
    <3>1. StopFrom(r, account, "configuration") \/ StopFrom(r, account, "interrupted")
      BY <2>2 DEF Fail, Interrupt, Stop
    <3> QED BY <2>1, <3>1 DEF Codes
  <2>3. CASE InterruptSettle(r)
    <3> DEFINE b == [account EXCEPT ![Provider].reserved = @ - Reservation[Provider]]
    <3>1. Provider \in Providers /\ account[Provider].reserved - Reservation[Provider] \in Int
      BY <1>2, Fields, Money
    <3>2. b \in Accounts
      BY <2>1, <3>1, AccountSets
    <3>3. \A q \in Providers : b[q].committed = account[q].committed
      BY <2>1, <3>1 DEF Accounts, Account
    <3>4. StopFrom(r, b, "interrupted")
      BY <2>3 DEF InterruptSettle
    <3> HIDE DEF b
    <3> QED BY <3>2, <3>3, <3>4 DEF Codes
  <2> QED BY <2>2, <2>3
<1>4. BillCovered'
  BY <1>1, <1>2, <1>3, StopCovered
<1>5. r \in claimed /\ Track(pc[r])
  BY <1>1, Owner DEF Configuring, InLoop, Facts
<1>6. Track("close")'
  BY <1>1, <1>5, TrackAtStop
<1>7. announced' \subseteq Calls /\ completed' \subseteq Calls
      /\ billed' \in [Providers -> Nat]
  BY <1>1, <1>2 DEF TypeOK
<1> QED BY <1>1, <1>3, <1>4, <1>6, <1>7, Stops

\* A request that is out and not waited for is billed at most MaxBill, to the
\* provider of the call in hand, whose reservation is kept or charged.
LEMMA UnwatchedBill ==
    ASSUME TypeOK, NEW b \in 0..MaxBill[Provider],
           billed' = [billed EXCEPT ![Provider] = @ + b]
    PROVE  /\ billed' \in [Providers -> Nat]
           /\ \A q \in Providers : billed'[q] = billed[q] + (IF q = Provider THEN b ELSE 0)
           /\ b \in Nat /\ b <= MaxBill[Provider]
<1>1. Provider \in Providers /\ MaxBill[Provider] \in Nat /\ billed[Provider] \in Nat
  BY Fields, Money
<1>2. b \in Nat /\ b <= MaxBill[Provider]
  BY <1>1
<1> QED BY <1>1, <1>2 DEF TypeOK

\* Interrupt while a request is out.
LEMMA InterruptWired ==
    ASSUME IInv, NEW r \in Runs, Interrupt(r), pc[r] = "wired", NEW b \in 0..MaxBill[Provider],
           billed' = [billed EXCEPT ![Provider] = @ + b]
    PROVE  IInv'
<1>1. /\ UNCHANGED <<claimed, opened, position, permit, reply, ending, result, sent,
                     announced, completed>>
      /\ StopFrom(r, account, "interrupted")
  BY DEF Interrupt, journal, Stop
<1>2. TypeOK /\ account \in Accounts /\ Provider \in Providers
  BY Fields DEF IInv
<1>3. r \in claimed /\ Track("wired") /\ Books("wired")
  BY Owner DEF Facts
<1>4. /\ billed' \in [Providers -> Nat] /\ b \in Nat /\ b <= MaxBill[Provider]
      /\ \A q \in Providers : billed'[q] = billed[q] + (IF q = Provider THEN b ELSE 0)
  BY <1>2, UnwatchedBill
<1>5. active /\ \A q \in Providers : account[q].committed = billed[q]
  BY <1>3 DEF Books, InCall, Holding
<1>6. BillCovered'
  <2>1. ~active' /\ \A q \in Providers :
           account'[q].committed
           = account[q].committed + (IF q = Provider THEN Reservation[q] ELSE 0)
    BY <1>1, <1>2, <1>5, StopValues
  <2>2. \A q \in Providers : billed[q] \in Nat
    BY <1>2, Fields
  <2> QED BY <1>2, <1>4, <1>5, <2>1, <2>2, Money DEF BillCovered
<1>7. Track("close")'
  BY <1>1, <1>3, TrackAtStop
<1>8. announced' \subseteq Calls /\ completed' \subseteq Calls
  BY <1>1, <1>2 DEF TypeOK
<1> QED BY <1>1, <1>2, <1>4, <1>6, <1>7, <1>8, Stops DEF InLoop, Codes

\* A death while a request is out.
LEMMA DieWired ==
    ASSUME IInv, NEW r \in Runs, Die(r), pc[r] = "wired", NEW b \in 0..MaxBill[Provider],
           billed' = [billed EXCEPT ![Provider] = @ + b]
    PROVE  IInv'
<1>1. GoTo(r, "dead") /\ UNCHANGED <<claimed, opened, position, account, active, permit,
                                     reply, status, code, result, announced, completed,
                                     ending, sent>>
  BY DEF Die, journal, report, ledger
<1>2. TypeOK /\ Provider \in Providers
  BY Fields DEF IInv
<1>3. r \in claimed /\ Facts("wired")
  BY Owner
<1>4. /\ billed' \in [Providers -> Nat] /\ b \in Nat /\ b <= MaxBill[Provider]
      /\ \A q \in Providers : billed'[q] = billed[q] + (IF q = Provider THEN b ELSE 0)
  BY <1>2, UnwatchedBill
<1>5. active /\ \A q \in Providers : account[q].committed = billed[q] /\ billed[q] \in Nat
  BY <1>2, <1>3, Fields DEF Facts, Books, InCall, Holding
<1>6. BillCovered'
  BY <1>1, <1>2, <1>4, <1>5, Money DEF BillCovered, Provider
<1>7. TypeOK'
  <2>1. pc' \in [Runs -> {"start", "open"} \cup Configuring \cup InLoop
                         \cup Ending \cup Stopped]
    BY <1>1, <1>2, Moves DEF Stopped
  <2> QED BY <1>1, <1>2, <1>4, <2>1 DEF TypeOK
<1>8. Facts("dead")'
  <2>1. Untouched("dead")' /\ Books("dead")'
    BY DEF Untouched, Books, Before, Configuring, Holding, Settled
  <2>2. Track("dead")'
    BY <1>1, <1>3 DEF Facts, Track, Before, Configuring, Holding, Settled
  <2>3. Verdict("dead")'
    BY <1>1, <1>3 DEF Facts, Verdict, Before, Configuring, InLoop
  <2> QED BY <2>1, <2>2, <2>3 DEF Facts
<1> QED BY <1>1, <1>3, <1>6, <1>7, <1>8, Handover
-----------------------------------------------------------------------------
(* One call *)

\* The plan, checked once against the caps, affords every call of the loop.
LEMMA PlanAffords ==
    ASSUME TypeOK, Books("next"), Verdict("next"), position \in Calls
    PROVE  Affordable(Provider)
<1>1. Between /\ PlanWithinCaps
  BY DEF Books, Verdict, InLoop
<1>2. Provider \in Providers /\ Provider = ProviderOf(position)
  BY Fields DEF Provider
<1>3. \A p \in Providers : Taken(p, position - 1) \in Nat /\ Taken(p, position - 1) <= Cases
  BY Turns
<1>4. Taken(Provider, position - 1) < Cases
  BY <1>2, Turns
<1>5. \A p \in Providers : /\ account[p].requests = Taken(p, position - 1)
                           /\ account[p].reserved = 0
                           /\ account[p].committed \in Nat
                           /\ account[p].committed <= account[p].requests * Reservation[p]
  BY <1>1, Fields, <1>3, Money DEF Between, Exact, WithinPlan
<1>6. Cases \in Nat /\ Caps["total"] \in Nat
  BY RunsAssumption, MoneyAssumption
<1>7. \A p \in Providers : account[p].committed <= Cases * Reservation[p]
  <2> TAKE p \in Providers
  <2>1. Taken(p, position - 1) * Reservation[p] <= Cases * Reservation[p]
    BY <1>3, <1>6, Scale, Money
  <2>2. Taken(p, position - 1) * Reservation[p] \in Nat /\ Cases * Reservation[p] \in Nat
    BY <1>3, <1>6, Scale, Money
  <2> QED BY <1>5, <2>1, <2>2
<1>8. account[Provider].committed + Reservation[Provider] <= Cases * Reservation[Provider]
  <2> DEFINE n == Taken(Provider, position - 1)
  <2>1. n \in Nat /\ n + 1 \in Nat /\ n + 1 <= Cases /\ n <= Cases
    BY <1>2, <1>3, <1>4, <1>6
  <2>2. account[Provider].committed <= n * Reservation[Provider]
    BY <1>2, <1>5
  <2> HIDE DEF n
  <2>3. (n + 1) * Reservation[Provider] <= Cases * Reservation[Provider]
    BY <1>2, <1>6, <2>1, Scale, Money
  <2>4. (n + 1) * Reservation[Provider] = n * Reservation[Provider] + Reservation[Provider]
        /\ n * Reservation[Provider] \in Nat
    BY <1>2, <1>6, <2>1, Scale, Money
  <2>5. Cases * Reservation[Provider] \in Nat
    BY <1>2, <1>6, Scale, Money
  <2> QED BY <1>2, <1>5, <2>2, <2>3, <2>4, <2>5, Money
<1>9. account[Provider].requests < Cases
  BY <1>2, <1>4, <1>5
<1>10. account[Provider].committed + account[Provider].reserved + Reservation[Provider]
       <= Caps[Provider]
  <2>1. Cases * Reservation[Provider] <= Caps[Provider]
    BY <1>1, <1>2 DEF PlanWithinCaps
  <2>2. Cases * Reservation[Provider] \in Nat /\ Caps[Provider] \in Nat
    BY <1>2, <1>6, Scale, Money
  <2> QED BY <1>2, <1>5, <1>8, <2>1, <2>2, Money
<1>11. account["typesafe"].committed + account["typesafe"].reserved
       + account["bedrock"].committed + account["bedrock"].reserved
       + Reservation[Provider] <= Caps["total"]
  <2> DEFINE t == Cases * Reservation["typesafe"]
             b == Cases * Reservation["bedrock"]
  <2>1. "typesafe" \in Providers /\ "bedrock" \in Providers
        /\ (Provider = "typesafe" \/ Provider = "bedrock")
    BY <1>2 DEF Providers
  <2>2. t \in Nat /\ b \in Nat
    BY <1>6, <2>1, Scale, Money
  <2>3. Cases * (Reservation["typesafe"] + Reservation["bedrock"]) = t + b
    <3>1. Reservation["typesafe"] \in Nat /\ Reservation["bedrock"] \in Nat
      BY <2>1, Money
    <3> QED BY <1>6, <3>1, Z3
  <2>4. t + b <= Caps["total"]
    BY <1>1, <2>3 DEF PlanWithinCaps
  <2>5. account["typesafe"].committed <= t /\ account["bedrock"].committed <= b
    BY <1>7, <2>1
  <2>6. Provider = "typesafe" => account["typesafe"].committed + Reservation[Provider] <= t
    BY <1>8
  <2>7. Provider = "bedrock" => account["bedrock"].committed + Reservation[Provider] <= b
    BY <1>8
  <2> HIDE DEF t, b
  <2> QED BY <1>2, <1>5, <1>6, <2>1, <2>2, <2>4, <2>5, <2>6, <2>7, Money
<1> QED BY <1>9, <1>10, <1>11 DEF Affordable

\* The reservation is made; one that nobody holds was never to be paid for.
LEMMA ReserveStep ==
    ASSUME IInv, NEW r \in Runs, Reserve(r) \/ InterruptReserve(r)
    PROVE  IInv'
<1>1. /\ pc[r] = "next" /\ position \in Calls
      /\ UNCHANGED <<claimed, opened, position, permit, reply, announced, completed,
                     ending, result, sent, billed>>
  BY DEF Reserve, InterruptReserve, journal, world
<1>2. TypeOK /\ BillCovered /\ account \in Accounts /\ Provider \in Providers
  BY Fields DEF IInv
<1>3. r \in claimed /\ Facts("next")
  BY <1>1, Owner
<1>4. Affordable(Provider)
  BY <1>1, <1>2, <1>3, PlanAffords DEF Facts
<1>5. /\ Held \in Accounts
      /\ \A q \in Providers :
            /\ Held[q].requests = account[q].requests + (IF q = Provider THEN 1 ELSE 0)
            /\ Held[q].committed = account[q].committed
            /\ Held[q].reserved
               = account[q].reserved + (IF q = Provider THEN Reservation[q] ELSE 0)
  BY <1>2, HeldValues
<1>6. CASE Reserve(r)
  <2>1. GoTo(r, "announce") /\ account' = Held /\ active' = TRUE
        /\ UNCHANGED <<status, code>>
    BY <1>4, <1>6 DEF Reserve
  <2>2. TypeOK'
    <3>1. pc' \in [Runs -> {"start", "open"} \cup Configuring \cup InLoop
                           \cup Ending \cup Stopped]
      BY <1>2, <2>1, Moves DEF InLoop
    <3> QED BY <1>1, <1>2, <1>5, <2>1, <3>1 DEF TypeOK, Accounts, Account
  <2>3. Between
    BY <1>3 DEF Facts, Books
  <2>4. InCall("announce")'
    <3>1. \A q \in Providers : account'[q].requests = Taken(q, position)
      BY <1>1, <1>5, <2>1, <2>3, Turns DEF Between, Provider
    <3>2. \A q \in Providers :
             account'[q].reserved = IF q = Provider THEN Reservation[q] ELSE 0
      BY <1>5, <2>1, <2>3, Money DEF Between, Exact
    <3>3. \A q \in Providers : account'[q].committed = billed[q]
      BY <1>5, <2>1, <2>3 DEF Between, Exact
    <3>4. \A q \in Providers : WithinPlan(q)'
      <4> TAKE q \in Providers
      <4>1. account[q].requests \in Nat /\ account[q].committed \in Nat
            /\ Reservation[q] \in Nat /\ account[q].reserved = 0
            /\ account[q].committed <= account[q].requests * Reservation[q]
        BY <1>2, <2>3, Fields, Money DEF Between, Exact, WithinPlan
      <4>2. /\ (account[q].requests + 1) * Reservation[q]
               = account[q].requests * Reservation[q] + Reservation[q]
            /\ account[q].requests * Reservation[q] \in Nat
        BY <4>1, Scale
      <4>3. CASE q = Provider
        <5>1. account'[q].requests = account[q].requests + 1
              /\ account'[q].committed = account[q].committed
              /\ account'[q].reserved = Reservation[q]
          BY <1>5, <2>1, <4>1, <4>3
        <5> QED BY <4>1, <4>2, <5>1 DEF WithinPlan
      <4>4. CASE q # Provider
        <5>1. account'[q].requests = account[q].requests
              /\ account'[q].committed = account[q].committed
              /\ account'[q].reserved = 0
          BY <1>5, <2>1, <4>1, <4>4
        <5> QED BY <4>1, <4>2, <5>1 DEF WithinPlan
      <4> QED BY <4>3, <4>4
    <3> QED BY <1>1, <2>1, <3>1, <3>2, <3>3, <3>4 DEF InCall, Provider
  <2>5. BillCovered'
    BY <1>1, <1>2, <1>5, <2>1, <2>3, Fields, Money
       DEF BillCovered, Between, Exact, Provider
  <2>6. Facts("announce")'
    <3>1. Untouched("announce")' /\ Books("announce")'
      BY <2>4 DEF Untouched, Books, Before, Configuring, Holding, Settled
    <3>2. Track("announce")'
      BY <1>1, <1>3 DEF Facts, Track, Before, Configuring, Holding, Settled
    <3>3. Verdict("announce")'
      BY <1>1, <1>3, <2>1
         DEF Facts, Verdict, Before, Configuring, InLoop, Exact
    <3> QED BY <3>1, <3>2, <3>3 DEF Facts
  <2> QED BY <1>1, <1>3, <2>1, <2>2, <2>5, <2>6, Handover
<1>7. CASE InterruptReserve(r)
  <2>1. StopFrom(r, Held, "interrupted")
    BY <1>7 DEF InterruptReserve
  <2>2. BillCovered'
    BY <1>1, <1>2, <1>5, <2>1, StopCovered
  <2>3. Track("close")'
    BY <1>1, <1>3, TrackAtStop DEF Facts
  <2>4. announced' \subseteq Calls /\ completed' \subseteq Calls
        /\ billed' \in [Providers -> Nat]
    BY <1>1, <1>2 DEF TypeOK
  <2> QED BY <1>1, <1>5, <2>1, <2>2, <2>3, <2>4, Stops DEF InLoop, Codes
<1> QED BY <1>6, <1>7

\* A line that is written for the call in hand stays behind it.
LEMMA AnnouncedTrack ==
    ASSUME TypeOK, Track("announce"), UNCHANGED <<position, sent, completed>>,
           announced' = announced \/ announced' = Announced
    PROVE  /\ Track("close")'
           /\ announced' = Announced /\ permit'.wires = 0 => Track("dispatch")'
           /\ announced' \subseteq Calls
<1>1. position \in Calls /\ sent[position] = 0
  BY DEF Track, Before, Configuring, Holding, Settled
<1>2. announced' \subseteq Calls
  BY <1>1 DEF TypeOK, Announced
<1>3. /\ completed' \subseteq announced'
      /\ \A c \in announced' : c <= position'
      /\ \A c \in Calls : sent[c] > 0 => c \in announced'
  BY <1>1, Fields DEF Track, Announced
<1>4. Track("close")'
  BY <1>1, <1>3 DEF Track, Before, Configuring, Holding, Settled
<1>5. announced' = Announced /\ permit'.wires = 0 => Track("dispatch")'
  BY <1>1, <1>3 DEF Track, Announced, Before, Configuring, Holding, Settled
<1> QED BY <1>2, <1>4, <1>5

\* Announcing: the line is written, or the write fails with the line there or not.
LEMMA AnnounceStep ==
    ASSUME IInv, NEW r \in Runs, Announce(r)
    PROVE  IInv'
<1>1. /\ pc[r] = "announce"
      /\ UNCHANGED <<claimed, opened, position, reply, completed, ending, result, sent, billed>>
  BY DEF Announce, world
<1>2. TypeOK /\ BillCovered /\ account \in Accounts
  BY Fields DEF IInv
<1>3. r \in claimed /\ Facts("announce")
  BY <1>1, Owner
<1>4. CASE /\ announced' = Announced /\ GoTo(r, "dispatch")
           /\ permit' = [Idle EXCEPT !.armed = TRUE]
           /\ UNCHANGED <<ledger, status, code>>
  <2>1. permit' \in [armed : BOOLEAN, dispatches : 0..1, wires : 0..1] /\ permit'.wires = 0
    <3>1. permit' = [armed |-> TRUE, dispatches |-> 0, wires |-> 0]
      BY <1>4 DEF Idle
    <3> QED BY <3>1
  <2>2. Track("dispatch")' /\ announced' \subseteq Calls
    BY <1>1, <1>2, <1>3, <1>4, <2>1, AnnouncedTrack DEF Facts
  <2>3. TypeOK'
    <3>1. pc' \in [Runs -> {"start", "open"} \cup Configuring \cup InLoop
                           \cup Ending \cup Stopped]
      BY <1>2, <1>4, Moves DEF InLoop
    <3> QED BY <1>1, <1>2, <1>4, <2>1, <2>2, <3>1 DEF TypeOK, ledger
  <2>4. BillCovered'
    BY <1>1, <1>2, <1>4 DEF BillCovered, Provider, ledger
  <2>5. InCall("dispatch")'
    BY <1>1, <1>3, <1>4
       DEF Facts, Books, InCall, Holding, Provider, WithinPlan, ledger
  <2>6. Untouched("dispatch")' /\ Books("dispatch")'
    BY <2>5 DEF Untouched, Books, Before, Configuring, Holding, Settled
  <2>7. Verdict("dispatch")'
    BY <1>1, <1>3, <1>4 DEF Facts, Verdict, Before, Configuring, InLoop
  <2> QED BY <1>1, <1>3, <1>4, <2>2, <2>3, <2>4, <2>6, <2>7, Handover DEF Facts
<1>5. CASE /\ announced' \in {announced, Announced} /\ Stop(r, "configuration")
           /\ UNCHANGED permit
  <2>1. Track("close")' /\ announced' \subseteq Calls
    BY <1>1, <1>2, <1>3, <1>5, AnnouncedTrack DEF Facts
  <2>2. StopFrom(r, account, "configuration")
    BY <1>5 DEF Stop
  <2>3. BillCovered'
    BY <1>1, <1>2, <2>2, StopCovered
  <2>4. completed' \subseteq Calls /\ billed' \in [Providers -> Nat]
    BY <1>1, <1>2 DEF TypeOK
  <2> QED BY <1>1, <1>2, <1>5, <2>1, <2>2, <2>3, <2>4, Stops DEF InLoop, Codes
<1> QED BY <1>4, <1>5 DEF Announce

\* The permit counts the dispatch and then the request on the wire.
LEMMA DispatchStep ==
    ASSUME IInv, NEW r \in Runs, Dispatch(r)
    PROVE  IInv'
<1>1. /\ pc[r] = "dispatch" /\ GoTo(r, "wired")
      /\ permit' = [permit EXCEPT !.dispatches = 1]
      /\ UNCHANGED <<claimed, opened, position, account, active, reply, status, code, result,
                     announced, completed, ending, sent, billed>>
  BY DEF Dispatch, ledger, report, journal, world
<1>2. TypeOK /\ BillCovered
  BY DEF IInv
<1>3. r \in claimed /\ Facts("dispatch")
  BY <1>1, Owner
<1>4. permit' \in [armed : BOOLEAN, dispatches : 0..1, wires : 0..1]
      /\ permit'.wires = permit.wires
  BY <1>1, <1>2 DEF TypeOK
<1>5. TypeOK'
  <2>1. pc' \in [Runs -> {"start", "open"} \cup Configuring \cup InLoop
                         \cup Ending \cup Stopped]
    BY <1>1, <1>2, Moves DEF InLoop
  <2> QED BY <1>1, <1>2, <1>4, <2>1 DEF TypeOK
<1>6. BillCovered'
  BY <1>1, <1>2 DEF BillCovered, Provider
<1>7. Facts("wired")'
  <2>1. InCall("wired")'
    BY <1>1, <1>3 DEF Facts, Books, InCall, Holding, Provider, WithinPlan
  <2>2. Untouched("wired")' /\ Books("wired")'
    BY <2>1 DEF Untouched, Books, Before, Configuring, Holding, Settled
  <2>3. Track("wired")'
    BY <1>1, <1>3, <1>4 DEF Facts, Track, Before, Configuring, Holding, Settled
  <2>4. Verdict("wired")'
    BY <1>1, <1>3 DEF Facts, Verdict, Before, Configuring, InLoop
  <2> QED BY <2>2, <2>3, <2>4 DEF Facts
<1> QED BY <1>1, <1>3, <1>5, <1>6, <1>7, Handover

\* The request leaves, the first and only one of its call.
LEMMA WireStep ==
    ASSUME IInv, NEW r \in Runs, Wire(r)
    PROVE  IInv'
<1>1. /\ pc[r] = "wired" /\ pc' = pc /\ permit.wires = 0
      /\ permit' = [permit EXCEPT !.wires = 1]
      /\ sent' = [sent EXCEPT ![position] = @ + 1]
      /\ UNCHANGED <<claimed, opened, position, account, active, reply, status, code, result,
                     announced, completed, ending, billed>>
  BY DEF Wire, Wirable, ledger, report, journal
<1>2. TypeOK /\ BillCovered
  BY DEF IInv
<1>3. r \in claimed /\ Facts("wired")
  BY <1>1, Owner
<1>4. position \in Calls /\ sent[position] = 0
  BY <1>1, <1>3 DEF Facts, Track, Holding
<1>5. /\ sent' \in [Calls -> Nat] /\ sent'[position] = 1
      /\ \A c \in Calls : c # position => sent'[c] = sent[c]
  BY <1>1, <1>2, <1>4 DEF TypeOK
<1>6. permit' \in [armed : BOOLEAN, dispatches : 0..1, wires : 0..1] /\ permit'.wires = 1
  BY <1>1, <1>2 DEF TypeOK
<1>7. TypeOK'
  BY <1>1, <1>2, <1>5, <1>6 DEF TypeOK
<1>8. BillCovered'
  BY <1>1, <1>2 DEF BillCovered, Provider
<1>9. Facts("wired")'
  <2>1. InCall("wired")'
    BY <1>1, <1>3 DEF Facts, Books, InCall, Holding, Provider, WithinPlan
  <2>2. Untouched("wired")' /\ Books("wired")'
    BY <2>1 DEF Untouched, Books, Before, Configuring, Holding, Settled
  <2>3. Track("wired")'
    BY <1>1, <1>2, <1>3, <1>4, <1>5, <1>6, Fields
       DEF Facts, Track, Before, Configuring, Holding, Settled
  <2>4. Verdict("wired")'
    BY <1>1, <1>3 DEF Facts, Verdict, Before, Configuring, InLoop
  <2> QED BY <2>2, <2>3, <2>4 DEF Facts
<1>10. GoTo(r, "wired")
  BY <1>1, <1>2 DEF GoTo, TypeOK
<1> QED BY <1>1, <1>3, <1>7, <1>8, <1>9, <1>10, Handover

ReplyRecords == [outcome : {"none", "model", "low", "parse", "error"}, known : BOOLEAN,
                 cost : Nat, bounded : BOOLEAN, attempts : BOOLEAN, touched : BOOLEAN]

\* A reply is a record, and the cost it knows is what is billed.
LEMMA ReplyShape ==
    ASSUME NEW p \in Providers, NEW b \in 0..MaxBill[p], NEW answer \in Replies(p, b)
    PROVE  /\ answer \in ReplyRecords /\ (answer.known => answer.cost = b)
           /\ b \in Nat /\ b <= MaxBill[p]
<1>1. NoReply \in ReplyRecords /\ ~NoReply.known
  BY DEF NoReply, ReplyRecords
<1>2. b \in Nat /\ b <= MaxBill[p]
  BY Money
<1>3. \A o \in {"model", "low", "parse"}, fits \in BOOLEAN :
         Usage(o, b, fits) \in ReplyRecords /\ Usage(o, b, fits).cost = b
  BY <1>1, <1>2 DEF Usage, ReplyRecords
<1>4. \A o \in {"error", "model"} : NoUsage(o) \in ReplyRecords /\ ~NoUsage(o).known
  BY <1>1 DEF NoUsage, ReplyRecords
<1>5. \/ \E o \in {"model", "low", "parse"}, fits \in BOOLEAN : answer = Usage(o, b, fits)
      \/ \E o \in {"error", "model"} : answer = NoUsage(o)
  BY DEF Replies
<1> QED BY <1>2, <1>3, <1>4, <1>5

\* What route() leaves in the reply and on the bill.
LEMMA Routed ==
    ASSUME TypeOK, NEW r \in Runs, Route(r)
    PROVE  /\ reply' \in ReplyRecords /\ billed' \in [Providers -> Nat]
           /\ \E b \in Nat : /\ b <= MaxBill[Provider] /\ (reply'.known => reply'.cost = b)
                             /\ \A q \in Providers :
                                   billed'[q] = billed[q] + (IF q = Provider THEN b ELSE 0)
<1>0. Provider \in Providers /\ MaxBill[Provider] \in Nat /\ billed \in [Providers -> Nat]
  BY Fields, Money DEF TypeOK
<1>1. PICK attempts, touched \in BOOLEAN :
         IF permit.wires = 1
         THEN \E b \in 0..MaxBill[Provider] : \E answer \in Replies(Provider, b) :
                 /\ reply' = [answer EXCEPT !.attempts = attempts, !.touched = touched]
                 /\ billed' = [billed EXCEPT ![Provider] = @ + b]
         ELSE /\ reply' = [NoReply EXCEPT !.outcome = "error", !.touched = touched]
              /\ UNCHANGED billed
  BY DEF Route
<1>2. CASE permit.wires = 1
  <2>1. PICK b \in 0..MaxBill[Provider] : \E answer \in Replies(Provider, b) :
           /\ reply' = [answer EXCEPT !.attempts = attempts, !.touched = touched]
           /\ billed' = [billed EXCEPT ![Provider] = @ + b]
    BY <1>1, <1>2
  <2>2. PICK answer \in Replies(Provider, b) :
           /\ reply' = [answer EXCEPT !.attempts = attempts, !.touched = touched]
           /\ billed' = [billed EXCEPT ![Provider] = @ + b]
    BY <2>1
  <2>3. /\ answer \in ReplyRecords /\ (answer.known => answer.cost = b)
        /\ b \in Nat /\ b <= MaxBill[Provider]
    BY <1>0, ReplyShape
  <2>4. reply' \in ReplyRecords /\ reply'.known = answer.known /\ reply'.cost = answer.cost
    BY <2>2, <2>3 DEF ReplyRecords
  <2>5. billed' \in [Providers -> Nat] /\ \A q \in Providers :
           billed'[q] = billed[q] + (IF q = Provider THEN b ELSE 0)
    BY <1>0, <2>2, <2>3
  <2> QED BY <2>3, <2>4, <2>5
<1>3. CASE permit.wires # 1
  <2>1. reply' = [outcome |-> "error", known |-> FALSE, cost |-> 0, bounded |-> FALSE,
                  attempts |-> FALSE, touched |-> touched] /\ billed' = billed
    BY <1>1, <1>3 DEF NoReply
  <2>2. reply' \in ReplyRecords /\ reply'.known = FALSE
    BY <2>1 DEF ReplyRecords
  <2>3. 0 \in Nat /\ 0 <= MaxBill[Provider] /\ \A q \in Providers :
           billed'[q] = billed[q] + (IF q = Provider THEN 0 ELSE 0)
    BY <1>0, <2>1
  <2> QED BY <1>0, <2>1, <2>2, <2>3
<1> QED BY <1>2, <1>3

\* The answer of route(), billed at most MaxBill.
LEMMA RouteStep ==
    ASSUME IInv, NEW r \in Runs, Route(r)
    PROVE  IInv'
<1>1. /\ pc[r] = "wired" /\ GoTo(r, "settle")
      /\ UNCHANGED <<claimed, opened, position, account, active, permit, status, code, result,
                     announced, completed, ending, sent>>
  BY DEF Route, ledger, report, journal
<1>2. TypeOK /\ BillCovered /\ Provider \in Providers /\ account \in Accounts
  BY Fields DEF IInv
<1>3. r \in claimed /\ Facts("wired")
  BY <1>1, Owner
<1>4. reply' \in ReplyRecords /\ billed' \in [Providers -> Nat]
  BY <1>2, Routed
<1>5. PICK b \in Nat :
         /\ b <= MaxBill[Provider] /\ (reply'.known => reply'.cost = b)
         /\ \A q \in Providers : billed'[q] = billed[q] + (IF q = Provider THEN b ELSE 0)
  BY <1>2, Routed
<1>6. InCall("wired") /\ active
      /\ \A q \in Providers : account[q].committed = billed[q] /\ billed[q] \in Nat
  BY <1>2, <1>3, Fields DEF Facts, Books, InCall, Holding
<1>7. TypeOK'
  <2>1. pc' \in [Runs -> {"start", "open"} \cup Configuring \cup InLoop
                         \cup Ending \cup Stopped]
    BY <1>1, <1>2, Moves DEF InLoop
  <2> QED BY <1>1, <1>2, <1>4, <2>1 DEF TypeOK, ReplyRecords
<1>8. BillCovered'
  BY <1>1, <1>2, <1>5, <1>6, Money DEF BillCovered, Provider
<1>9. Facts("settle")'
  <2>1. InCall("settle")'
    BY <1>1, <1>2, <1>5, <1>6 DEF InCall, Provider, WithinPlan
  <2>2. Answered'
    BY <1>1, <1>2, <1>5, <1>6, Money DEF Answered, Provider
  <2>3. Untouched("settle")' /\ Books("settle")'
    BY <2>1, <2>2 DEF Untouched, Books, Before, Configuring, Holding, Settled
  <2>4. Track("settle")'
    BY <1>1, <1>3 DEF Facts, Track, Before, Configuring, Holding, Settled
  <2>5. Verdict("settle")'
    BY <1>1, <1>3 DEF Facts, Verdict, Before, Configuring, InLoop
  <2> QED BY <2>3, <2>4, <2>5 DEF Facts
<1> QED BY <1>1, <1>3, <1>7, <1>8, <1>9, Handover

\* The charge replaces the reservation.  A cost that is not known leaves the
\* bill covered, one that is known leaves it exact.
LEMMA SettleStep ==
    ASSUME IInv, NEW r \in Runs, Settle(r)
    PROVE  IInv'
<1> DEFINE charge == IF reply.known THEN reply.cost ELSE Reservation[Provider]
<1>1. /\ pc[r] = "settle" /\ GoTo(r, "complete") /\ ~active'
      /\ account' = SettledAt(account, Provider, charge)
      /\ active' \in BOOLEAN
      /\ UNCHANGED <<claimed, opened, position, permit, reply, status, code, result,
                     announced, completed, ending, sent, billed>>
  BY DEF Settle, report, journal, world
<1>2. TypeOK /\ BillCovered /\ Provider \in Providers /\ account \in Accounts
      /\ charge \in Nat
  BY Fields, Money DEF IInv
<1>3. r \in claimed /\ Facts("settle")
  BY <1>1, Owner
<1> HIDE DEF charge
<1>4. /\ account' \in Accounts
      /\ \A q \in Providers :
            /\ account'[q].requests = account[q].requests
            /\ account'[q].committed
               = account[q].committed + (IF Provider = q THEN charge ELSE 0)
            /\ account'[q].reserved
               = account[q].reserved - (IF Provider = q THEN Reservation[Provider] ELSE 0)
  BY <1>1, <1>2, SettledValues
<1>5. /\ active /\ Answered
      /\ \A q \in Providers :
            /\ account[q].requests = Taken(q, position) /\ WithinPlan(q)
            /\ account[q].reserved = IF q = Provider THEN Reservation[q] ELSE 0
            /\ q # Provider => account[q].committed = billed[q]
            /\ account[q].requests \in Nat /\ account[q].committed \in Nat
            /\ billed[q] \in Nat /\ Reservation[q] \in Nat
  BY <1>2, <1>3, Fields, Money DEF Facts, Books, InCall, Holding
<1>6. TypeOK'
  <2>1. pc' \in [Runs -> {"start", "open"} \cup Configuring \cup InLoop
                         \cup Ending \cup Stopped]
    BY <1>1, <1>2, Moves DEF InLoop
  <2> QED BY <1>1, <1>2, <1>4, <2>1 DEF TypeOK, Accounts, Account
<1>7. \A q \in Providers : account'[q].reserved = 0
  BY <1>2, <1>4, <1>5
<1>8. \A q \in Providers : q # Provider =>
         /\ account'[q].committed = account[q].committed
         /\ account'[q].committed = billed'[q]
  BY <1>1, <1>4, <1>5
<1>9. reply.known => account'[Provider].committed = billed'[Provider]
  BY <1>1, <1>2, <1>4, <1>5 DEF Answered, charge
<1>10. ~reply.known => /\ account'[Provider].committed
                          = account[Provider].committed + Reservation[Provider]
  BY <1>2, <1>4 DEF charge
<1>11. BillCovered'
  <2> SUFFICES ASSUME NEW q \in Providers
               PROVE  billed'[q] <= account'[q].committed + MaxBill[q] - Reservation[q] + 0
    BY <1>1 DEF BillCovered
  <2>1. Reservation[q] <= MaxBill[q] /\ MaxBill[q] \in Nat /\ Reservation[q] \in Nat
        /\ account'[q].committed \in Nat /\ billed'[q] = billed[q] /\ billed[q] \in Nat
    BY <1>1, <1>4, <1>5, Money DEF Accounts, Account
  <2>2. CASE q # Provider \/ reply.known
    BY <1>8, <1>9, <2>1, <2>2
  <2>3. CASE q = Provider /\ ~reply.known
    BY <1>5, <1>10, <2>1, <2>3 DEF Answered
  <2> QED BY <2>2, <2>3
<1>12. AfterCall'
  <2>1. \A q \in Providers : /\ account'[q].requests = Taken(q, position')
                             /\ q # Provider \/ reply.known => Exact(q)'
    BY <1>1, <1>4, <1>5, <1>7, <1>8, <1>9 DEF Exact
  <2>2. \A q \in Providers : q # Provider \/ ~Overran => WithinPlan(q)'
    <3> SUFFICES ASSUME NEW q \in Providers, q # Provider \/ ~Overran
                 PROVE  account'[q].committed + 0 <= account'[q].requests * Reservation[q]
      BY <1>7 DEF WithinPlan
    <3> DEFINE room == account[q].requests * Reservation[q]
    <3>1. room \in Nat /\ account'[q].requests = account[q].requests
      BY <1>4, <1>5, Scale
    <3>2. account[q].committed + account[q].reserved <= room
      BY <1>5 DEF WithinPlan
    <3> HIDE DEF room
    <3>3. CASE q # Provider
      BY <1>5, <1>8, <3>1, <3>2, <3>3 DEF room
    <3>4. CASE q = Provider
      <4>1. charge <= Reservation[Provider]
        BY <1>2, <1>5, <3>4, Fields DEF Overran, charge
      <4>2. account'[q].committed = account[q].committed + charge
            /\ account[q].reserved = Reservation[q]
        BY <1>2, <1>4, <1>5, <3>4
      <4> QED BY <1>2, <1>5, <3>1, <3>2, <3>4, <4>1, <4>2 DEF room
    <3> QED BY <3>3, <3>4
  <2> QED BY <1>1, <1>7, <2>1, <2>2 DEF AfterCall, Provider, Overran
<1>13. Facts("complete")'
  <2>1. Untouched("complete")' /\ Books("complete")'
    BY <1>12 DEF Untouched, Books, Before, Configuring, Holding, Settled
  <2>2. Track("complete")'
    BY <1>1, <1>3 DEF Facts, Track, Before, Configuring, Holding, Settled
  <2>3. Verdict("complete")'
    BY <1>1, <1>3 DEF Facts, Verdict, Before, Configuring, InLoop
  <2> QED BY <2>1, <2>2, <2>3 DEF Facts
<1> QED BY <1>1, <1>3, <1>6, <1>11, <1>13, Handover

\* The outcome's line is written, or is not.
LEMMA CompleteStep ==
    ASSUME IInv, NEW r \in Runs, Complete(r)
    PROVE  IInv'
<1>1. /\ pc[r] = "complete" /\ completed' \in {completed, completed \cup {position}}
      /\ UNCHANGED <<claimed, opened, position, permit, reply, announced, ending, result,
                     sent, billed>>
  BY DEF Complete, world
<1>2. TypeOK /\ BillCovered /\ account \in Accounts
  BY Fields DEF IInv
<1>3. r \in claimed /\ Facts("complete")
  BY <1>1, Owner
<1>4. position \in Calls /\ position \in announced
  BY <1>3 DEF Facts, Track, Settled
<1>5. completed' \subseteq announced' /\ completed' \subseteq Calls /\ announced' \subseteq Calls
      /\ completed \subseteq completed'
  BY <1>1, <1>2, <1>3, <1>4 DEF Facts, Track, TypeOK
<1>6. Track("close")'
  BY <1>1, <1>3, <1>5 DEF Facts, Track, Before, Configuring, Holding, Settled
<1>7. CASE /\ completed' = completed \cup {position} /\ GoTo(r, "verify")
           /\ UNCHANGED <<ledger, status, code>>
  <2>1. TypeOK'
    <3>1. pc' \in [Runs -> {"start", "open"} \cup Configuring \cup InLoop
                           \cup Ending \cup Stopped]
      BY <1>2, <1>7, Moves DEF InLoop
    <3> QED BY <1>1, <1>2, <1>5, <1>7, <3>1 DEF TypeOK, ledger
  <2>2. BillCovered'
    BY <1>1, <1>2, <1>7 DEF BillCovered, Provider, ledger
  <2>3. AfterCall'
    BY <1>1, <1>3, <1>7
       DEF Facts, Books, AfterCall, Settled, Provider, WithinPlan, Exact, Overran, ledger
  <2>4. Untouched("verify")' /\ Books("verify")'
    BY <2>3 DEF Untouched, Books, Before, Configuring, Holding, Settled
  <2>5. Track("verify")'
    BY <1>1, <1>3, <1>5, <1>7 DEF Facts, Track, Before, Configuring, Holding, Settled
  <2>6. Verdict("verify")'
    BY <1>1, <1>3, <1>7 DEF Facts, Verdict, Before, Configuring, InLoop
  <2> QED BY <1>1, <1>3, <1>7, <2>1, <2>2, <2>4, <2>5, <2>6, Handover DEF Facts
<1>8. CASE Stop(r, "configuration")
  <2>1. StopFrom(r, account, "configuration")
    BY <1>8 DEF Stop
  <2>2. BillCovered'
    BY <1>1, <1>2, <2>1, StopCovered
  <2>3. billed' \in [Providers -> Nat]
    BY <1>1, <1>2 DEF TypeOK
  <2> QED BY <1>1, <1>2, <1>5, <1>6, <2>1, <2>2, <2>3, Stops DEF InLoop, Codes
<1> QED BY <1>7, <1>8 DEF Complete

\* A call that passes the three requirements left once and is billed what it
\* was known to cost, within its reservation; any other ends the run.
LEMMA VerifyStep ==
    ASSUME IInv, NEW r \in Runs, Verify(r)
    PROVE  IInv'
<1>1. /\ pc[r] = "verify"
      /\ UNCHANGED <<claimed, opened, reply, result, announced, completed, ending,
                     sent, billed>>
  BY DEF Verify, journal, world
<1>2. TypeOK /\ BillCovered /\ account \in Accounts /\ Provider \in Providers
  BY Fields DEF IInv
<1>3. r \in claimed /\ Facts("verify")
  BY <1>1, Owner
<1>4. AfterCall /\ position \in Calls
  BY <1>3 DEF Facts, Books, Track, Settled
<1>5. CASE /\ Objection = "none" /\ GoTo(r, "next") /\ position' = position + 1
           /\ permit' = Idle /\ UNCHANGED <<ledger, status, code>>
  <2>1. permit.wires = 1 /\ reply.known /\ ~Overran
    <3>1. permit.wires = 1
      BY <1>5 DEF Objection
    <3>2. reply.known /\ ~(reply.cost > Reservation[Provider])
      BY <1>5 DEF Objection
    <3> QED BY <3>1, <3>2 DEF Overran
  <2>2. sent[position] = 1 /\ position \in completed
    BY <1>3, <2>1 DEF Facts, Track, Settled
  <2>3. position' \in 1..(2 * Cases + 1) /\ position' = position + 1 /\ position \in Nat
        /\ position <= 2 * Cases
    BY <1>4, <1>5, RunsAssumption DEF Calls
  <2>4. permit' \in [armed : BOOLEAN, dispatches : 0..1, wires : 0..1]
    BY <1>5 DEF Idle
  <2>5. TypeOK'
    <3>1. pc' \in [Runs -> {"start", "open"} \cup Configuring \cup InLoop
                           \cup Ending \cup Stopped]
      BY <1>2, <1>5, Moves DEF InLoop
    <3> QED BY <1>1, <1>2, <1>5, <2>3, <2>4, <3>1 DEF TypeOK, ledger
  <2>6. Between'
    <3>1. UNCHANGED <<account, active, billed>>
      BY <1>1, <1>5 DEF ledger
    <3>2. \A p \in Providers : Exact(p) /\ WithinPlan(p)
                               /\ account[p].requests = Taken(p, position)
      BY <1>4, <2>1 DEF AfterCall
    <3>3. position' - 1 = position
      BY <2>3
    <3> QED BY <1>4, <3>1, <3>2, <3>3 DEF Between, AfterCall, Exact, WithinPlan
  <2>7. BillCovered'
    <3>1. ~active' /\ \A p \in Providers : account'[p].committed = billed'[p]
                                           /\ billed'[p] \in Nat
      BY <2>5, <2>6, Fields, <1>1, <1>2 DEF Between, Exact
    <3> QED BY <3>1, Money DEF BillCovered
  <2>8. Track("next")'
    <3>1. \A c \in Calls : /\ c < position' => sent[c] = 1 /\ c \in completed
                           /\ c > position' => sent[c] = 0
                           /\ sent[c] <= 1
                           /\ sent[c] > 0 => c \in announced
      <4> TAKE c \in Calls
      <4>1. c \in Int
        BY DEF Calls
      <4>2. CASE c < position
        BY <1>3, <2>3, <4>1, <4>2 DEF Facts, Track
      <4>3. CASE c = position
        BY <1>3, <2>2, <2>3, <4>1, <4>3 DEF Facts, Track
      <4>4. CASE c > position
        BY <1>3, <2>3, <4>1, <4>4 DEF Facts, Track
      <4> QED BY <2>3, <4>1, <4>2, <4>3, <4>4
    <3>2. \A c \in announced : c <= position'
      BY <1>2, <1>3, <2>3 DEF Facts, Track, TypeOK, Calls
    <3>3. position' \in Calls => sent[position'] = 0
      BY <1>3, <2>3 DEF Facts, Track
    <3> QED BY <1>1, <1>3, <3>1, <3>2, <3>3
            DEF Facts, Track, Before, Configuring, Holding, Settled
  <2>9. Untouched("next")' /\ Books("next")'
    BY <2>6 DEF Untouched, Books, Before, Configuring, Holding, Settled
  <2>10. Verdict("next")'
    BY <1>1, <1>3, <1>5 DEF Facts, Verdict, Before, Configuring, InLoop
  <2> QED BY <1>1, <1>3, <1>5, <2>5, <2>7, <2>8, <2>9, <2>10, Handover DEF Facts
<1>6. CASE Objection # "none" /\ Stop(r, Objection) /\ UNCHANGED <<position, permit>>
  <2>1. StopFrom(r, account, Objection) /\ Objection \in Codes /\ Objection # "budget"
    BY <1>6 DEF Stop, Objection, Codes
  <2>2. BillCovered'
    BY <1>1, <1>2, <1>6, <2>1, StopCovered
  <2>3. Track("close")'
    BY <1>1, <1>3, <1>6, TrackAtStop DEF Facts
  <2>4. announced' \subseteq Calls /\ completed' \subseteq Calls
        /\ billed' \in [Providers -> Nat]
    BY <1>1, <1>2 DEF TypeOK
  <2> QED BY <1>1, <1>2, <1>6, <2>1, <2>2, <2>3, <2>4, Stops DEF InLoop
<1> QED BY <1>5, <1>6 DEF Verify
-----------------------------------------------------------------------------
(* The end of the run *)

\* The loop ends at 2 * Cases + 1 with exact books.
LEMMA ConcludeStep ==
    ASSUME IInv, NEW r \in Runs, Conclude(r)
    PROVE  IInv'
<1>1. /\ pc[r] = "next" /\ position \notin Calls
      /\ UNCHANGED <<claimed, opened, position, permit, reply, announced, completed,
                     ending, result, sent, billed>>
  BY DEF Conclude, journal, world
<1>2. TypeOK /\ BillCovered /\ account \in Accounts
  BY Fields DEF IInv
<1>3. r \in claimed /\ Facts("next")
  BY <1>1, Owner
<1>4. Track("close")'
  BY <1>1, <1>3, TrackAtStop DEF Facts
<1>5. CASE GoTo(r, "close") /\ status' = "COMPLETED" /\ UNCHANGED <<ledger, code>>
  <2>1. position = 2 * Cases + 1
    BY <1>1, <1>2, Fields, RunsAssumption DEF Calls
  <2>2. \A p \in Providers : Exact(p)
    BY <1>3 DEF Facts, Books, Between
  <2>3. TypeOK'
    <3>1. pc' \in [Runs -> {"start", "open"} \cup Configuring \cup InLoop
                           \cup Ending \cup Stopped]
      BY <1>2, <1>5, Moves DEF Ending
    <3> QED BY <1>1, <1>2, <1>5, <3>1 DEF TypeOK, ledger
  <2>4. BillCovered'
    BY <1>1, <1>2, <1>5 DEF BillCovered, Provider, ledger
  <2>5. Untouched("close")' /\ Books("close")'
    BY DEF Untouched, Books, Before, Configuring, Holding, Settled
  <2>6. Verdict("close")'
    BY <1>1, <1>3, <1>5, <2>1, <2>2
       DEF Facts, Verdict, Exact, Before, Configuring, InLoop, ledger
  <2> QED BY <1>1, <1>3, <1>4, <1>5, <2>3, <2>4, <2>5, <2>6, Handover DEF Facts
<1>6. CASE Stop(r, "unexpected_activity")
  <2>1. StopFrom(r, account, "unexpected_activity")
    BY <1>6 DEF Stop
  <2>2. BillCovered'
    BY <1>1, <1>2, <2>1, StopCovered
  <2>3. announced' \subseteq Calls /\ completed' \subseteq Calls
        /\ billed' \in [Providers -> Nat]
    BY <1>1, <1>2 DEF TypeOK
  <2> QED BY <1>1, <1>2, <1>4, <2>1, <2>2, <2>3, Stops DEF InLoop, Codes
<1> QED BY <1>5, <1>6 DEF Conclude

\* Past the loop nothing is asked of the books and the permit.
LEMMA EndTypes ==
    ASSUME IInv, NEW r \in Runs, Close(r) \/ End(r) \/ Report(r)
    PROVE  /\ TypeOK' /\ BillCovered' /\ r \in claimed /\ Track(pc[r]) /\ Verdict(pc[r])
           /\ UNCHANGED <<claimed, position, account, active, sent, billed, announced,
                          completed>>
           /\ \A w \in Ending \cup Stopped :
                 Track(w)' /\ Untouched(w)' /\ Books(w)'
<1>1. UNCHANGED <<claimed, opened, position, account, active, reply, sent, billed, announced,
                  completed>>
  BY DEF Close, End, Report, journal, world, ledger, report
<1>2. pc[r] \in Ending
  BY DEF Close, End, Report, Ending
<1>3. r \in claimed /\ Track(pc[r]) /\ Verdict(pc[r]) /\ TypeOK /\ BillCovered
  BY <1>2, Owner DEF Ending, Facts, IInv
<1>4. BillCovered'
  BY <1>1, <1>3 DEF BillCovered, Provider
<1>5. \A w \in Ending \cup Stopped : Track(w)' /\ Untouched(w)' /\ Books(w)'
  BY <1>1, <1>3
     DEF Track, Untouched, Books, Ending, Stopped, Before, Configuring, Holding, Settled
<1>6. PICK w \in Ending \cup Stopped : GoTo(r, w)
  BY DEF Close, End, Report, Ending, Stopped
<1>7. pc' \in [Runs -> {"start", "open"} \cup Configuring \cup InLoop
                       \cup Ending \cup Stopped]
  BY <1>3, <1>6, Moves
<1>8. permit' \in [armed : BOOLEAN, dispatches : 0..1, wires : 0..1]
  <2>1. permit' = Idle \/ permit' = permit
    BY DEF Close, End, Report
  <2>2. Idle \in [armed : BOOLEAN, dispatches : 0..1, wires : 0..1]
    BY DEF Idle
  <2> QED BY <1>3, <2>1, <2>2 DEF TypeOK
<1>9. status' \in {"STOPPED", "COMPLETED"} /\ code' \in Codes
  BY <1>3 DEF Close, End, Report, report, CloseOutcomes, Codes, TypeOK
<1>10. ending' \in {"none", "run_finished", "run_stopped"}
       /\ result' \in {"none", "STOPPED", "COMPLETED"}
  BY <1>3 DEF Close, End, Report, report, journal, Closing, TypeOK
<1>11. TypeOK'
  BY <1>1, <1>3, <1>7, <1>8, <1>9, <1>10 DEF TypeOK
<1> QED BY <1>1, <1>3, <1>4, <1>5, <1>11

\* The last steps: what is closed and reported agrees with how the run ended.
LEMMA EndSteps ==
    ASSUME IInv, NEW r \in Runs, Close(r) \/ End(r) \/ Report(r)
    PROVE  IInv'
<1>1. /\ TypeOK' /\ BillCovered' /\ r \in claimed /\ Track(pc[r]) /\ Verdict(pc[r])
      /\ UNCHANGED <<claimed, position, account, active, sent, billed, announced, completed>>
      /\ \A w \in Ending \cup Stopped : Track(w)' /\ Untouched(w)' /\ Books(w)'
  BY EndTypes
<1>2. ASSUME NEW w \in Ending \cup Stopped, GoTo(r, w), Verdict(w)' PROVE IInv'
  <2>1. w # "start"
    BY DEF Ending, Stopped
  <2>2. Facts(w)'
    BY <1>1, <1>2 DEF Facts
  <2> QED BY <1>1, <1>2, <2>1, <2>2, Handover
<1>3. UNCHANGED <<position, account, billed>>
  BY <1>1
<1>4. CASE Close(r)
  <2>1. pc[r] = "close" /\ GoTo(r, "ending") /\ UNCHANGED <<result, ending>>
        /\ \/ status' = status /\ code' = code
           \/ status' = "STOPPED" /\ code' = "resource_close_failure"
    BY <1>4 DEF Close, CloseOutcomes, journal
  <2>2. Verdict("ending")'
    BY <1>1, <1>3, <2>1 DEF Verdict, Exact, Before, Configuring, InLoop
  <2> QED BY <1>2, <2>1, <2>2 DEF Ending
<1>5. CASE End(r)
  <2>1. pc[r] = "ending" /\ UNCHANGED <<status, code, result>>
        /\ \/ ending' = Closing /\ GoTo(r, "report")
           \/ GoTo(r, "raised")
    BY <1>5 DEF End, report
  <2>2. ending' = Closing => Verdict("report")'
    BY <1>1, <1>3, <2>1 DEF Verdict, Exact, Closing, Before, Configuring, InLoop
  <2>3. Verdict("raised")'
    BY <1>1, <1>3, <2>1 DEF Verdict, Exact, Before, Configuring, InLoop
  <2> QED BY <1>2, <2>1, <2>2, <2>3 DEF Ending, Stopped
<1>6. CASE Report(r)
  <2>1. pc[r] = "report" /\ UNCHANGED <<status, code, ending>>
        /\ \/ result' = status /\ GoTo(r, "returned")
           \/ UNCHANGED result /\ GoTo(r, "raised")
    BY <1>6 DEF Report, journal
  <2>2. result' = status => Verdict("returned")'
    BY <1>1, <1>3, <2>1 DEF Verdict, Exact, Closing, Before, Configuring, InLoop
  <2>3. UNCHANGED result => Verdict("raised")'
    BY <1>1, <1>3, <2>1 DEF Verdict, Exact, Before, Configuring, InLoop
  <2> QED BY <1>2, <2>1, <2>2, <2>3 DEF Stopped
<1> QED BY <1>4, <1>5, <1>6
-----------------------------------------------------------------------------
(* The invariant *)

\* The invariant holds before anything happened.
LEMMA InitIInv == Init => IInv
<1> SUFFICES ASSUME Init PROVE IInv
  OBVIOUS
<1>1. TypeOK
  <2>1. permit \in [armed : BOOLEAN, dispatches : 0..1, wires : 0..1]
    BY DEF Init, Idle
  <2>2. reply \in ReplyRecords
    BY DEF Init, NoReply, ReplyRecords
  <2>3. account \in Accounts
    BY DEF Init, Accounts, Account
  <2>4. position \in 1..(2 * Cases + 1)
    BY RunsAssumption DEF Init
  <2> QED BY <2>1, <2>2, <2>3, <2>4
          DEF Init, TypeOK, ReplyRecords, Accounts, Account, Codes
<1>2. Alone
  BY DEF Init, Alone
<1>3. BillCovered
  BY Money DEF Init, BillCovered
<1>4. Facts("open")
  <2>1. Untouched("open")
    BY DEF Init, Untouched, Exact
  <2>2. Books("open")
    BY DEF Books, Holding, Settled
  <2>3. Track("open")
    BY RunsAssumption DEF Init, Track, Before, Configuring, Holding, Settled, Calls
  <2>4. Verdict("open")
    BY DEF Init, Verdict, Before, Configuring, InLoop
  <2> QED BY <2>1, <2>2, <2>3, <2>4 DEF Facts
<1> QED BY <1>1, <1>2, <1>3, <1>4 DEF Init, IInv

\* A step the invariant's variables sleep through.
LEMMA StutterIInv ==
    ASSUME IInv, UNCHANGED vars
    PROVE  IInv'
<1>1. UNCHANGED Matter /\ UNCHANGED <<pc, claimed, opened>>
  BY DEF vars, Matter, ledger, report, journal, world
<1>2. TypeOK' /\ Alone' /\ BillCovered'
  BY <1>1, Quiet DEF IInv, TypeOK, Alone, Matter, ledger, report, journal, world
<1> QED BY <1>1, <1>2, Quiet DEF IInv

\* Every step keeps it, action by action.
LEMMA NextIInv == IInv /\ [Next]_vars => IInv'
<1> SUFFICES ASSUME IInv, [Next]_vars PROVE IInv'
  OBVIOUS
<1>1. CASE UNCHANGED vars
  BY <1>1, StutterIInv
<1>2. ASSUME NEW r \in Runs, Step(r) PROVE IInv'
  <2>1. CASE Claim(r) \/ Refuse(r)
    BY <2>1, ClaimStep
  <2>2. CASE OpenJournal(r) \/ Prepare(r) \/ Preflight(r)
    BY <2>2, QuietSteps
  <2>3. CASE Fail(r)
    BY <2>3, PlainStops
  <2>4. CASE Reserve(r)
    BY <2>4, ReserveStep
  <2>5. CASE Announce(r)
    BY <2>5, AnnounceStep
  <2>6. CASE Dispatch(r)
    BY <2>6, DispatchStep
  <2>7. CASE Wire(r)
    BY <2>7, WireStep
  <2>8. CASE Route(r)
    BY <2>8, RouteStep
  <2>9. CASE Settle(r)
    BY <2>9, SettleStep
  <2>10. CASE Complete(r)
    BY <2>10, CompleteStep
  <2>11. CASE Verify(r)
    BY <2>11, VerifyStep
  <2>12. CASE Conclude(r)
    BY <2>12, ConcludeStep
  <2>13. CASE Close(r) \/ End(r) \/ Report(r)
    BY <2>13, EndSteps
  <2> QED BY <1>2, <2>1, <2>2, <2>3, <2>4, <2>5, <2>6, <2>7, <2>8, <2>9, <2>10, <2>11,
             <2>12, <2>13 DEF Step
<1>3. ASSUME NEW r \in Runs, Outside(r) PROVE IInv'
  <2>1. CASE Interrupt(r)
    <3>1. CASE UNCHANGED billed
      BY <2>1, <3>1, PlainStops
    <3>2. CASE billed' # billed
      <4>1. pc[r] = "wired" /\ \E b \in 0..MaxBill[Provider] :
               billed' = [billed EXCEPT ![Provider] = @ + b]
        BY <2>1, <3>2 DEF Interrupt, Unwatched
      <4> QED BY <2>1, <4>1, InterruptWired
    <3> QED BY <3>1, <3>2
  <2>2. CASE InterruptSettle(r)
    BY <2>2, PlainStops
  <2>3. CASE InterruptReserve(r)
    BY <2>3, ReserveStep
  <2>4. CASE Die(r)
    <3>1. CASE UNCHANGED billed
      BY <2>4, <3>1, QuietSteps
    <3>2. CASE billed' # billed
      <4>1. pc[r] = "wired" /\ \E b \in 0..MaxBill[Provider] :
               billed' = [billed EXCEPT ![Provider] = @ + b]
        BY <2>4, <3>2 DEF Die, Unwatched
      <4> QED BY <2>4, <4>1, DieWired
    <3> QED BY <3>1, <3>2
  <2> QED BY <1>3, <2>1, <2>2, <2>3, <2>4 DEF Outside
<1> QED BY <1>1, <1>2, <1>3 DEF Next

\* It holds of every behaviour of the run.
LEMMA Inductive == Spec => []IInv
BY InitIInv, NextIInv, PTL DEF Spec
-----------------------------------------------------------------------------
(* What follows *)

\* Some process's facts hold, or those of an untouched directory.
LEMMA SomeFacts ==
    ASSUME IInv
    PROVE  \E w : Facts(w) /\ \A S : At(S) => w \in S
<1>1. CASE claimed = {}
  <2>1. Facts("open") /\ \A S : ~At(S)
    BY <1>1 DEF IInv, At
  <2> QED BY <2>1
<1>2. CASE claimed # {}
  <2>1. PICK r \in claimed : TRUE
    BY <1>2
  <2>2. Facts(pc[r]) /\ \A S : At(S) => pc[r] \in S
    BY <2>1 DEF IInv, Alone, At
  <2> QED BY <2>2
<1> QED BY <1>1, <1>2

\* The ledger part of the invariant is what LedgerTruth says.
LEMMA LedgerFollows == IInv => LedgerTruth
<1> SUFFICES ASSUME IInv PROVE LedgerTruth
  OBVIOUS
<1>1. PICK w : Facts(w) /\ \A S : At(S) => w \in S
  BY SomeFacts
<1>2. GoesOnExactly
  <2>1. At({"next"}) => w = "next"
    BY <1>1
  <2> QED BY <1>1, <2>1 DEF Facts, Books, Between, Exact, GoesOnExactly
<1>3. PlanSuffices
  BY <1>1 DEF Facts, Verdict, PlanSuffices
<1> QED BY <1>2, <1>3 DEF IInv, LedgerTruth

\* The journal part is what EvidenceCoversSends says.
LEMMA EvidenceFollows == IInv => EvidenceCoversSends
<1> SUFFICES ASSUME IInv PROVE EvidenceCoversSends
  OBVIOUS
<1>1. PICK w : Facts(w)
  BY SomeFacts
<1>2. TypeOK /\ Track(w) /\ Verdict(w)
  BY <1>1 DEF IInv, Facts
<1>3. \A c \in Calls : sent[c] > 0 => c \in announced
  BY <1>2 DEF Track
<1>4. completed \subseteq announced /\ announced \ completed \subseteq {position}
  <2>1. \A c \in announced : c \in Calls /\ c \in Int /\ c <= position
    BY <1>2 DEF Track, TypeOK, Calls
  <2> QED BY <1>2, <2>1, Fields DEF Track
<1>5. result # "none" => w = "returned" /\ result = status /\ ending = Closing
  BY <1>2 DEF Verdict
<1>6. result # "none" => ending # "none" /\ (result = "COMPLETED" <=> ending = "run_finished")
  BY <1>5 DEF Closing
<1> QED BY <1>3, <1>4, <1>6 DEF EvidenceCoversSends

\* The verdict and the schedule make a completed run exact.
LEMMA CompletionFollows == IInv => CompletedIsExact
<1> SUFFICES ASSUME IInv, result = "COMPLETED" PROVE CompletedIsExact
  BY DEF CompletedIsExact
<1>1. PICK w : Facts(w)
  BY SomeFacts
<1>2. TypeOK /\ Track(w) /\ Verdict(w)
  BY <1>1 DEF IInv, Facts
<1>3. status = "COMPLETED"
  BY <1>2 DEF Verdict
<1>4. position = 2 * Cases + 1 /\ code = "none" /\ \A p \in Providers : Exact(p)
  BY <1>2, <1>3 DEF Verdict
<1>5. \A c \in Calls : c < position
  BY <1>4, RunsAssumption DEF Calls
<1>6. announced = Calls /\ completed = Calls /\ \A c \in Calls : sent[c] = 1
  BY <1>2, <1>5 DEF Track, TypeOK
<1> QED BY <1>4, <1>6 DEF CompletedIsExact, Exact

\* ExactLedger, driven by execute() and interrupted anywhere, the inside of
\* settle included: the run goes on only while its ledger is the bill, what it
\* leaves is behind the bill by at most what one call may cost above its
\* reservation, and the plan checked once makes every cap unreachable.
THEOREM LedgerTruthHolds == Spec => []LedgerTruth
BY Inductive, LedgerFollows, PTL

\* No request left without its line in the journal, one call at most lacks its
\* outcome, and result.json agrees with the journal's last line.
THEOREM EvidenceCoversSendsHolds == Spec => []EvidenceCoversSends
BY Inductive, EvidenceFollows, PTL

\* COMPLETED means that every call of the schedule left once, with both its
\* lines, and that the committed money is the bill to the unit.
THEOREM CompletedIsExactHolds == Spec => []CompletedIsExact
BY Inductive, CompletionFollows, PTL
-----------------------------------------------------------------------------
(* The refinement *)

Over == At(Ending \cup Stopped)

\* A step that sends nothing ends the run or leaves it as it was.
LEMMA SilentStep ==
    ASSUME IInv, IInv', UNCHANGED sent, Over => Over'
    PROVE  [Chain!Next]_<<sent, Over>>
<1>1. Over \in BOOLEAN /\ Over' \in BOOLEAN
  BY DEF Over, At
<1>2. CASE Over' = Over
  BY <1>2
<1>3. CASE ~Over /\ Over'
  <2>1. Chain!End
    BY <1>1, <1>3 DEF Chain!End, Over
  <2> QED BY <2>1 DEF Chain!Next
<1> QED BY <1>1, <1>2, <1>3

\* Once over, a run stays over: nobody leaves a place past the loop but for a
\* later one.
LEMMA OverStays ==
    ASSUME IInv, NEW r \in Runs, Step(r) \/ Outside(r), Over
    PROVE  Over'
<1>1. PICK q \in claimed : pc[q] \in Ending \cup Stopped
  BY DEF Over, At
<1>2. claimed = {q} /\ q \in Runs /\ claimed # {}
  BY DEF IInv, Alone, TypeOK
<1>3. TypeOK
  BY DEF IInv
<1>4. claimed' = claimed
  BY <1>2 DEF Step, Outside, Claim, Refuse, OpenJournal, Prepare, Preflight, Fail, Reserve,
              Announce, Dispatch, Wire, Route, Settle, Complete, Verify, Conclude, Close,
              End, Report, Interrupt, InterruptSettle, InterruptReserve, Die
<1>5. CASE r = q
  <2>1. pc[r] \in Ending \cup Stopped
    BY <1>1, <1>5
  <2>2. Close(r) \/ End(r) \/ Report(r) \/ Die(r)
    BY <2>1 DEF Step, Outside, Claim, Refuse, OpenJournal, Prepare, Preflight, Fail, Reserve,
                Announce, Dispatch, Wire, Route, Settle, Complete, Verify, Conclude,
                Interrupt, InterruptSettle, InterruptReserve,
                Configuring, InLoop, Ending, Stopped
  <2>3. \E w \in Ending \cup Stopped : GoTo(r, w)
    BY <2>2 DEF Close, End, Report, Die, Ending, Stopped
  <2>4. pc'[r] \in Ending \cup Stopped
    BY <1>3, <2>3 DEF GoTo, TypeOK
  <2> QED BY <1>4, <1>5, <2>4 DEF Over, At
<1>6. CASE r # q
  <2>1. pc'[q] = pc[q]
    BY <1>2, <1>3, <1>6
       DEF Step, Outside, Claim, Refuse, OpenJournal, Prepare, Preflight, Fail, Reserve,
           Announce, Dispatch, Wire, Route, Settle, Complete, Verify, Conclude, Close,
           End, Report, Interrupt, InterruptSettle, InterruptReserve, Die, Stop, StopFrom,
           GoTo, TypeOK
  <2> QED BY <1>1, <1>4, <2>1 DEF Over, At
<1> QED BY <1>5, <1>6

\* A step delivers the chain's next request, ends the chain, or is silent.
LEMMA ChainStep ==
    ASSUME IInv, IInv', [Next]_vars
    PROVE  [Chain!Next]_<<sent, Over>>
<1>1. CASE UNCHANGED vars
  <2>1. UNCHANGED sent /\ Over' = Over
    BY <1>1 DEF vars, Over, At
  <2> QED BY <2>1
<1>2. ASSUME NEW r \in Runs, Wire(r) PROVE [Chain!Next]_<<sent, Over>>
  <2>1. /\ pc[r] = "wired" /\ pc' = pc /\ UNCHANGED claimed /\ permit.wires = 0
        /\ sent' = [sent EXCEPT ![position] = @ + 1]
    BY <1>2 DEF Wire, Wirable
  <2>2. r \in claimed /\ Track("wired") /\ ~Over /\ UNCHANGED Over
    BY <2>1, Owner DEF Facts, Over, At, Ending, Stopped
  <2>3. position \in Calls /\ sent[position] = 0 /\ sent \in [Calls -> Nat]
    BY <2>1, <2>2 DEF Track, Holding, IInv, TypeOK
  <2>4. \A t \in Calls : [c \in Calls |-> c][t] < [c \in Calls |-> c][position]
                         => sent[t] = 1
    BY <2>2, <2>3 DEF Track
  <2>5. sent' = [sent EXCEPT ![position] = 1]
    BY <2>1, <2>3
  <2>6. Chain!Deliver(position)
    BY <2>2, <2>3, <2>4, <2>5 DEF Chain!Deliver, Over
  <2> QED BY <2>3, <2>6 DEF Chain!Next
<1>3. ASSUME NEW r \in Runs, Step(r) \/ Outside(r), ~Wire(r)
      PROVE  [Chain!Next]_<<sent, Over>>
  <2>1. UNCHANGED sent
    BY <1>3 DEF Step, Outside, Claim, Refuse, OpenJournal, Prepare, Preflight, Fail, Reserve,
                Announce, Dispatch, Route, Settle, Complete, Verify, Conclude, Close,
                End, Report, Interrupt, InterruptSettle, InterruptReserve, Die, world
  <2> QED BY <1>3, <2>1, OverStays, SilentStep
<1> QED BY <1>1, <1>2, <1>3 DEF Next

\* Whoever starts RUN_ID again and wherever a process is interrupted, the
\* requests of the schedule leave at most once each, in order, and none after
\* the run is over.
THEOREM RunIsOneShot == Spec => ImplementsChain
<1>1. Init => Chain!Init
  BY DEF Init, Chain!Init, At
<1>2. IInv /\ IInv' /\ [Next]_vars => [Chain!Next]_<<sent, Over>>
  BY ChainStep
<1> QED BY <1>1, <1>2, Inductive, PTL DEF Spec, ImplementsChain, Chain!Spec, Over
=============================================================================
