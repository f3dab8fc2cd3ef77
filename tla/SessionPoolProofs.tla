-------------------------- MODULE SessionPoolProofs --------------------------
(***************************************************************************)
(* Proofs about SessionPool for every number of commands and sessions and  *)
(* every floor and ceiling.  IInv is the inductive invariant; each of its  *)
(* conjuncts is preserved by a lemma of its own, and the safety properties *)
(* of SessionPool follow from it.  The last part is the refinement: seen   *)
(* through Status, every behaviour of the pool is one of CommandService.   *)
(***************************************************************************)
EXTENDS SessionPool, FiniteSetTheorems, SequenceTheorems, TLAPS

\* The steps of run during which the command's Checkout exists.
HasSession == {"holding", "armed", "running", "ended", "disarmed"}

HoldInv == \A c \in Commands : (sess[c] # NoSession) <=> (pc[c] \in HasSession)

\* Every session in existence, or reserved, is counted in `open`.
Accounting ==
  /\ Len(idle) + Cardinality(Holders) + Cardinality(Opening) + reaped <= open
  /\ open <= Max
  /\ reaped # 0 => reaper \in {"destroying", "counting"}
  /\ IsFiniteSet(dying) /\ Cardinality(dying) <= reaped
  /\ dying # {} => reaper = "destroying"

\* A slot is armed only between start and finish, with the session its own
\* command holds.
SlotInv ==
  \A c \in Commands :
    /\ slot[c] = "Running" =>
         pc[c] \in {"armed", "running", "ended"} /\ interrupt[c] = sess[c]
    /\ slot[c] # "Running" => interrupt[c] = NoSession

\* The operation attached to a session is that of the command holding it.
OpInv ==
  \A s \in Sessions :
    op[s] # NoCommand => pc[op[s]] = "running" /\ sess[op[s]] = s

\* Dropping the pool begins with no command inside run and waits for the reaper.
CloseInv ==
  /\ phase # "open" => Quiet
  /\ phase \in {"joined", "dropped", "closed"} => reaper \in {"absent", "gone"}
  /\ phase = "dropped" => idle = <<>>

IInv == /\ TypeOK /\ HoldInv /\ OneOwner /\ Accounting
        /\ SlotInv /\ OpInv /\ InterruptsOwnCommand
        /\ NoLostWakeup
        /\ CloseInv /\ CloseIsReal /\ JoinIsPrompt


--------------------------------------------------------------------------------
\* A step is a step of one action, or changes nothing.
LEMMA StepCases ==
  [Next]_vars =>
    \/ \E c \in Commands :
         \/ Ask(c) \/ Take(c) \/ Reserve(c) \/ Wait(c) \/ SpuriousWake(c)
         \/ Grow(c) \/ GrowFails(c) \/ NotifyOne(c) \/ Start(c) \/ StartRefused(c)
         \/ Attach(c) \/ Reject(c) \/ Finish(c) \/ Disarm(c) \/ GiveBack(c)
         \/ Cancel(c)
    \/ Age \/ ReapSome \/ ReapNone \/ DestroyExpired \/ CountClosed
    \/ ReaperWakes \/ ReaperExits \/ BeginDrop \/ NotifyClosing \/ Join
    \/ DropSessions \/ CloseRuntime
    \/ UNCHANGED vars
BY DEF Next, Thread, Checkout, Open, Arm, Engine, HandBack, Reaper, Closer,
       Terminated

--------------------------------------------------------------------------------
(* Facts about the operators the invariant is built from                    *)

\* Sets of commands are finite, so their cardinalities are numbers.
LEMMA CommandSets ==
  ASSUME NEW S \in SUBSET Commands
  PROVE  IsFiniteSet(S) /\ Cardinality(S) \in Nat
BY FiniteAssumption, FS_Subset, FS_CardinalityType

\* A command enters a set it was not in, or leaves one it was in.
LEMMA Joins ==
  ASSUME NEW S \in SUBSET Commands, NEW c \in Commands, c \notin S
  PROVE  Cardinality(S \cup {c}) = Cardinality(S) + 1
BY CommandSets, FS_AddElement

\* A command that leaves a set of commands takes one from its size.
LEMMA Leaves ==
  ASSUME NEW S \in SUBSET Commands, NEW c \in S
  PROVE  Cardinality(S \ {c}) = Cardinality(S) - 1 /\ Cardinality(S) >= 1
<1>1. c \in Commands
  OBVIOUS
<1>2. IsFiniteSet(S) /\ IsFiniteSet(S \ {c}) /\ Cardinality(S \ {c}) \in Nat
  BY CommandSets
<1>3. Cardinality(S \ {c}) = Cardinality(S) - 1
  BY <1>2, FS_RemoveElement
<1> QED
  BY <1>2, <1>3, CommandSets

\* State::take: the last entry goes and the others keep their place.
LEMMA TakeEffect ==
  ASSUME TypeOK, NEW c \in Commands, Take(c)
  PROVE  /\ idle' \in Seq(Sessions)
         /\ Len(idle) \in Nat \ {0}
         /\ Len(idle') = Len(idle) - 1
         /\ \A i \in 1..Len(idle') : idle'[i] = idle[i]
         /\ idle[Len(idle)] \in Sessions
         /\ sess' = [sess EXCEPT ![c] = idle[Len(idle)]]
<1>1. idle \in Seq(Sessions) /\ idle # <<>> /\ Len(idle) \in Nat
  BY LenProperties DEF TypeOK, Take
<1>2. Len(idle) \in Nat \ {0}
  BY <1>1, EmptySeq
<1>3. \A i \in 1..Len(idle) : idle[i] \in Sessions
  BY <1>1, LenProperties
<1>4. idle' = SubSeq(idle, 1, Len(idle) - 1)
  BY DEF Take
<1>5. \A i \in 1..(Len(idle) - 1) : idle[i] \in Sessions
  BY <1>2, <1>3
<1> DEFINE n == Len(idle) - 1
<1>6. n \in Nat
  BY <1>2
<1> HIDE DEF n
<1>7. /\ SubSeq(idle, 1, n) \in Seq(Sessions)
      /\ Len(SubSeq(idle, 1, n)) = IF 1 <= n THEN n - 1 + 1 ELSE 0
      /\ \A i \in 1 .. n - 1 + 1 : SubSeq(idle, 1, n)[i] = idle[1 + i - 1]
  BY <1>6, <1>5, SubSeqProperties DEF n
<1>8. Len(SubSeq(idle, 1, n)) = n
  BY <1>6, <1>7
<1>9. \A i \in 1..n : SubSeq(idle, 1, n)[i] = idle[i]
  <2> SUFFICES ASSUME NEW i \in 1..n PROVE SubSeq(idle, 1, n)[i] = idle[i]
    BY Zenon
  <2>1. i \in 1 .. n - 1 + 1 /\ 1 + i - 1 = i
    BY <1>6
  <2> QED
    BY <1>7, <2>1
<1>10. idle' = SubSeq(idle, 1, n)
  BY <1>4 DEF n
<1> QED
  BY <1>2, <1>3, <1>7, <1>8, <1>9, <1>10 DEF Take, n

\* Idles::give_back: the session is the new last entry.
LEMMA GiveBackEffect ==
  ASSUME TypeOK, HoldInv, NEW c \in Commands, GiveBack(c)
  PROVE  /\ sess[c] \in Sessions
         /\ idle' \in Seq(Sessions)
         /\ Len(idle) \in Nat
         /\ Len(idle') = Len(idle) + 1
         /\ \A i \in 1..Len(idle) : idle'[i] = idle[i]
         /\ idle'[Len(idle) + 1] = sess[c]
<1>1. sess[c] \in Sessions
  BY DEF TypeOK, HoldInv, HasSession, GiveBack, GiveBackThen
<1>2. idle \in Seq(Sessions) /\ Len(idle) \in Nat
  BY LenProperties DEF TypeOK
<1> QED
  BY <1>1, <1>2, AppendProperties DEF GiveBack, GiveBackThen

\* State::reap: a prefix of the entries goes, no longer than the stale ones.
LEMMA ReapEffect ==
  ASSUME TypeOK, ReapSome
  PROVE  /\ Expired \in Nat \ {0}
         /\ Expired <= stale
         /\ Len(idle) \in Nat /\ stale <= Len(idle)
         /\ idle' \in Seq(Sessions)
         /\ Len(idle') = Len(idle) - Expired
         /\ \A i \in 1..Len(idle') : idle'[i] = idle[Expired + i]
         /\ dying' = {idle[i] : i \in 1..Expired}
         /\ dying' \subseteq Sessions
         /\ reaped' = Expired
         /\ open' = open
<1>1. idle \in Seq(Sessions) /\ Len(idle) \in Nat
  BY LenProperties DEF TypeOK
<1>2. /\ Expired \in Nat \ {0} /\ Expired <= stale
      /\ stale \in Nat /\ stale <= Len(idle)
  BY <1>1, LimitsAssumption DEF TypeOK, ReapSome, ReapCounting, Expired, Spare
<1>3. \A i \in 1..Len(idle) : idle[i] \in Sessions
  BY <1>1, LenProperties
<1>4. idle' = SubSeq(idle, Expired + 1, Len(idle))
  BY DEF ReapSome, ReapCounting
<1>5. \A i \in Expired + 1 .. Len(idle) : idle[i] \in Sessions
  BY <1>1, <1>2, <1>3
<1>6. /\ idle' \in Seq(Sessions)
      /\ Len(idle') = Len(idle) - Expired
      /\ \A i \in 1..Len(idle') : idle'[i] = idle[Expired + i]
  BY <1>1, <1>2, <1>4, <1>5, SubSeqProperties
<1>7. open' = open
  BY DEF TypeOK, ReapSome, ReapCounting
<1> QED
  BY <1>1, <1>2, <1>3, <1>6, <1>7 DEF ReapSome, ReapCounting

\* What `open` counts are numbers, so none of them exceeds it.
LEMMA Covered ==
  ASSUME IInv
  PROVE  /\ Len(idle) \in Nat /\ Cardinality(Holders) \in Nat
         /\ Cardinality(Opening) \in Nat
         /\ Opening # {} => Cardinality(Opening) >= 1
         /\ open \in Nat /\ reaped \in Nat
         /\ reaped <= open /\ Cardinality(Opening) <= open
<1>1. Len(idle) \in Nat /\ open \in Nat /\ reaped \in Nat
  BY LenProperties DEF IInv, TypeOK
<1>2. Cardinality(Holders) \in Nat /\ Cardinality(Opening) \in Nat
  BY CommandSets DEF Holders, Opening
<1>3. Opening # {} => Cardinality(Opening) >= 1
  BY Zenon, Leaves DEF Opening
<1> QED
  BY <1>1, <1>2, <1>3 DEF IInv, Accounting

\* An armed slot would interrupt the session its own command holds.
LEMMA ArmedSession ==
  ASSUME IInv, NEW c \in Commands, slot[c] = "Running"
  PROVE  /\ interrupt[c] = sess[c] /\ sess[c] \in Sessions
         /\ pc[c] \in {"armed", "running", "ended"}
BY DEF IInv, SlotInv, HoldInv, HasSession, TypeOK

\* The type invariant; that `open` never runs below zero is the accounting's doing.
LEMMA TypeStep == IInv /\ [Next]_vars => TypeOK'
<1> SUFFICES ASSUME IInv, [Next]_vars PROVE TypeOK'
  OBVIOUS
<1>1. ASSUME NEW c \in Commands, Ask(c) PROVE TypeOK'
  BY <1>1 DEF Ask, IInv, TypeOK, PCs, Outcomes, Slots, Reapers, Phases,
      commandVars, slotVars, reaperVars
<1>2. ASSUME NEW c \in Commands, Take(c) PROVE TypeOK'
  BY <1>2, TakeEffect DEF Take, IInv, TypeOK, PCs, Outcomes, Slots, Reapers,
      Phases, commandVars, slotVars, reaperVars
<1>3. ASSUME NEW c \in Commands, Reserve(c) PROVE TypeOK'
  BY <1>3 DEF Reserve, ReserveAs, IInv, TypeOK, PCs, Outcomes, Slots, Reapers,
      Phases, commandVars, slotVars, reaperVars
<1>4. ASSUME NEW c \in Commands, Wait(c) PROVE TypeOK'
  BY <1>4 DEF Wait, IInv, TypeOK, PCs, Outcomes, Slots, Reapers, Phases,
      commandVars, slotVars, reaperVars
<1>5. ASSUME NEW c \in Commands, SpuriousWake(c) PROVE TypeOK'
  BY <1>5 DEF SpuriousWake, IInv, TypeOK, PCs, Outcomes, Slots, Reapers, Phases,
      commandVars, slotVars, reaperVars
<1>6. ASSUME NEW c \in Commands, Grow(c) PROVE TypeOK'
  BY <1>6 DEF Grow, IInv, TypeOK, PCs, Outcomes, Slots, Reapers, Phases,
      commandVars, slotVars, reaperVars
<1>7. ASSUME NEW c \in Commands, GrowFails(c) PROVE TypeOK'
  BY <1>7, Covered DEF GrowFails, GrowFailsThen, Opening, IInv, TypeOK, PCs,
      Outcomes, Slots, Reapers, Phases, commandVars, slotVars, reaperVars
<1>8. ASSUME NEW c \in Commands, NotifyOne(c) PROVE TypeOK'
  BY <1>8 DEF NotifyOne, IInv, TypeOK, PCs, Outcomes, Slots, Reapers, Phases,
      commandVars, slotVars, reaperVars
<1>9. ASSUME NEW c \in Commands, Start(c) PROVE TypeOK'
  BY <1>9 DEF Start, StartFrom, IInv, TypeOK, PCs, Outcomes, Slots, Reapers,
      Phases, commandVars, slotVars, reaperVars
<1>10. ASSUME NEW c \in Commands, StartRefused(c) PROVE TypeOK'
  BY <1>10 DEF StartRefused, IInv, TypeOK, PCs, Outcomes, Slots, Reapers,
      Phases, commandVars, slotVars, reaperVars
<1>11. ASSUME NEW c \in Commands, Attach(c) PROVE TypeOK'
  BY Zenon, <1>11 DEF Attach, IInv, TypeOK, PCs, Outcomes, Slots, Reapers, Phases,
      commandVars, slotVars, reaperVars
<1>12. ASSUME NEW c \in Commands, Reject(c) PROVE TypeOK'
  BY <1>12 DEF Reject, IInv, TypeOK, PCs, Outcomes, Slots, Reapers, Phases,
      commandVars, slotVars, reaperVars
<1>13. ASSUME NEW c \in Commands, Finish(c) PROVE TypeOK'
  BY Zenon, <1>13 DEF Finish, IInv, TypeOK, PCs, Outcomes, Slots, Reapers, Phases,
      commandVars, slotVars, reaperVars
<1>14. ASSUME NEW c \in Commands, Disarm(c) PROVE TypeOK'
  BY <1>14 DEF Disarm, IInv, TypeOK, PCs, Outcomes, Slots, Reapers, Phases,
      commandVars, slotVars, reaperVars
<1>15. ASSUME NEW c \in Commands, GiveBack(c) PROVE TypeOK'
  <2>1. /\ idle' \in Seq(Sessions)
        /\ Len(idle) \in Nat /\ Len(idle') = Len(idle) + 1
    BY <1>15, GiveBackEffect DEF IInv
  <2>2. stale' = stale /\ stale \in 0..Len(idle)
    BY <1>15 DEF IInv, TypeOK, GiveBack, GiveBackThen
  <2>3. stale' \in 0..Len(idle')
    BY <2>1, <2>2
  <2> QED
    BY <1>15, <2>1, <2>3 DEF GiveBack, GiveBackThen, IInv, TypeOK, PCs, slotVars,
       reaperVars
<1>16. ASSUME NEW c \in Commands, Cancel(c) PROVE TypeOK'
  <2>1. Kill(interrupt[c]) \in SUBSET Commands \/ slot[c] # "Running"
    BY <1>16, ArmedSession DEF IInv, TypeOK, Kill
  <2> QED
    BY <1>16, <2>1 DEF Cancel, IInv, TypeOK, Slots, commandVars, reaperVars
<1>17. CASE Age
  BY <1>17 DEF Age, IInv, TypeOK, PCs, Outcomes, Slots, Reapers, Phases,
      commandVars, slotVars, reaperVars
<1>18. CASE ReapSome
  BY <1>18, ReapEffect DEF ReapSome, ReapCounting, IInv, TypeOK, PCs, Outcomes,
      Slots, Reapers, Phases, commandVars, slotVars, reaperVars
<1>19. CASE ReapNone
  BY <1>19 DEF ReapNone, IInv, TypeOK, PCs, Outcomes, Slots, Reapers, Phases,
      commandVars, slotVars, reaperVars
<1>20. CASE DestroyExpired
  BY <1>20 DEF DestroyExpired, IInv, TypeOK, PCs, Outcomes, Slots, Reapers,
      Phases, commandVars, slotVars, reaperVars
<1>21. CASE CountClosed
  BY <1>21, Covered DEF CountClosed, IInv, TypeOK, PCs, Outcomes, Slots,
      Reapers, Phases, commandVars, slotVars, reaperVars
<1>22. CASE ReaperWakes
  BY <1>22 DEF ReaperWakes, IInv, TypeOK, PCs, Outcomes, Slots, Reapers, Phases,
      commandVars, slotVars, reaperVars
<1>23. CASE ReaperExits
  BY <1>23 DEF ReaperExits, ReaperExitsIf, IInv, TypeOK, PCs, Outcomes, Slots,
      Reapers, Phases, commandVars, slotVars, reaperVars
<1>24. CASE BeginDrop
  BY <1>24 DEF BeginDrop, DropTo, IInv, TypeOK, PCs, Outcomes, Slots, Reapers,
      Phases, commandVars, slotVars, reaperVars
<1>25. CASE NotifyClosing
  BY <1>25 DEF NotifyClosing, NotifyReaper, IInv, TypeOK, PCs, Outcomes, Slots,
      Reapers, Phases, commandVars, slotVars, reaperVars
<1>26. CASE Join
  BY <1>26 DEF Join, IInv, TypeOK, PCs, Outcomes, Slots, Reapers, Phases,
      commandVars, slotVars, reaperVars
<1>27. CASE DropSessions
  BY <1>27 DEF DropSessions, IInv, TypeOK, PCs, Outcomes, Slots, Reapers,
      Phases, commandVars, slotVars, reaperVars
<1>28. CASE CloseRuntime
  BY <1>28 DEF CloseRuntime, IInv, TypeOK, PCs, Outcomes, Slots, Reapers,
      Phases, commandVars, slotVars, reaperVars
<1>29. CASE UNCHANGED vars
  BY <1>29 DEF IInv, TypeOK, PCs, Outcomes, Slots, Reapers, Phases, vars,
      commandVars, slotVars, reaperVars
<1> QED
  BY Zenon, <1>1, <1>2, <1>3, <1>4, <1>5, <1>6, <1>7, <1>8, <1>9, <1>10, <1>11, <1>12,
      <1>13, <1>14, <1>15, <1>16, <1>17, <1>18, <1>19, <1>20, <1>21, <1>22,
      <1>23, <1>24, <1>25, <1>26, <1>27, <1>28, <1>29, StepCases

\* A Checkout holds a session from the checkout to its drop.
LEMMA HoldStep == IInv /\ [Next]_vars => HoldInv'
<1> SUFFICES ASSUME IInv, [Next]_vars PROVE HoldInv'
  OBVIOUS
<1>1. CASE UNCHANGED <<pc, sess>>
  BY <1>1 DEF IInv, HoldInv
<1>2. ASSUME NEW c \in Commands, Ask(c) PROVE HoldInv'
  BY <1>2 DEF Ask, HasSession, TypeOK, IInv, HoldInv, commandVars, slotVars,
      reaperVars
<1>3. ASSUME NEW c \in Commands, Take(c) PROVE HoldInv'
  BY <1>3, NamesAssumption, TakeEffect DEF Take, HasSession, TypeOK, IInv,
      HoldInv, commandVars, slotVars, reaperVars
<1>4. ASSUME NEW c \in Commands, Reserve(c) PROVE HoldInv'
  BY <1>4 DEF Reserve, ReserveAs, HasSession, TypeOK, IInv, HoldInv,
      commandVars, slotVars, reaperVars
<1>5. ASSUME NEW c \in Commands, Wait(c) PROVE HoldInv'
  BY <1>5 DEF Wait, HasSession, TypeOK, IInv, HoldInv, commandVars, slotVars,
      reaperVars
<1>6. ASSUME NEW c \in Commands, SpuriousWake(c) PROVE HoldInv'
  BY <1>6 DEF SpuriousWake, HasSession, TypeOK, IInv, HoldInv, commandVars,
      slotVars, reaperVars
<1>7. ASSUME NEW c \in Commands, Grow(c) PROVE HoldInv'
  BY <1>7, NamesAssumption DEF Grow, HasSession, TypeOK, IInv, HoldInv,
      commandVars, slotVars, reaperVars
<1>8. ASSUME NEW c \in Commands, GrowFails(c) PROVE HoldInv'
  BY <1>8 DEF GrowFails, GrowFailsThen, HasSession, TypeOK, IInv, HoldInv,
      commandVars, slotVars, reaperVars
<1>9. ASSUME NEW c \in Commands, Start(c) PROVE HoldInv'
  BY <1>9 DEF Start, StartFrom, HasSession, TypeOK, IInv, HoldInv, commandVars,
      slotVars, reaperVars
<1>10. ASSUME NEW c \in Commands, StartRefused(c) PROVE HoldInv'
  BY <1>10 DEF StartRefused, HasSession, TypeOK, IInv, HoldInv, commandVars,
      slotVars, reaperVars
<1>11. ASSUME NEW c \in Commands, Attach(c) PROVE HoldInv'
  BY <1>11 DEF Attach, HasSession, TypeOK, IInv, HoldInv, commandVars, slotVars,
      reaperVars
<1>12. ASSUME NEW c \in Commands, Reject(c) PROVE HoldInv'
  BY <1>12 DEF Reject, HasSession, TypeOK, IInv, HoldInv, commandVars, slotVars,
      reaperVars
<1>13. ASSUME NEW c \in Commands, Finish(c) PROVE HoldInv'
  BY <1>13 DEF Finish, HasSession, TypeOK, IInv, HoldInv, commandVars, slotVars,
      reaperVars
<1>14. ASSUME NEW c \in Commands, Disarm(c) PROVE HoldInv'
  BY <1>14 DEF Disarm, HasSession, TypeOK, IInv, HoldInv, commandVars, slotVars,
      reaperVars
<1>15. ASSUME NEW c \in Commands, GiveBack(c) PROVE HoldInv'
  BY <1>15, NamesAssumption DEF GiveBack, GiveBackThen, HasSession, TypeOK,
      IInv, HoldInv, commandVars, slotVars, reaperVars
<1>16. ASSUME NEW c \in Commands, NotifyOne(c) PROVE HoldInv'
  BY <1>16 DEF NotifyOne, HasSession, TypeOK, Waiting, IInv, HoldInv,
      commandVars, slotVars, reaperVars
<1>17. CASE CountClosed
  BY <1>17 DEF CountClosed, HasSession, TypeOK, IInv, HoldInv, commandVars,
      slotVars, reaperVars
<1> QED
  BY Zenon, <1>1, <1>2, <1>3, <1>4, <1>5, <1>6, <1>7, <1>8, <1>9, <1>10, <1>11, <1>12,
      <1>13, <1>14, <1>15, <1>16, <1>17, StepCases DEF Cancel, Age, ReapSome,
      ReapCounting, ReapNone, DestroyExpired, ReaperWakes, ReaperExits,
      ReaperExitsIf, BeginDrop, DropTo, NotifyClosing, NotifyReaper, Join,
      DropSessions, CloseRuntime, vars, commandVars, slotVars, reaperVars

\* OneOwner said of commands and positions instead of sets of sessions.
Apart ==
  /\ \A c, d \in Commands : sess[c] # NoSession /\ sess[c] = sess[d] => c = d
  /\ \A i, j \in 1..Len(idle) : idle[i] = idle[j] => i = j
  /\ \A c \in Commands : sess[c] # NoSession =>
       sess[c] \notin dying /\ \A i \in 1..Len(idle) : sess[c] # idle[i]
  /\ \A i \in 1..Len(idle) : idle[i] \notin dying

\* OneOwner, said with set comprehensions, is the quantified form Apart.
LEMMA ApartIsOneOwner == (OneOwner <=> Apart) /\ (OneOwner' <=> Apart')
<1>1. /\ \A x : x \in IdleSessions <=> \E i \in 1..Len(idle) : x = idle[i]
      /\ \A x : x \in Held <=> x # NoSession /\ \E c \in Commands : x = sess[c]
  BY Zenon DEF IdleSessions, Held
<1>2. /\ \A x : x \in IdleSessions' <=> \E i \in 1..Len(idle') : x = idle'[i]
      /\ \A x : x \in Held' <=> x # NoSession /\ \E c \in Commands : x = sess'[c]
  BY Zenon DEF IdleSessions, Held
<1>3. OneOwner => Apart
  BY <1>1 DEF OneOwner, Apart, Holders
<1>4. Apart => OneOwner
  BY <1>1 DEF OneOwner, Apart, Holders
<1>5. OneOwner' => Apart'
  BY Zenon, <1>2 DEF OneOwner, Apart, Holders
<1>6. Apart' => OneOwner'
  BY <1>2 DEF OneOwner, Apart, Holders
<1> QED
  BY <1>3, <1>4, <1>5, <1>6


\* A session is in one place only.
LEMMA OwnerStep == IInv /\ [Next]_vars => OneOwner'
<1> SUFFICES ASSUME IInv, [Next]_vars PROVE OneOwner'
  OBVIOUS
<1>1. CASE UNCHANGED <<idle, sess, dying>>
  <2>1. Apart
    BY ApartIsOneOwner DEF IInv
  <2>2. Apart'
    BY <1>1, <2>1 DEF Apart
  <2> QED
    BY <2>2, ApartIsOneOwner
<1>2. ASSUME NEW c \in Commands, Take(c) PROVE OneOwner'
  <2>1. /\ Len(idle) \in Nat \ {0} /\ Len(idle') = Len(idle) - 1
        /\ \A i \in 1..Len(idle') : idle'[i] = idle[i]
        /\ idle[Len(idle)] \in Sessions
        /\ sess' = [sess EXCEPT ![c] = idle[Len(idle)]]
    BY <1>2, TakeEffect DEF IInv
  <2>2. TypeOK /\ Apart
    BY ApartIsOneOwner DEF IInv
  <2> QED
    BY <1>2, <2>1, <2>2, ApartIsOneOwner, NamesAssumption
       DEF Take, Apart, TypeOK, reaperVars
<1>3. ASSUME NEW c \in Commands, Grow(c) PROVE OneOwner'
  <2>1. PICK s \in Sessions \ Live : sess' = [sess EXCEPT ![c] = s]
    BY Zenon, <1>3 DEF Grow
  <2>2. /\ \A i \in 1..Len(idle) : idle[i] # s
        /\ \A d \in Commands : sess[d] # NoSession => sess[d] # s
        /\ s \notin dying
    BY <2>1 DEF Live, IdleSessions, Held
  <2>3. TypeOK /\ Apart
    BY ApartIsOneOwner DEF IInv
  <2> QED
    BY <1>3, <2>1, <2>2, <2>3, ApartIsOneOwner DEF Grow, Apart, TypeOK, reaperVars
<1>4. ASSUME NEW c \in Commands, GiveBack(c) PROVE OneOwner'
  <2>1. /\ sess[c] \in Sessions
        /\ Len(idle) \in Nat /\ Len(idle') = Len(idle) + 1
        /\ \A i \in 1..Len(idle) : idle'[i] = idle[i]
        /\ idle'[Len(idle) + 1] = sess[c]
    BY <1>4, GiveBackEffect DEF IInv
  <2>2. TypeOK /\ Apart
    BY ApartIsOneOwner DEF IInv
  <2> QED
    <3>1. sess' = [sess EXCEPT ![c] = NoSession] /\ dying' = dying
      BY <1>4 DEF GiveBack, GiveBackThen, reaperVars
    <3>2. sess[c] # NoSession
      BY <2>1, NamesAssumption
    <3>3. \A i \in 1..Len(idle') :
            IF i = Len(idle) + 1 THEN idle'[i] = sess[c]
            ELSE i \in 1..Len(idle) /\ idle'[i] = idle[i]
      BY <2>1
    <3>4. \A i \in 1..Len(idle) : idle[i] # sess[c]
      BY <2>2, <3>2 DEF Apart
    <3>5. \A i, j \in 1..Len(idle') : idle'[i] = idle'[j] => i = j
      <4> SUFFICES ASSUME NEW i \in 1..Len(idle'), NEW j \in 1..Len(idle'),
                          idle'[i] = idle'[j]
                   PROVE  i = j
        OBVIOUS
      <4>1. CASE i = Len(idle) + 1 \/ j = Len(idle) + 1
        BY <3>3, <3>4, <4>1
      <4>2. CASE i # Len(idle) + 1 /\ j # Len(idle) + 1
        BY <2>2, <3>3, <4>2 DEF Apart
      <4> QED
        BY <4>1, <4>2
    <3>6. /\ \A d \in Commands : sess'[d] = IF d = c THEN NoSession ELSE sess[d]
          /\ \A d \in Commands \ {c} : sess[d] # sess[c]
      BY <2>2, <3>1, <3>2 DEF Apart, TypeOK
    <3>7. \A d \in Commands : sess'[d] # NoSession =>
            /\ sess'[d] \notin dying'
            /\ \A i \in 1..Len(idle') : sess'[d] # idle'[i]
      BY <2>2, <3>1, <3>3, <3>6 DEF Apart
    <3>8. \A i \in 1..Len(idle') : idle'[i] \notin dying'
      BY <2>2, <3>1, <3>2, <3>3 DEF Apart
    <3> QED
      BY <2>2, <3>5, <3>6, <3>7, <3>8, ApartIsOneOwner DEF Apart
<1>5. CASE ReapSome
  <2>1. /\ Expired \in Nat \ {0} /\ Expired <= Len(idle)
        /\ Len(idle) \in Nat /\ Len(idle') = Len(idle) - Expired
        /\ \A i \in 1..Len(idle') : idle'[i] = idle[Expired + i]
        /\ dying' = {idle[i] : i \in 1..Expired}
    <3>1. TypeOK
      BY DEF IInv
    <3>2. stale \in Nat
      BY <3>1, LenProperties DEF TypeOK
    <3> QED
      BY <1>5, <3>1, <3>2, ReapEffect
  <2>2. Apart /\ dying = {}
    BY <1>5, ApartIsOneOwner DEF IInv, Accounting, ReapSome, ReapCounting
  <2>3. sess' = sess
    BY <1>5 DEF ReapSome, ReapCounting, commandVars
  <2> QED
    <3>1. \A i \in 1..Len(idle') : Expired + i \in 1..Len(idle)
      BY <2>1
    <3>2. \A i, j \in 1..Len(idle') : idle'[i] = idle'[j] => i = j
      BY <2>1, <2>2, <3>1 DEF Apart
    <3>3. \A i \in 1..Len(idle') : idle'[i] \notin dying'
      <4> SUFFICES ASSUME NEW i \in 1..Len(idle'), NEW j \in 1..Expired,
                          idle'[i] = idle[j]
                   PROVE  FALSE
        BY <2>1
      <4>1. Expired + i = j
        BY <2>1, <2>2, <3>1 DEF Apart
      <4> QED
        BY <2>1, <4>1
    <3> QED
      BY <2>1, <2>2, <2>3, <3>1, <3>2, <3>3, ApartIsOneOwner DEF Apart
<1>6. CASE DestroyExpired
  BY <1>6 DEF DestroyExpired, Holders, Held, IdleSessions, IInv, OneOwner,
      commandVars, slotVars, reaperVars
<1>7. CASE DropSessions
  BY <1>7 DEF DropSessions, Holders, Held, IdleSessions, IInv, OneOwner,
      commandVars, slotVars, reaperVars
<1> QED
  BY Zenon, <1>1, <1>2, <1>3, <1>4, <1>5, <1>6, <1>7, StepCases DEF Ask, Reserve,
      ReserveAs, Wait, SpuriousWake, GrowFails, GrowFailsThen, NotifyOne, Start,
      StartFrom, StartRefused, Attach, Reject, Finish, Disarm, Cancel, Age,
      ReapNone, CountClosed, ReaperWakes, ReaperExits, ReaperExitsIf, BeginDrop,
      DropTo, NotifyClosing, NotifyReaper, Join, CloseRuntime, vars,
      commandVars, slotVars, reaperVars

\* `open` counts every session that exists or is on its way, up to the ceiling.
LEMMA AccountingStep == IInv /\ [Next]_vars => Accounting'
<1> SUFFICES ASSUME IInv, [Next]_vars PROVE Accounting'
  OBVIOUS
<1> DEFINE H == Cardinality(Holders)
           O == Cardinality(Opening)
<1>1. /\ TypeOK /\ HoldInv /\ Accounting
      /\ Len(idle) \in Nat /\ H \in Nat /\ O \in Nat
      /\ open \in Nat /\ reaped \in Nat /\ Max \in Nat
      /\ Cardinality(dying) \in Nat
  BY Covered, LimitsAssumption, FS_CardinalityType DEF IInv, Accounting
<1>2. CASE UNCHANGED <<idle, open, reaped, reaper, dying, Holders, Opening>>
  BY <1>1, <1>2 DEF Accounting
<1>3. ASSUME NEW c \in Commands,
             \/ Ask(c) \/ Wait(c) \/ SpuriousWake(c) \/ NotifyOne(c)
             \/ Start(c) \/ StartRefused(c) \/ Attach(c) \/ Reject(c)
             \/ Finish(c) \/ Disarm(c) \/ Cancel(c)
      PROVE  Accounting'
  <2>1. UNCHANGED <<idle, open, reaped, reaper, dying, sess>>
    BY Zenon, <1>3 DEF Ask, Wait, SpuriousWake, NotifyOne, Start, StartFrom,
       StartRefused, Attach, Reject, Finish, Disarm, Cancel, commandVars,
       reaperVars
  <2>2. \A d \in Commands : pc'[d] = "opening" <=> pc[d] = "opening"
    BY <1>1, <1>3 DEF TypeOK, Waiting, Ask, Wait, SpuriousWake, NotifyOne,
       Start, StartFrom, StartRefused, Attach, Reject, Finish, Disarm, Cancel
  <2>3. Holders' = Holders /\ Opening' = Opening
    BY <2>1, <2>2 DEF Holders, Opening
  <2> QED
    BY Zenon, <1>2, <2>1, <2>3
<1>4. ASSUME NEW c \in Commands, Take(c) PROVE Accounting'
  <2>1. Holders' = Holders \cup {c} /\ c \notin Holders
    BY <1>1, <1>4, TakeEffect, NamesAssumption
       DEF Take, Holders, TypeOK, HoldInv, HasSession
  <2>2. Opening' = Opening
    BY <1>1, <1>4 DEF Take, Opening, TypeOK
  <2>3. Cardinality(Holders') = H + 1
    BY <2>1, Joins DEF Holders
  <2>4. Len(idle') = Len(idle) - 1
    BY <1>1, <1>4, TakeEffect
  <2>5. UNCHANGED <<open, reaped, reaper, dying>>
    BY <1>4 DEF Take, reaperVars
  <2> QED
    BY <1>1, <2>2, <2>3, <2>4, <2>5 DEF Accounting
<1>5. ASSUME NEW c \in Commands, Reserve(c) PROVE Accounting'
  <2>1. Opening' = Opening \cup {c} /\ c \notin Opening
    BY <1>1, <1>5 DEF Reserve, ReserveAs, Opening, TypeOK
  <2>2. Cardinality(Opening') = O + 1
    BY <2>1, Joins DEF Opening
  <2>3. /\ open' = open + 1 /\ open < Max
        /\ UNCHANGED <<idle, sess, reaped, reaper, dying>>
    BY <1>5 DEF Reserve, ReserveAs, commandVars, reaperVars
  <2>4. Holders' = Holders
    BY <2>3 DEF Holders
  <2> QED
    BY <1>1, <2>2, <2>3, <2>4 DEF Accounting
<1>6. ASSUME NEW c \in Commands, Grow(c) PROVE Accounting'
  <2>1. Opening' = Opening \ {c} /\ c \in Opening
    BY <1>1, <1>6 DEF Grow, Opening, TypeOK
  <2>2. Holders' = Holders \cup {c} /\ c \notin Holders
    BY <1>1, <1>6, NamesAssumption
       DEF Grow, Holders, TypeOK, HoldInv, HasSession
  <2>3. Cardinality(Opening') = O - 1
    BY <2>1, Leaves DEF Opening
  <2>4. Cardinality(Holders') = H + 1
    BY <2>2, Joins DEF Holders
  <2>5. UNCHANGED <<idle, open, reaped, reaper, dying>>
    BY <1>6 DEF Grow, reaperVars
  <2> QED
    BY <1>1, <2>3, <2>4, <2>5 DEF Accounting
<1>7. ASSUME NEW c \in Commands, GrowFails(c) PROVE Accounting'
  <2>1. Opening' = Opening \ {c} /\ c \in Opening
    BY <1>1, <1>7 DEF GrowFails, GrowFailsThen, Opening, TypeOK
  <2>2. Cardinality(Opening') = O - 1
    BY <2>1, Leaves DEF Opening
  <2>3. open' = open - 1 /\ UNCHANGED <<idle, sess, reaped, reaper, dying>>
    BY <1>7 DEF GrowFails, GrowFailsThen, reaperVars
  <2>4. Holders' = Holders
    BY <2>3 DEF Holders
  <2> QED
    BY <1>1, <2>2, <2>3, <2>4 DEF Accounting
<1>8. ASSUME NEW c \in Commands, GiveBack(c) PROVE Accounting'
  <2>1. Holders' = Holders \ {c} /\ c \in Holders
    BY <1>1, <1>8 DEF GiveBack, GiveBackThen, Holders, TypeOK, HoldInv,
       HasSession
  <2>2. Opening' = Opening
    BY <1>1, <1>8 DEF GiveBack, GiveBackThen, Opening, TypeOK
  <2>3. Cardinality(Holders') = H - 1
    BY <2>1, Leaves DEF Holders
  <2>4. Len(idle') = Len(idle) + 1
    BY <1>1, <1>8, GiveBackEffect
  <2>5. UNCHANGED <<open, reaped, reaper, dying>>
    BY <1>8 DEF GiveBack, GiveBackThen, reaperVars
  <2> QED
    BY <1>1, <2>2, <2>3, <2>4, <2>5 DEF Accounting
<1>9. CASE ReapSome
  <2>1. /\ Expired \in Nat \ {0} /\ Len(idle') = Len(idle) - Expired
        /\ dying' = {idle[i] : i \in 1..Expired}
        /\ reaped' = Expired /\ open' = open
    BY <1>1, <1>9, ReapEffect
  <2>2. IsFiniteSet(dying') /\ Cardinality(dying') <= Expired
    <3> DEFINE pick == [i \in 1..Expired |-> idle[i]]
    <3>1. pick \in Surjection(1..Expired, dying')
      BY <2>1 DEF Surjection
    <3>2. IsFiniteSet(1..Expired) /\ Cardinality(1..Expired) = Expired
      BY <2>1, FS_Interval
    <3> HIDE DEF pick
    <3> QED
      BY <3>1, <3>2, FS_Surjection
  <2>3. /\ UNCHANGED <<pc, sess>> /\ reaper = "scan" /\ reaper' = "destroying"
    BY <1>9 DEF ReapSome, ReapCounting, commandVars
  <2>4. reaped = 0 /\ Holders' = Holders /\ Opening' = Opening
    BY <1>1, <2>3 DEF Accounting, Holders, Opening
  <2> QED
    BY <1>1, <2>1, <2>2, <2>3, <2>4 DEF Accounting
<1>10. CASE ReapNone \/ ReaperWakes \/ ReaperExits \/ NotifyClosing
  <2>1. /\ UNCHANGED <<idle, open, pc, sess, reaped, dying>>
        /\ reaper' = reaper \/ reaper \in {"scan", "waiting"}
    BY <1>10 DEF ReapNone, ReaperWakes, ReaperExits, ReaperExitsIf,
       NotifyClosing, NotifyReaper, commandVars
  <2>2. Holders' = Holders /\ Opening' = Opening
    BY <2>1 DEF Holders, Opening
  <2> QED
    BY <1>1, <2>1, <2>2 DEF Accounting
<1>11. CASE DestroyExpired
  <2>1. /\ UNCHANGED <<idle, open, pc, sess, reaped>>
        /\ dying' = {} /\ reaper' = "counting"
    BY <1>11 DEF DestroyExpired, commandVars
  <2>2. Holders' = Holders /\ Opening' = Opening
    BY <2>1 DEF Holders, Opening
  <2> QED
    BY <1>1, <2>1, <2>2, FS_EmptySet DEF Accounting
<1>12. CASE CountClosed
  <2>1. /\ UNCHANGED <<idle, sess, dying>> /\ reaper = "counting"
        /\ open' = open - reaped /\ reaped' = 0
    BY <1>12 DEF CountClosed, commandVars
  <2>2. Holders' = Holders /\ Opening' = Opening
    BY <1>1, <1>12, <2>1 DEF CountClosed, Holders, Opening, TypeOK
  <2>3. dying = {} /\ Cardinality(dying) = 0
    BY <1>1, <2>1, FS_EmptySet DEF Accounting
  <2> QED
    BY <1>1, <2>1, <2>2, <2>3 DEF Accounting
<1>13. CASE DropSessions
  <2>1. UNCHANGED <<open, pc, sess, reaper, dying, reaped>> /\ Len(idle') = 0
    BY <1>13 DEF DropSessions, commandVars
  <2>2. Holders' = Holders /\ Opening' = Opening
    BY <2>1 DEF Holders, Opening
  <2> QED
    BY <1>1, <2>1, <2>2 DEF Accounting
<1>14. CASE Age \/ BeginDrop \/ Join \/ CloseRuntime \/ UNCHANGED vars
  <2>1. UNCHANGED <<idle, open, pc, sess, reaped, reaper, dying>>
    BY Zenon, <1>14 DEF Age, BeginDrop, DropTo, Join, CloseRuntime, vars, commandVars,
       reaperVars
  <2> QED
    BY <1>2, <2>1 DEF Holders, Opening
<1> QED
  BY Zenon, <1>3, <1>4, <1>5, <1>6, <1>7, <1>8, <1>9, <1>10, <1>11, <1>12, <1>13,
     <1>14, StepCases


\* A slot is armed from start to finish, with its own command's session.
LEMMA SlotStep == IInv /\ [Next]_vars => SlotInv'
<1> SUFFICES ASSUME IInv, [Next]_vars PROVE SlotInv'
  OBVIOUS
<1>1. CASE UNCHANGED <<pc, sess, slot, interrupt>>
  BY <1>1 DEF IInv, SlotInv
<1>2. ASSUME NEW c \in Commands, Ask(c) PROVE SlotInv'
  BY <1>2 DEF Ask, TypeOK, IInv, SlotInv, commandVars, slotVars, reaperVars
<1>3. ASSUME NEW c \in Commands, Take(c) PROVE SlotInv'
  BY <1>3 DEF Take, TypeOK, IInv, SlotInv, commandVars, slotVars, reaperVars
<1>4. ASSUME NEW c \in Commands, Reserve(c) PROVE SlotInv'
  BY <1>4 DEF Reserve, ReserveAs, TypeOK, IInv, SlotInv, commandVars, slotVars,
      reaperVars
<1>5. ASSUME NEW c \in Commands, Wait(c) PROVE SlotInv'
  BY <1>5 DEF Wait, TypeOK, IInv, SlotInv, commandVars, slotVars, reaperVars
<1>6. ASSUME NEW c \in Commands, SpuriousWake(c) PROVE SlotInv'
  BY <1>6 DEF SpuriousWake, TypeOK, IInv, SlotInv, commandVars, slotVars,
      reaperVars
<1>7. ASSUME NEW c \in Commands, Grow(c) PROVE SlotInv'
  BY <1>7 DEF Grow, TypeOK, IInv, SlotInv, commandVars, slotVars, reaperVars
<1>8. ASSUME NEW c \in Commands, GrowFails(c) PROVE SlotInv'
  BY <1>8 DEF GrowFails, GrowFailsThen, TypeOK, IInv, SlotInv, commandVars,
      slotVars, reaperVars
<1>9. ASSUME NEW c \in Commands, NotifyOne(c) PROVE SlotInv'
  BY <1>9 DEF NotifyOne, TypeOK, Waiting, IInv, SlotInv, commandVars, slotVars,
      reaperVars
<1>10. ASSUME NEW c \in Commands, Start(c) PROVE SlotInv'
  BY <1>10 DEF Start, StartFrom, TypeOK, IInv, SlotInv, commandVars, slotVars,
      reaperVars
<1>11. ASSUME NEW c \in Commands, StartRefused(c) PROVE SlotInv'
  BY <1>11 DEF StartRefused, TypeOK, IInv, SlotInv, commandVars, slotVars,
      reaperVars
<1>12. ASSUME NEW c \in Commands, Attach(c) PROVE SlotInv'
  BY <1>12 DEF Attach, TypeOK, IInv, SlotInv, commandVars, slotVars, reaperVars
<1>13. ASSUME NEW c \in Commands, Reject(c) PROVE SlotInv'
  BY <1>13 DEF Reject, TypeOK, IInv, SlotInv, commandVars, slotVars, reaperVars
<1>14. ASSUME NEW c \in Commands, Finish(c) PROVE SlotInv'
  BY <1>14 DEF Finish, TypeOK, IInv, SlotInv, commandVars, slotVars, reaperVars
<1>15. ASSUME NEW c \in Commands, Disarm(c) PROVE SlotInv'
  BY <1>15 DEF Disarm, TypeOK, IInv, SlotInv, commandVars, slotVars, reaperVars
<1>16. ASSUME NEW c \in Commands, GiveBack(c) PROVE SlotInv'
  BY <1>16 DEF GiveBack, GiveBackThen, TypeOK, IInv, SlotInv, commandVars,
      slotVars, reaperVars
<1>17. ASSUME NEW c \in Commands, Cancel(c) PROVE SlotInv'
  BY <1>17 DEF Cancel, TypeOK, IInv, SlotInv, commandVars, slotVars, reaperVars
<1>18. CASE CountClosed
  BY Zenon, <1>18 DEF CountClosed, TypeOK, IInv, SlotInv, commandVars, slotVars,
      reaperVars
<1> QED
  BY <1>1, <1>2, <1>3, <1>4, <1>5, <1>6, <1>7, <1>8, <1>9, <1>10, <1>11, <1>12,
      <1>13, <1>14, <1>15, <1>16, <1>17, <1>18, StepCases DEF Age, ReapSome,
      ReapCounting, ReapNone, DestroyExpired, ReaperWakes, ReaperExits,
      ReaperExitsIf, BeginDrop, DropTo, NotifyClosing, NotifyReaper, Join,
      DropSessions, CloseRuntime, vars, commandVars, slotVars, reaperVars

\* The operation attached to a session is that of the command holding it.
LEMMA OpStep == IInv /\ [Next]_vars => OpInv'
<1> SUFFICES ASSUME IInv, [Next]_vars PROVE OpInv'
  OBVIOUS
<1>1. CASE UNCHANGED <<pc, sess, op>>
  BY <1>1 DEF IInv, OpInv
<1>2. ASSUME NEW c \in Commands, Ask(c) PROVE OpInv'
  BY <1>2 DEF Ask, TypeOK, IInv, OpInv, commandVars, slotVars, reaperVars
<1>3. ASSUME NEW c \in Commands, Take(c) PROVE OpInv'
  BY <1>3, NamesAssumption DEF Take, TypeOK, HoldInv, HasSession, IInv, OpInv,
      commandVars, slotVars, reaperVars
<1>4. ASSUME NEW c \in Commands, Reserve(c) PROVE OpInv'
  BY <1>4 DEF Reserve, ReserveAs, TypeOK, IInv, OpInv, commandVars, slotVars,
      reaperVars
<1>5. ASSUME NEW c \in Commands, Wait(c) PROVE OpInv'
  BY <1>5 DEF Wait, TypeOK, IInv, OpInv, commandVars, slotVars, reaperVars
<1>6. ASSUME NEW c \in Commands, SpuriousWake(c) PROVE OpInv'
  BY <1>6 DEF SpuriousWake, TypeOK, IInv, OpInv, commandVars, slotVars,
      reaperVars
<1>7. ASSUME NEW c \in Commands, Grow(c) PROVE OpInv'
  BY <1>7, NamesAssumption DEF Grow, TypeOK, HoldInv, HasSession, IInv, OpInv,
      commandVars, slotVars, reaperVars
<1>8. ASSUME NEW c \in Commands, GrowFails(c) PROVE OpInv'
  BY <1>8 DEF GrowFails, GrowFailsThen, TypeOK, IInv, OpInv, commandVars,
      slotVars, reaperVars
<1>9. ASSUME NEW c \in Commands, NotifyOne(c) PROVE OpInv'
  BY <1>9 DEF NotifyOne, TypeOK, Waiting, IInv, OpInv, commandVars, slotVars,
      reaperVars
<1>10. ASSUME NEW c \in Commands, Start(c) PROVE OpInv'
  BY <1>10 DEF Start, StartFrom, TypeOK, IInv, OpInv, commandVars, slotVars,
      reaperVars
<1>11. ASSUME NEW c \in Commands, StartRefused(c) PROVE OpInv'
  BY <1>11 DEF StartRefused, TypeOK, IInv, OpInv, commandVars, slotVars,
      reaperVars
<1>12. ASSUME NEW c \in Commands, Attach(c) PROVE OpInv'
  BY <1>12, NamesAssumption DEF Attach, TypeOK, HoldInv, HasSession, IInv,
      OpInv, commandVars, slotVars, reaperVars
<1>13. ASSUME NEW c \in Commands, Reject(c) PROVE OpInv'
  BY <1>13 DEF Reject, TypeOK, IInv, OpInv, commandVars, slotVars, reaperVars
<1>14. ASSUME NEW c \in Commands, Finish(c) PROVE OpInv'
  BY <1>14, NamesAssumption DEF Finish, TypeOK, HoldInv, HasSession, OneOwner,
      Holders, IInv, OpInv, commandVars, slotVars, reaperVars
<1>15. ASSUME NEW c \in Commands, Disarm(c) PROVE OpInv'
  BY <1>15 DEF Disarm, TypeOK, IInv, OpInv, commandVars, slotVars, reaperVars
<1>16. ASSUME NEW c \in Commands, GiveBack(c) PROVE OpInv'
  BY <1>16, NamesAssumption DEF GiveBack, GiveBackThen, TypeOK, IInv, OpInv,
      commandVars, slotVars, reaperVars
<1>17. CASE CountClosed
  BY <1>17 DEF CountClosed, TypeOK, IInv, OpInv, commandVars, slotVars,
      reaperVars
<1> QED
  BY <1>1, <1>2, <1>3, <1>4, <1>5, <1>6, <1>7, <1>8, <1>9, <1>10, <1>11, <1>12,
      <1>13, <1>14, <1>15, <1>16, <1>17, StepCases DEF Cancel, Age, ReapSome,
      ReapCounting, ReapNone, DestroyExpired, ReaperWakes, ReaperExits,
      ReaperExitsIf, BeginDrop, DropTo, NotifyClosing, NotifyReaper, Join,
      DropSessions, CloseRuntime, vars, commandVars, slotVars, reaperVars


\* An interrupt lands on the command whose slot was cancelled, or on nothing:
\* the session it aims at is held by that command alone.
LEMMA CancelEffect ==
  ASSUME IInv, NEW c \in Commands, Cancel(c)
  PROVE  \/ killed' = killed
         \/ killed' = killed \cup {c} /\ pc[c] = "running"
<1>1. CASE slot[c] # "Running"
  BY <1>1 DEF Cancel
<1>2. CASE slot[c] = "Running"
  <2>1. /\ interrupt[c] = sess[c] /\ sess[c] \in Sessions
    BY <1>2, ArmedSession
  <2>2. ASSUME op[sess[c]] # NoCommand
        PROVE  op[sess[c]] = c /\ pc[c] = "running"
    <3>1. op[sess[c]] \in Commands
      BY <2>1, <2>2 DEF IInv, TypeOK
    <3>2. /\ sess[op[sess[c]]] = sess[c] /\ sess[c] # NoSession
          /\ pc[op[sess[c]]] = "running"
      BY <2>1, <2>2, NamesAssumption DEF IInv, OpInv
    <3>3. op[sess[c]] = c
      BY Zenon, <3>1, <3>2 DEF IInv, OneOwner, Holders
    <3> QED
      BY <3>2, <3>3
  <2> QED
    BY <1>2, <2>1, <2>2 DEF Cancel, Kill
<1> QED
  BY <1>1, <1>2

\* So only commands that were cancelled are ever interrupted.
LEMMA InterruptStep == IInv /\ [Next]_vars => InterruptsOwnCommand'
<1> SUFFICES ASSUME IInv, [Next]_vars PROVE InterruptsOwnCommand'
  OBVIOUS
<1>1. CASE UNCHANGED <<killed, slot>>
  BY <1>1 DEF IInv, InterruptsOwnCommand
<1>2. ASSUME NEW c \in Commands, Start(c) PROVE InterruptsOwnCommand'
  BY <1>2 DEF Start, StartFrom, TypeOK, IInv, InterruptsOwnCommand, commandVars,
      slotVars, reaperVars
<1>3. ASSUME NEW c \in Commands, Disarm(c) PROVE InterruptsOwnCommand'
  BY <1>3 DEF Disarm, TypeOK, IInv, InterruptsOwnCommand, commandVars, slotVars,
      reaperVars
<1>4. ASSUME NEW c \in Commands, Cancel(c) PROVE InterruptsOwnCommand'
  BY Zenon, <1>4, CancelEffect DEF Cancel, IInv, InterruptsOwnCommand, TypeOK
<1> QED
  BY <1>1, <1>2, <1>3, <1>4, StepCases DEF Ask, Take, Reserve, ReserveAs, Wait,
      SpuriousWake, Grow, GrowFails, GrowFailsThen, NotifyOne, StartRefused,
      Attach, Reject, Finish, GiveBack, GiveBackThen, Age, ReapSome,
      ReapCounting, ReapNone, DestroyExpired, CountClosed, ReaperWakes,
      ReaperExits, ReaperExitsIf, BeginDrop, DropTo, NotifyClosing,
      NotifyReaper, Join, DropSessions, CloseRuntime, vars, commandVars,
      slotVars, reaperVars

\* Room for a waiter and steps under way to use it grow and shrink together.
LEMMA WakeupStep == IInv /\ [Next]_vars => NoLostWakeup'
<1> SUFFICES ASSUME IInv, [Next]_vars PROVE NoLostWakeup'
  OBVIOUS
<1> DEFINE S == Cardinality(Stirring)
<1>1. /\ TypeOK /\ HoldInv /\ NoLostWakeup /\ open <= Max
      /\ Len(idle) \in Nat /\ S \in Nat /\ open \in Nat /\ Max \in Nat
  BY Covered, CommandSets, LimitsAssumption DEF IInv, Accounting, Stirring
<1>2. ASSUME NEW c \in Commands,
             \/ Start(c) \/ StartRefused(c) \/ Attach(c) \/ Reject(c)
             \/ Finish(c) \/ Disarm(c) \/ Cancel(c) \/ Grow(c)
      PROVE  NoLostWakeup'
  <2>1. UNCHANGED <<idle, open>>
    BY Zenon, <1>2 DEF Grow, Start, StartFrom, StartRefused, Attach, Reject, Finish,
       Disarm, Cancel
  <2>2. \A d \in Commands :
          pc'[d] = pc[d] \/ {pc[d], pc'[d]} \cap
            {"checkout", "unreserved", "returned", "waiting"} = {}
    BY <1>1, <1>2 DEF TypeOK, Grow, Start, StartFrom, StartRefused, Attach,
       Reject, Finish, Disarm, Cancel
  <2>3. Stirring' = Stirring /\ Waiting' = Waiting
    BY Zenon, <2>2 DEF Stirring, Waiting
  <2> QED
    BY Zenon, <1>1, <2>1, <2>3 DEF NoLostWakeup
<1>3. ASSUME NEW c \in Commands, Ask(c) \/ SpuriousWake(c)
      PROVE  NoLostWakeup'
  <2>1. /\ Stirring' = Stirring \cup {c} /\ c \notin Stirring
        /\ Waiting' \subseteq Waiting
    BY <1>1, <1>3 DEF Ask, SpuriousWake, Stirring, Waiting, TypeOK
  <2>2. Cardinality(Stirring') = S + 1
    BY <2>1, Joins DEF Stirring
  <2>3. UNCHANGED <<idle, open>>
    BY <1>3 DEF Ask, SpuriousWake
  <2> QED
    BY <1>1, <2>1, <2>2, <2>3 DEF NoLostWakeup
<1>4. ASSUME NEW c \in Commands, Take(c) \/ Reserve(c) PROVE NoLostWakeup'
  <2>1. /\ Stirring' = Stirring \ {c} /\ c \in Stirring
        /\ Waiting' = Waiting
    BY <1>1, <1>4 DEF Take, Reserve, ReserveAs, Stirring, Waiting, TypeOK
  <2>2. Cardinality(Stirring') = S - 1
    BY <2>1, Leaves DEF Stirring
  <2>3. Len(idle') + (Max - open') = Len(idle) + (Max - open) - 1
    <3>1. CASE Take(c)
      BY <1>1, <3>1, TakeEffect DEF Take
    <3>2. CASE Reserve(c)
      BY <1>1, <3>2 DEF Reserve, ReserveAs
    <3> QED
      BY <1>4, <3>1, <3>2
  <2> QED
    BY <1>1, <2>1, <2>2, <2>3 DEF NoLostWakeup
<1>5. ASSUME NEW c \in Commands, Wait(c) PROVE NoLostWakeup'
  <2>1. Len(idle') + (Max - open') <= 0
    BY <1>1, <1>5 DEF Wait
  <2>2. Cardinality(Stirring') \in Nat
    BY CommandSets DEF Stirring
  <2>3. Len(idle') \in Nat /\ open' \in Nat
    BY <1>1, <1>5 DEF Wait
  <2> QED
    BY <1>1, <2>1, <2>2, <2>3 DEF NoLostWakeup
<1>6. ASSUME NEW c \in Commands, GrowFails(c) \/ GiveBack(c)
      PROVE  NoLostWakeup'
  <2>1. /\ Stirring' = Stirring \cup {c} /\ c \notin Stirring
        /\ Waiting' = Waiting
    BY <1>1, <1>6 DEF GrowFails, GrowFailsThen, GiveBack, GiveBackThen,
       Stirring, Waiting, TypeOK
  <2>2. Cardinality(Stirring') = S + 1
    BY <2>1, Joins DEF Stirring
  <2>3. Len(idle') + (Max - open') = Len(idle) + (Max - open) + 1
    <3>1. CASE GrowFails(c)
      BY <1>1, <3>1 DEF GrowFails, GrowFailsThen
    <3>2. CASE GiveBack(c)
      <4>1. Len(idle') = Len(idle) + 1
        BY <1>1, <3>2, GiveBackEffect
      <4>2. open' = open
        BY <3>2 DEF GiveBack, GiveBackThen
      <4> QED
        BY <1>1, <4>1, <4>2
    <3> QED
      BY <1>6, <3>1, <3>2
  <2> QED
    BY <1>1, <2>1, <2>2, <2>3 DEF NoLostWakeup
<1>7. ASSUME NEW c \in Commands, NotifyOne(c) PROVE NoLostWakeup'
  <2>1. UNCHANGED <<idle, open>>
    BY <1>7 DEF NotifyOne
  <2>2. CASE Waiting = {}
    BY <1>1, <1>7, <2>2 DEF NotifyOne, Waiting, NoLostWakeup, TypeOK
  <2>3. ASSUME NEW w \in Waiting,
               pc' = [pc EXCEPT ![c] = "done", ![w] = "checkout"]
        PROVE  NoLostWakeup'
    <3>1. w \in Commands /\ pc[w] = "waiting" /\ c # w /\ c \in Stirring
      BY <1>7, <2>3 DEF NotifyOne, Waiting, Stirring
    <3>2. /\ Stirring' = (Stirring \ {c}) \cup {w} /\ w \notin Stirring
          /\ Waiting # {}
      BY <1>1, <2>3, <3>1 DEF Stirring, Waiting, TypeOK
    <3>3. Cardinality(Stirring \ {c}) = S - 1
      BY <3>1, Leaves DEF Stirring
    <3>4. Cardinality(Stirring') = (S - 1) + 1
      <4>1. Stirring \ {c} \in SUBSET Commands /\ w \notin Stirring \ {c}
        BY <3>2 DEF Stirring
      <4> QED
        BY <3>1, <3>2, <3>3, <4>1, Joins
    <3> QED
      BY <1>1, <2>1, <3>2, <3>4 DEF NoLostWakeup
  <2> QED
    BY <1>7, <2>2, <2>3 DEF NotifyOne
<1>8. CASE ReapSome
  <2>1. Len(idle') <= Len(idle) /\ Len(idle') \in Int /\ open' = open
    BY <1>1, <1>8, ReapEffect
  <2>2. Stirring' = Stirring /\ Waiting' = Waiting
    BY <1>8 DEF ReapSome, ReapCounting, Stirring, Waiting
  <2> QED
    BY <1>1, <2>1, <2>2 DEF NoLostWakeup
<1>9. CASE CountClosed
  <2>1. Waiting' = {}
    BY <1>1, <1>9 DEF CountClosed, Waiting, TypeOK
  <2> QED
    BY <2>1 DEF NoLostWakeup
<1>10. CASE DropSessions
  <2>1. Waiting' = {}
    BY <1>10 DEF DropSessions, IInv, CloseInv, Quiet, Waiting
  <2> QED
    BY <2>1 DEF NoLostWakeup
<1>11. CASE \/ Age \/ ReapNone \/ DestroyExpired \/ ReaperWakes \/ ReaperExits
            \/ BeginDrop \/ NotifyClosing \/ Join \/ CloseRuntime
            \/ UNCHANGED vars
  <2>1. UNCHANGED <<idle, open, pc>>
    BY <1>11 DEF Age, ReapNone, DestroyExpired, ReaperWakes, ReaperExits,
       ReaperExitsIf, BeginDrop, DropTo, NotifyClosing, NotifyReaper, Join,
       CloseRuntime, vars
  <2> QED
    BY Zenon, <1>1, <2>1 DEF NoLostWakeup, Stirring, Waiting
<1> QED
  BY Zenon, <1>2, <1>3, <1>4, <1>5, <1>6, <1>7, <1>8, <1>9, <1>10, <1>11, StepCases


--------------------------------------------------------------------------------
(* Dropping the pool                                                        *)

\* Past the drop no command moves and, once joined, neither does the reaper.
LEMMA CloseStep == IInv /\ [Next]_vars => CloseInv'
<1> SUFFICES ASSUME IInv, [Next]_vars PROVE CloseInv'
  OBVIOUS
<1>1. CloseInv /\ TypeOK
  BY DEF IInv
<1>2. ASSUME NEW c \in Commands, Ask(c) \/ Thread(c) \/ SpuriousWake(c)
      PROVE  phase' = "open"
  <2>1. ~ Quiet \/ phase = "open"
    BY Zenon, <1>2 DEF Quiet, Ask, SpuriousWake, Thread, Checkout, Open, Arm, Engine,
       HandBack, Take, Reserve, ReserveAs, Wait, Grow, GrowFails,
       GrowFailsThen, Start, StartFrom, StartRefused, Attach, Reject, Finish,
       Disarm, GiveBack, GiveBackThen, NotifyOne
  <2>2. phase' = phase
    BY <1>2 DEF Ask, SpuriousWake, Thread, Checkout, Open, Arm, Engine,
       HandBack, Take, Reserve, ReserveAs, Wait, Grow, GrowFails,
       GrowFailsThen, Start, StartFrom, StartRefused, Attach, Reject, Finish,
       Disarm, GiveBack, GiveBackThen, NotifyOne, reaperVars
  <2> QED
    BY Zenon, <1>1, <2>1, <2>2 DEF CloseInv
<1>3. ASSUME NEW c \in Commands, Cancel(c) PROVE CloseInv'
  BY <1>1, <1>3 DEF Cancel, CloseInv, Quiet, reaperVars
<1>4. CASE Age
  BY <1>1, <1>4 DEF Age, CloseInv, Quiet, reaperVars
<1>5. CASE ReapSome \/ ReapNone
  BY <1>1, <1>5 DEF ReapSome, ReapCounting, ReapNone, CloseInv
<1>6. CASE DestroyExpired \/ ReaperWakes \/ ReaperExits
  BY <1>1, <1>6 DEF DestroyExpired, ReaperWakes, ReaperExits, ReaperExitsIf,
     CloseInv, Quiet
<1>7. CASE CountClosed
  <2>1. Quiet => Quiet'
    BY <1>1, <1>7 DEF CountClosed, Quiet, TypeOK
  <2> QED
    BY <1>1, <1>7, <2>1 DEF CountClosed, CloseInv
<1>8. CASE BeginDrop \/ NotifyClosing \/ Join
  BY <1>1, <1>8 DEF BeginDrop, DropTo, NotifyClosing, NotifyReaper, Join,
     CloseInv, Quiet
<1>9. CASE DropSessions \/ CloseRuntime
  BY <1>1, <1>9 DEF DropSessions, CloseRuntime, CloseInv, Quiet
<1>10. CASE UNCHANGED vars
  BY <1>1, <1>10 DEF vars, reaperVars, CloseInv, Quiet
<1>11. ASSUME phase' = "open" PROVE CloseInv'
  BY <1>11 DEF CloseInv
<1> QED
  BY Zenon, <1>2, <1>3, <1>4, <1>5, <1>6, <1>7, <1>8, <1>9, <1>10, <1>11
     DEF Next, Reaper, Closer, Terminated

\* With the reaper joined, no command inside run and every slot disarmed,
\* nothing shares the runtime when it is closed.
LEMMA NothingShared == ASSUME IInv, phase = "dropped" PROVE Live = {}
<1>1. \A c \in Commands : pc[c] \in {"new", "done"}
  BY DEF IInv, CloseInv, Quiet
<1>2. Held = {}
  BY <1>1 DEF IInv, HoldInv, HasSession, Held
<1>3. Interrupts = {}
  BY <1>1 DEF IInv, SlotInv, Interrupts
<1>4. dying = {}
  BY DEF IInv, CloseInv, Accounting
<1>5. IdleSessions = {}
  <2>1. Len(idle) = 0
    BY DEF IInv, CloseInv
  <2> QED
    BY <2>1 DEF IdleSessions
<1> QED
  BY <1>2, <1>3, <1>4, <1>5 DEF Live

\* The runtime handle is closed only when no session shares the runtime: the
\* last step of SessionPool::drop and Client::close.
LEMMA ClosedForReal == IInv /\ [Next]_vars => CloseIsReal'
<1> SUFFICES ASSUME IInv, [Next]_vars PROVE CloseIsReal'
  OBVIOUS
<1>1. CASE phase' = phase
  BY <1>1 DEF IInv, CloseIsReal
<1>2. CASE CloseRuntime
  BY <1>2, NothingShared DEF CloseRuntime, CloseIsReal
<1>3. CASE BeginDrop \/ NotifyClosing \/ Join \/ DropSessions
  BY Zenon, <1>3 DEF BeginDrop, DropTo, NotifyClosing, NotifyReaper, Join,
     DropSessions, CloseIsReal
<1> QED
  BY <1>1, <1>2, <1>3 DEF Next, Thread, Checkout, Open, Arm, Engine, HandBack,
     Reaper, Closer, Terminated, Ask, SpuriousWake, Cancel, Take, Reserve,
     ReserveAs, Wait, Grow, GrowFails, GrowFailsThen, Start, StartFrom,
     StartRefused, Attach, Reject, Finish, Disarm, GiveBack, GiveBackThen,
     NotifyOne, Age, ReapSome, ReapCounting, ReapNone, DestroyExpired,
     CountClosed, ReaperWakes, ReaperExits, ReaperExitsIf, vars, reaperVars

\* stop_reaping's notification reaches the reaper wherever it is, so that the
\* join of SessionPool::drop never sits out the reaper's timed wait.
LEMMA PromptStep == IInv /\ [Next]_vars => JoinIsPrompt'
<1> SUFFICES ASSUME IInv, [Next]_vars PROVE JoinIsPrompt'
  OBVIOUS
<1>1. CASE UNCHANGED <<phase, reaper>>
  BY <1>1 DEF IInv, JoinIsPrompt
<1>2. CASE \/ ReapSome \/ ReapNone \/ DestroyExpired \/ CountClosed
           \/ ReaperWakes \/ ReaperExits
  BY <1>2 DEF ReapSome, ReapCounting, ReapNone, DestroyExpired, CountClosed,
     ReaperWakes, ReaperExits, ReaperExitsIf, JoinIsPrompt
<1>3. CASE BeginDrop \/ NotifyClosing \/ Join \/ DropSessions \/ CloseRuntime
  BY <1>3 DEF BeginDrop, DropTo, NotifyClosing, NotifyReaper, Join,
     DropSessions, CloseRuntime, JoinIsPrompt
<1> QED
  BY <1>1, <1>2, <1>3 DEF Next, Thread, Checkout, Open, Arm, Engine, HandBack,
     Reaper, Closer, Terminated, Ask, SpuriousWake, Cancel, Take, Reserve,
     ReserveAs, Wait, Grow, GrowFails, GrowFailsThen, Start, StartFrom,
     StartRefused, Attach, Reject, Finish, Disarm, GiveBack, GiveBackThen,
     NotifyOne, Age, vars, reaperVars


--------------------------------------------------------------------------------
(* The inductive invariant and what follows from it                         *)

LEMMA InitHolds == Init => IInv
<1> SUFFICES ASSUME Init PROVE IInv
  OBVIOUS
<1>1. Min \in Nat /\ Max \in Nat /\ 1 <= Min /\ Min <= Max
  BY LimitsAssumption
<1>2. idle \in [1..Min -> Sessions]
  BY DEF Init
<1>3. idle \in Seq(Sessions) /\ Len(idle) = Min
  BY <1>1, <1>2, IsASeq, LenProperties
<1>4. TypeOK
  <2>1. stale \in 0..Len(idle)
    BY <1>1, <1>3 DEF Init
  <2> QED
    BY <1>1, <1>3, <2>1
       DEF Init, TypeOK, PCs, Outcomes, Slots, Reapers, Phases
<1>5. HoldInv /\ SlotInv /\ OpInv /\ InterruptsOwnCommand
  BY DEF Init, HoldInv, HasSession, SlotInv, OpInv, InterruptsOwnCommand
<1>6. OneOwner
  BY <1>3 DEF Init, OneOwner, Holders, Held
<1>7. Accounting
  <2>1. Holders = {} /\ Opening = {}
    BY DEF Init, Holders, Opening
  <2> QED
    BY <1>1, <1>3, <2>1, FS_EmptySet DEF Init, Accounting
<1>8. NoLostWakeup /\ CloseInv /\ CloseIsReal /\ JoinIsPrompt
  BY DEF Init, NoLostWakeup, Waiting, CloseInv, CloseIsReal, JoinIsPrompt
<1> QED
  BY <1>4, <1>5, <1>6, <1>7, <1>8 DEF IInv

\* Everything the pool keeps true at once.
THEOREM Invariance == Spec => []IInv
<1>1. IInv /\ [Next]_vars => IInv'
  BY Zenon, TypeStep, HoldStep, OwnerStep, AccountingStep, SlotStep, OpStep,
     InterruptStep, WakeupStep, CloseStep, ClosedForReal, PromptStep DEF IInv
<1> QED
  BY <1>1, InitHolds, PTL DEF Spec

\* State::open never runs below zero and every variable keeps its shape.
THEOREM TypeCorrect == Spec => []TypeOK
<1>1. IInv => TypeOK
  BY DEF IInv
<1> QED
  BY <1>1, Invariance, PTL

\* The idle sessions, the checked-out ones, those being destroyed and the
\* opens on their way are all counted in `open`, which stays below Max.
LEMMA CountedLive == IInv => CeilingHolds
<1> SUFFICES ASSUME IInv PROVE CeilingHolds
  OBVIOUS
<1>1. /\ Len(idle) \in Nat /\ Cardinality(Holders) \in Nat
      /\ Cardinality(Opening) \in Nat /\ open \in Nat /\ reaped \in Nat
      /\ Max \in Nat /\ IsFiniteSet(dying) /\ Cardinality(dying) \in Nat
      /\ Cardinality(dying) <= reaped
  BY Covered, LimitsAssumption, FS_CardinalityType DEF IInv, Accounting
<1>2. IsFiniteSet(IdleSessions) /\ Cardinality(IdleSessions) <= Len(idle)
  <2> DEFINE at == [i \in 1..Len(idle) |-> idle[i]]
  <2>1. at \in Surjection(1..Len(idle), IdleSessions)
    BY DEF Surjection, IdleSessions
  <2>2. IsFiniteSet(1..Len(idle)) /\ Cardinality(1..Len(idle)) = Len(idle)
    <3> DEFINE n == Len(idle)
    <3>1. n \in Nat
      BY <1>1
    <3> HIDE DEF n
    <3>2. IsFiniteSet(1..n) /\ Cardinality(1..n) = n
      BY <3>1, FS_Interval
    <3> QED
      BY <3>2 DEF n
  <2> HIDE DEF at
  <2> QED
    BY <2>1, <2>2, FS_Surjection
<1>3. IsFiniteSet(Held) /\ Cardinality(Held) <= Cardinality(Holders)
  <2> DEFINE at == [c \in Holders |-> sess[c]]
  <2>1. at \in Surjection(Holders, Held)
    BY DEF Surjection, Holders, Held
  <2>2. IsFiniteSet(Holders)
    BY CommandSets DEF Holders
  <2> HIDE DEF at
  <2> QED
    BY <2>1, <2>2, FS_Surjection
<1>4. Interrupts \subseteq Held
  BY DEF IInv, SlotInv, Interrupts, Held
<1>5. Live = (IdleSessions \cup Held) \cup dying
  BY <1>4 DEF Live
<1> DEFINE A == IdleSessions \cup Held
<1>6. /\ IsFiniteSet(A) /\ Cardinality(A) \in Nat
      /\ Cardinality(A) <= Len(idle) + Cardinality(Holders)
  <2>1. /\ IsFiniteSet(A)
        /\ Cardinality(A) = Cardinality(IdleSessions) + Cardinality(Held)
                              - Cardinality(IdleSessions \cap Held)
    BY <1>2, <1>3, FS_Union
  <2>2. /\ Cardinality(IdleSessions) \in Nat /\ Cardinality(Held) \in Nat
        /\ Cardinality(IdleSessions \cap Held) \in Nat
        /\ Cardinality(A) \in Nat
    <3>1. IsFiniteSet(IdleSessions \cap Held)
      BY <1>2, FS_Subset
    <3> QED
      BY <1>2, <1>3, <2>1, <3>1, FS_CardinalityType
  <2> HIDE DEF A
  <2> QED
    BY <1>1, <1>2, <1>3, <2>1, <2>2
<1> HIDE DEF A
<1>7. Cardinality(Live) \in Nat /\
      Cardinality(Live) <= Cardinality(A) + Cardinality(dying)
  <2>1. Live = A \cup dying
    BY <1>5 DEF A
  <2>2. /\ IsFiniteSet(A \cup dying)
        /\ Cardinality(A \cup dying) = Cardinality(A) + Cardinality(dying)
                                         - Cardinality(A \cap dying)
    BY <1>1, <1>6, FS_Union
  <2>3. Cardinality(A \cap dying) \in Nat /\ Cardinality(A \cup dying) \in Nat
    <3>1. IsFiniteSet(A \cap dying)
      BY <1>1, FS_Subset
    <3> QED
      BY <2>2, <3>1, FS_CardinalityType
  <2> QED
    BY <1>1, <1>6, <2>1, <2>2, <2>3
<1>8. Len(idle) + Cardinality(Holders) + Cardinality(Opening) + reaped <= Max
  BY <1>1 DEF IInv, Accounting
<1> QED
  BY <1>1, <1>6, <1>7, <1>8 DEF CeilingHolds

\* However many callers, reservations and reaper turns overlap, the engine never
\* has more than Max sessions (State::open, grow and the reaper's late count).
THEOREM Ceiling == Spec => []CeilingHolds
BY CountedLive, Invariance, PTL

\* A session has one owner: a checkout, the free list or the reaper.
THEOREM SingleOwner == Spec => []OneOwner
<1>1. IInv => OneOwner
  BY DEF IInv
<1> QED
  BY <1>1, Invariance, PTL

\* A cancel interrupts the command it was asked for and no other one.
THEOREM InterruptSafety == Spec => []InterruptsOwnCommand
<1>1. IInv => InterruptsOwnCommand
  BY DEF IInv
<1> QED
  BY <1>1, Invariance, PTL

\* A caller waits only while every free place has someone on the way to it.
THEOREM WakeupSafety == Spec => []NoLostWakeup
<1>1. IInv => NoLostWakeup
  BY DEF IInv
<1> QED
  BY <1>1, Invariance, PTL

\* Client::close closes the engine itself: nothing shares it by then.
THEOREM CloseSafety == Spec => []CloseIsReal
<1>1. IInv => CloseIsReal
  BY DEF IInv
<1> QED
  BY <1>1, Invariance, PTL

\* The pool's drop never joins a reaper that is sitting out its timed wait.
THEOREM PromptJoin == Spec => []JoinIsPrompt
<1>1. IInv => JoinIsPrompt
  BY Zenon DEF IInv
<1> QED
  BY <1>1, Invariance, PTL

--------------------------------------------------------------------------------
(* The pool implements the service *)

\* The steps of run before it knows what it will answer.
Undecided == {"new", "checkout", "waiting", "opening", "holding", "armed",
              "running"}

\* run has an outcome exactly from the step that decides it on, and a slot is
\* Finished only after that.
OutcomeInv ==
  \A c \in Commands :
    /\ outcome[c] = "none" <=> pc[c] \in Undecided
    /\ slot[c] = "Finished" => outcome[c] # "none"

\* An armed slot has no outcome yet and a finished one has: CommandSlot::start
\* and CommandSlot::finish stand on either side of the command.
LEMMA OutcomeStep == IInv /\ OutcomeInv /\ [Next]_vars => OutcomeInv'
<1> SUFFICES ASSUME IInv, OutcomeInv, [Next]_vars PROVE OutcomeInv'
  OBVIOUS
<1>1. TypeOK
  BY Zenon DEF IInv
<1>2. ASSUME NEW c \in Commands,
             \/ Ask(c) \/ Take(c) \/ Reserve(c) \/ Wait(c) \/ SpuriousWake(c)
             \/ Grow(c) \/ Attach(c) \/ GiveBack(c)
      PROVE  OutcomeInv'
  BY <1>1, <1>2 DEF OutcomeInv, Undecided, TypeOK, Ask, Take, Reserve,
     ReserveAs, Wait, SpuriousWake, Grow, Attach, GiveBack, GiveBackThen,
     commandVars, slotVars
<1>3. ASSUME NEW c \in Commands, NotifyOne(c) PROVE OutcomeInv'
  BY Zenon, <1>1, <1>3 DEF OutcomeInv, Undecided, TypeOK, NotifyOne, Waiting,
     commandVars, slotVars
<1>4. ASSUME NEW c \in Commands,
             GrowFails(c) \/ StartRefused(c) \/ Reject(c) \/ Finish(c)
      PROVE  OutcomeInv'
  BY Zenon, <1>1, <1>4 DEF OutcomeInv, Undecided, TypeOK, GrowFails, GrowFailsThen,
     StartRefused, Reject, Finish, slotVars
<1>5. ASSUME NEW c \in Commands, Start(c) \/ Disarm(c) \/ Cancel(c)
      PROVE  OutcomeInv'
  BY <1>1, <1>5 DEF OutcomeInv, Undecided, TypeOK, Start, StartFrom, Disarm,
     Cancel, commandVars
<1>6. CASE CountClosed
  BY <1>1, <1>6 DEF OutcomeInv, Undecided, TypeOK, CountClosed, commandVars,
     slotVars
<1>7. CASE UNCHANGED <<pc, outcome, slot>>
  BY <1>7 DEF OutcomeInv
<1> QED
  BY Zenon, <1>2, <1>3, <1>4, <1>5, <1>6, <1>7, StepCases DEF Age, ReapSome,
     ReapCounting, ReapNone, DestroyExpired, ReaperWakes, ReaperExits,
     ReaperExitsIf, BeginDrop, DropTo, NotifyClosing, NotifyReaper, Join,
     DropSessions, CloseRuntime, vars, commandVars, slotVars

\* OutcomeInv holds throughout: the fact about slots and outcomes that the
\* refinement needs beyond IInv.
LEMMA OutcomeInvariance == Spec => []OutcomeInv
<1>1. Init => OutcomeInv
  BY Zenon DEF Init, OutcomeInv, Undecided
<1> QED
  BY <1>1, OutcomeStep, Invariance, PTL DEF Spec

--------------------------------------------------------------------------------
\* The status of a command, read off its outcome and its thread's state.
LEMMA StatusTable ==
  ASSUME NEW c \in Commands, TypeOK
  PROVE  /\ outcome[c] = "error"   => Status(c) = "failed"
         /\ outcome[c] = "refused" => Status(c) = "refused"
         /\ outcome[c] = "answer"  => Status(c) = "answered"
         /\ outcome[c] = "none" =>
              Status(c) = IF pc[c] = "new" THEN "idle"
                          ELSE IF pc[c] \in {"armed", "running"} THEN "running"
                          ELSE "asked"
<1>1. /\ Decided["error"] = "failed" /\ Decided["refused"] = "refused"
      /\ Decided["answer"] = "answered"
    BY DEF Decided
<1>2. "error" # "none" /\ "refused" # "none" /\ "answer" # "none"
    OBVIOUS
<1> QED
    BY Zenon, <1>1, <1>2 DEF Status

\* The table of StatusTable in the next state.
LEMMA StatusTableNext ==
  ASSUME NEW c \in Commands, TypeOK'
  PROVE  /\ outcome'[c] = "error"   => Status(c)' = "failed"
         /\ outcome'[c] = "refused" => Status(c)' = "refused"
         /\ outcome'[c] = "answer"  => Status(c)' = "answered"
         /\ outcome'[c] = "none" =>
              Status(c)' = IF pc'[c] = "new" THEN "idle"
                           ELSE IF pc'[c] \in {"armed", "running"}
                                THEN "running"
                                ELSE "asked"
<1>1. /\ Decided["error"] = "failed" /\ Decided["refused"] = "refused"
      /\ Decided["answer"] = "answered"
    BY DEF Decided
<1>2. "error" # "none" /\ "refused" # "none" /\ "answer" # "none"
    OBVIOUS
<1> QED
    BY Zenon, <1>1, <1>2 DEF Status

\* A step that only moves the thread of c, and decides nothing about the other
\* commands, changes at most the status of c.
LEMMA OthersKeepStatus ==
  ASSUME NEW c \in Commands, TypeOK,
         \A d \in Commands \ {c} : pc'[d] = pc[d] /\ outcome'[d] = outcome[d]
  PROVE  \A d \in Commands \ {c} : Status(d)' = Status(d)
BY DEF Status, Decided

\* Such a step, if nothing is cancelled or interrupted by it, is the service's
\* step that moves c.
LEMMA MovesOne ==
  ASSUME NEW c \in Commands, TypeOK, killed' = killed,
         \A d \in Commands : slot'[d] = "Cancelled" <=> slot[d] = "Cancelled",
         \A d \in Commands \ {c} : pc'[d] = pc[d] /\ outcome'[d] = outcome[d]
  PROVE  Service!Become(c, Status(c), Status(c)')
<1>1. \A d \in Commands \ {c} : Status(d)' = Status(d)
  BY OthersKeepStatus
<1>2. [d \in Commands |-> Status(d)]' =
        [[d \in Commands |-> Status(d)] EXCEPT ![c] = Status(c)']
  BY ZenonT(30), <1>1
<1>3. {d \in Commands : slot[d] = "Cancelled"}' =
        {d \in Commands : slot[d] = "Cancelled"}
  OBVIOUS
<1> QED
  BY <1>2, <1>3 DEF Service!Become

\* A step that changes no command's status is no step of the service.
LEMMA MovesNone ==
  ASSUME killed' = killed,
         \A d \in Commands : slot'[d] = "Cancelled" <=> slot[d] = "Cancelled",
         \A d \in Commands : Status(d)' = Status(d)
  PROVE  UNCHANGED Service!serviceVars
BY DEF Service!serviceVars

\* The session a command is about to use is one of at most Max.
LEMMA RoomToBegin ==
  ASSUME IInv, OutcomeInv, NEW c \in Commands, pc[c] = "holding"
  PROVE  Cardinality(Service!Running) < Max
<1> DEFINE R == Service!Running
<1>1. \A d \in Commands : Status(d) = "running" => pc[d] \in {"armed", "running"}
  BY Zenon, StatusTable DEF IInv, TypeOK, Outcomes
<1>2. R \in SUBSET Commands /\ R \cup {c} \subseteq Holders /\ c \notin R
  BY <1>1 DEF Service!Running, Holders, IInv, HoldInv, HasSession
<1>3. Cardinality(R \cup {c}) = Cardinality(R) + 1 /\ Cardinality(R) \in Nat
  BY <1>2, Joins, CommandSets
<1>4. Cardinality(R \cup {c}) <= Cardinality(Holders)
  <2>1. IsFiniteSet(Holders)
    BY CommandSets DEF Holders
  <2> HIDE DEF R
  <2> QED
    BY <1>2, <2>1, FS_Subset
<1>5. Cardinality(Holders) \in Nat /\ Cardinality(Holders) <= Max /\ Max \in Nat
  BY Covered, LimitsAssumption DEF IInv, Accounting
<1> QED
  BY <1>3, <1>4, <1>5

\* Every step of the pool is a step of CommandService or leaves every status
\* as it was.
LEMMA ServiceStep ==
  ASSUME IInv, IInv', OutcomeInv, OutcomeInv', [Next]_vars
  PROVE  [Service!Next]_(Service!serviceVars)
<1> DEFINE N == [Service!Next]_(Service!serviceVars)
<1>1. TypeOK /\ TypeOK'
  BY DEF IInv
<1>2. ASSUME NEW c \in Commands,
             Take(c) \/ Reserve(c) \/ Wait(c) \/ SpuriousWake(c) \/ Grow(c)
      PROVE  N
  <2>1. /\ UNCHANGED <<outcome, slot, killed>>
        /\ \A d \in Commands : pc'[d] = pc[d] \/
             {pc[d], pc'[d]} \subseteq {"checkout", "waiting", "opening",
                                        "holding"}
    BY <1>1, <1>2 DEF TypeOK, Take, Reserve, ReserveAs, Wait, SpuriousWake,
       Grow, commandVars, slotVars
  <2> QED
    BY Zenon, <2>1, MovesNone DEF Status
<1>3. ASSUME NEW c \in Commands,
             NotifyOne(c) \/ Attach(c) \/ Disarm(c) \/ GiveBack(c)
      PROVE  N
  <2>1. /\ UNCHANGED <<outcome, killed>>
        /\ \A d \in Commands : slot'[d] = "Cancelled" <=> slot[d] = "Cancelled"
    BY <1>1, <1>3 DEF TypeOK, NotifyOne, Attach, Disarm, GiveBack,
       GiveBackThen, commandVars, slotVars
  <2>2. \A d \in Commands : outcome[d] = "none" =>
          \/ pc'[d] = pc[d]
          \/ {pc[d], pc'[d]} = {"waiting", "checkout"}
          \/ {pc[d], pc'[d]} = {"armed", "running"}
    BY <1>1, <1>3 DEF TypeOK, OutcomeInv, Undecided, NotifyOne, Waiting,
       Attach, Disarm, GiveBack, GiveBackThen
  <2>3. \A d \in Commands : Status(d)' = Status(d)
    BY Zenon, <2>1, <2>2 DEF Status
  <2> QED
    BY Zenon, <2>1, <2>3, MovesNone
<1>4. ASSUME NEW c \in Commands, Ask(c) PROVE N
  <2>1. Status(c) = "idle" /\ Status(c)' = "asked"
    BY Zenon, <1>1, <1>4 DEF Ask, Status, OutcomeInv, Undecided, TypeOK, commandVars
  <2>2. Service!Become(c, "idle", "asked")
    BY <1>1, <1>4, <2>1, MovesOne DEF Ask, TypeOK, commandVars, slotVars
  <2> QED
    BY Zenon, <2>2 DEF Service!Next, Service!Ask
<1>5. ASSUME NEW c \in Commands, GrowFails(c) PROVE N
  <2>1. Status(c) = "asked" /\ Status(c)' = "failed"
    BY Zenon, <1>1, <1>5 DEF GrowFails, GrowFailsThen, Status, Decided, OutcomeInv,
       Undecided, TypeOK
  <2>2. Service!Become(c, "asked", "failed")
    BY <1>1, <1>5, <2>1, MovesOne DEF GrowFails, GrowFailsThen, TypeOK, slotVars
  <2> QED
    BY Zenon, <2>2 DEF Service!Next, Service!Fail
<1>6. ASSUME NEW c \in Commands, Start(c) PROVE N
  <2>1. Status(c) = "asked" /\ Status(c)' = "running"
    BY Zenon, <1>1, <1>6 DEF Start, StartFrom, Status, OutcomeInv, Undecided, TypeOK,
       commandVars
  <2>2. Service!Become(c, "asked", "running")
    BY Zenon, <1>1, <1>6, <2>1, MovesOne DEF Start, StartFrom, TypeOK, commandVars
  <2>3. slot[c] # "Cancelled" /\ Cardinality(Service!Running) < Max
    BY <1>6, RoomToBegin DEF Start, StartFrom
  <2>4. c \notin {d \in Commands : slot[d] = "Cancelled"}
    BY <2>3
  <2>5. Service!Cardinality(Service!Running) = Cardinality(Service!Running)
    BY DEF Service!Cardinality, Cardinality
  <2>6. Service!Begin(c)
    BY <2>2, <2>3, <2>4, <2>5 DEF Service!Begin
  <2> QED
    BY Zenon, <2>6 DEF Service!Next
<1>7. ASSUME NEW c \in Commands, StartRefused(c) PROVE N
  <2>1. slot[c] = "Cancelled"
    BY <1>1, <1>7 DEF StartRefused, IInv, SlotInv, OutcomeInv, Undecided,
       TypeOK, Slots
  <2>2. Status(c) = "asked" /\ Status(c)' = "refused"
    BY ZenonT(30), <1>1, <1>7 DEF StartRefused, Status, Decided, OutcomeInv, Undecided,
       TypeOK
  <2>3. Service!Become(c, "asked", "refused")
    BY Zenon, <1>1, <1>7, <2>2, MovesOne DEF StartRefused, TypeOK, slotVars
  <2> QED
    BY Zenon, <2>1, <2>3 DEF Service!Next, Service!Refuse
<1>8. ASSUME NEW c \in Commands, Reject(c) \/ Finish(c) PROVE N
  <2>1. Status(c) = "running" /\ Status(c)' = "answered"
    <3>1. pc[c] \in {"armed", "running"} /\ outcome'[c] = "answer"
      BY <1>1, <1>8 DEF Reject, Finish, TypeOK
    <3>2. outcome[c] = "none" /\ pc[c] # "new"
      BY <1>1, <3>1 DEF OutcomeInv, Undecided
    <3> QED
      BY Zenon, <1>1, <3>1, <3>2, StatusTable, StatusTableNext
  <2>2. Service!Become(c, "running", "answered")
    BY <1>1, <1>8, <2>1, MovesOne DEF Reject, Finish, TypeOK, slotVars
  <2> QED
    BY Zenon, <2>2 DEF Service!Next, Service!Answer
<1>9. ASSUME NEW c \in Commands, Cancel(c) PROVE N
  <2>1. UNCHANGED <<pc, outcome>> /\ pc[c] # "new"
    BY <1>9 DEF Cancel, commandVars
  <2>2. {d \in Commands : slot[d] = "Cancelled"}' =
          {d \in Commands : slot[d] = "Cancelled"} \cup {c}
    BY ZenonT(30), <1>1, <1>9 DEF Cancel, TypeOK
  <2>3. UNCHANGED [d \in Commands |-> Status(d)]
    BY Zenon, <2>1 DEF Status
  <2>4. Status(c) # "idle"
    BY <1>1, <2>1 DEF Status, Decided, TypeOK, Outcomes
  <2>5. \/ killed' = killed
        \/ killed' = killed \cup {c} /\ Status(c) = "running"
    BY Zenon, <1>9, CancelEffect DEF Status, OutcomeInv, Undecided
  <2>6. Service!Cancel(c)
    BY Zenon, <2>2, <2>3, <2>4, <2>5 DEF Service!Cancel, Service!Running
  <2> QED
    BY <2>6 DEF Service!Next
<1>10. CASE CountClosed
  BY Zenon, <1>1, <1>10, MovesNone DEF CountClosed, Status, TypeOK, commandVars,
     slotVars
<1>11. CASE UNCHANGED <<pc, outcome, slot, killed>>
  BY <1>11, MovesNone DEF Status
<1> QED
  BY <1>2, <1>3, <1>4, <1>5, <1>6, <1>7, <1>8, <1>9, <1>10, <1>11, StepCases
     DEF Age, ReapSome, ReapCounting, ReapNone, DestroyExpired, ReaperWakes,
     ReaperExits, ReaperExitsIf, BeginDrop, DropTo, NotifyClosing,
     NotifyReaper, Join, DropSessions, CloseRuntime, vars, commandVars, slotVars

\* SessionPool::run keeps the service's promise for every number of commands and
\* sessions: at most Max commands run, one cancelled before it began never does,
\* and a cancel interrupts no other command.
THEOREM Refinement == Spec => ImplementsService
<1>1. Init => Service!Init
  BY DEF Init, Service!Init, Status
<1> QED
  BY <1>1, ServiceStep, Invariance, OutcomeInvariance, PTL
     DEF Spec, ImplementsService, Service!Spec
================================================================================
