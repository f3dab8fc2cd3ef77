------------------------- MODULE HandleRegistryProofs -------------------------
(***************************************************************************)
(* Proofs about HandleRegistry for any number of Java threads, processes   *)
(* and ids.  RegistryInv is the inductive invariant.  Its heart is         *)
(* OwnerInv: the engine that is up has exactly one owner, which is an      *)
(* entry of the map or a thread on its way in or out.                      *)
(***************************************************************************)
EXTENDS HandleRegistry, TLAPS

\* The ids this process may still give are none that were given before.
CounterInv ==
  /\ counter \in [state : {"Unstarted", "Next", "Spent"}, tag : Nat, sequence : 1..LastSequence]
  /\ \A h \in issued : \E tag \in drawn, n \in 1..LastSequence :
       /\ h[1] = FromParts(tag, n)
       /\ counter.state = "Next" /\ tag = counter.tag => n < counter.sequence

\* What a call quotes, and the map holds, was issued; clients are numbered as
\* they are opened.
IssuedInv ==
  /\ \A id \in DOMAIN entries : <<id, entries[id]>> \in issued
  /\ \A t \in Threads : pc[t] \in {"reading", "running", "writing"} =>
                          <<quoted[t], at[t]>> \in issued
  /\ \A h \in issued : h[2] \in 1..opens
  /\ taken \subseteq 1..opens /\ runtime \in 0..opens

\* A thread that has the engine in hand on its way in or out.
Owning == {"opening", "inserting", "writing", "closing"}

\* The owners of the engine: at most one, and one while it is up.
OwnerInv ==
  /\ \A id \in DOMAIN entries : entries[id] = runtime /\ runtime \notin taken
  /\ \A t \in Threads : pc[t] \in Owning => at[t] = runtime /\ DOMAIN entries = {}
  /\ \A id, k \in DOMAIN entries : id = k
  /\ \A t, u \in Threads : pc[t] \in Owning /\ pc[u] \in Owning => t = u
  /\ runtime = NoClient => DOMAIN entries = {} /\ \A t \in Threads : pc[t] \notin Owning
  /\ EngineHasAnOwner

\* Where a client is in its life: not issued yet, taken out by a close, or never
\* to be issued.
StageInv ==
  \A t \in Threads :
    /\ pc[t] \in {"opening", "inserting"} =>
         at[t] \notin taken /\ \A h \in issued : h[2] # at[t]
    /\ pc[t] = "closing" => at[t] \in taken \/ \A h \in issued : h[2] # at[t]
    /\ pc[t] = "writing" => at[t] \notin taken
    /\ pc[t] = "running" => at[t] = runtime /\ at[t] \notin taken
    /\ pc[t] = "reading" => at[t] = runtime \/ at[t] \in taken

RegistryInv == TypeOK /\ CounterInv /\ IssuedInv /\ OwnerInv /\ StageInv /\ HandleNamesOneClient

--------------------------------------------------------------------------------
(* The ids                                                                      *)

\* Two sequences are closer to each other than two tags.
LEMMA PartsDistinct ==
  ASSUME NEW w \in Nat, NEW a \in Nat, NEW b \in Nat, a < b,
         NEW m \in 1..w, NEW n \in 1..w
  PROVE  a * (w + 1) + m < b * (w + 1) + n
<1>1. b * (w + 1) = (b - a) * (w + 1) + a * (w + 1)
  OBVIOUS
<1>2. (b - a) * (w + 1) >= w + 1
  <2> DEFINE k == b - a
  <2>1. k \in Nat /\ k >= 1
    OBVIOUS
  <2>2. k * (w + 1) = (k - 1) * (w + 1) + (w + 1)
    BY <2>1
  <2>3. (k - 1) * (w + 1) >= 0
    BY <2>1
  <2> QED
    BY <2>1, <2>2, <2>3
<1> QED
  BY <1>1, <1>2

\* An id gives back the parts it was made of.
LEMMA PartsUnique ==
  ASSUME NEW a \in Tags, NEW b \in Tags, NEW m \in 1..LastSequence, NEW n \in 1..LastSequence,
         FromParts(a, m) = FromParts(b, n)
  PROVE  a = b /\ m = n
<1>1. a \in Nat /\ b \in Nat /\ LastSequence \in Nat
  BY RegistryAssumption
<1>2. ~ (a < b) /\ ~ (b < a)
  BY <1>1, PartsDistinct DEF FromParts
<1> QED
  BY <1>1, <1>2 DEF FromParts

\* The id a counter gives next is none it, or an earlier process, has given.
LEMMA NextFresh ==
  ASSUME RegistryInv, NEW tag \in Tags, NEW n \in 1..LastSequence, NextParts(tag, n)
  PROVE  \A h \in issued : h[1] # FromParts(tag, n)
<1> SUFFICES ASSUME NEW h \in issued, h[1] = FromParts(tag, n)
             PROVE  FALSE
  OBVIOUS
<1>1. PICK b \in drawn, m \in 1..LastSequence :
        /\ h[1] = FromParts(b, m)
        /\ counter.state = "Next" /\ b = counter.tag => m < counter.sequence
  BY DEF RegistryInv, CounterInv
<1>2. b \in Tags
  BY DEF RegistryInv, TypeOK
<1>3. b = tag /\ m = n
  <2>1. FromParts(b, m) = FromParts(tag, n)
    BY <1>1
  <2> QED
    BY <1>2, <2>1, PartsUnique
<1>4. CASE counter.state = "Unstarted" /\ tag \notin drawn
  BY <1>3, <1>4
<1>5. CASE counter.state = "Next" /\ tag = counter.tag /\ n = counter.sequence
  BY <1>1, <1>3, <1>5
<1> QED
  BY <1>4, <1>5 DEF NextParts, ProcessTag


\* A client gets a number no client had before.
LEMMA OpenInv ==
  ASSUME RegistryInv, NEW t \in Threads, Open(t)
  PROVE  RegistryInv'
<1>1. TypeOK'
  BY RegistryAssumption DEF RegistryInv, TypeOK, Places, Clients, NoClient, Open
<1>2. CounterInv'
  BY RegistryAssumption DEF RegistryInv, CounterInv, Open
<1>3. IssuedInv'
  BY RegistryAssumption DEF RegistryInv, TypeOK, IssuedInv, NoClient, Open
<1>4. OwnerInv'
  BY RegistryAssumption
     DEF RegistryInv, TypeOK, IssuedInv, OwnerInv, StageInv, EngineHasAnOwner, Owning,
         NoClient, Open
<1>5. StageInv'
  <2>1. \A u \in Threads : pc[u] \in {"reading", "running"} => at[u] \in 1..opens
    BY Zenon DEF RegistryInv, IssuedInv
  <2>2. opens + 1 \notin taken /\ \A h \in issued : h[2] # opens + 1
    BY DEF RegistryInv, TypeOK, IssuedInv
  <2>3. pc' = [pc EXCEPT ![t] = "opening"] /\ at' = [at EXCEPT ![t] = opens + 1]
    BY DEF Open
  <2>4. opens \in Nat
    BY RegistryAssumption DEF RegistryInv, TypeOK
  <2> QED
    BY <2>1, <2>2, <2>3, <2>4
       DEF RegistryInv, TypeOK, OwnerInv, StageInv, Owning, NoClient, Open
<1>6. HandleNamesOneClient'
  BY RegistryAssumption DEF RegistryInv, TypeOK, IssuedInv, HandleNamesOneClient, Open
<1> QED
  BY <1>1, <1>2, <1>3, <1>4, <1>5, <1>6 DEF RegistryInv

\* An engine that does not start was never issued.
LEMMA OpenFailsInv ==
  ASSUME RegistryInv, NEW t \in Threads, OpenFails(t)
  PROVE  RegistryInv'
<1>1. TypeOK'
  BY RegistryAssumption
     DEF RegistryInv, TypeOK, Places, Clients, NoClient, OpenFails, Returns
<1>2. CounterInv'
  BY DEF RegistryInv, CounterInv, OpenFails, Returns
<1>3. IssuedInv'
  BY DEF RegistryInv, TypeOK, IssuedInv, NoClient, OpenFails, Returns
<1>4. OwnerInv'
  BY DEF RegistryInv, TypeOK, IssuedInv, OwnerInv, StageInv, EngineHasAnOwner, Owning,
         NoClient, OpenFails, Returns
<1>5. StageInv'
  <2>1. \A u \in Threads : pc[u] \in {"reading", "running"} => at[u] # at[t]
    BY Zenon DEF RegistryInv, IssuedInv, StageInv, OpenFails
  <2>2. at[t] = runtime
    BY DEF RegistryInv, OwnerInv, Owning, OpenFails
  <2> QED
    BY <2>1, <2>2 DEF RegistryInv, TypeOK, OwnerInv, StageInv, Owning, OpenFails, Returns
<1>6. HandleNamesOneClient'
  BY DEF RegistryInv, TypeOK, IssuedInv, HandleNamesOneClient, OpenFails, Returns
<1> QED
  BY <1>1, <1>2, <1>3, <1>4, <1>5, <1>6 DEF RegistryInv

\* The engine is up, and its thread owns it.
LEMMA OpenedInv ==
  ASSUME RegistryInv, NEW t \in Threads, Opened(t)
  PROVE  RegistryInv'
<1>1. TypeOK'
  BY RegistryAssumption DEF RegistryInv, TypeOK, Places, Clients, NoClient, Opened, Goes
<1>2. CounterInv'
  BY DEF RegistryInv, CounterInv, Opened, Goes
<1>3. IssuedInv'
  BY DEF RegistryInv, TypeOK, IssuedInv, NoClient, Opened, Goes
<1>4. OwnerInv'
  BY DEF RegistryInv, TypeOK, IssuedInv, OwnerInv, StageInv, EngineHasAnOwner, Owning,
         NoClient, Opened, Goes
<1>5. StageInv'
  BY DEF RegistryInv, TypeOK, IssuedInv, OwnerInv, StageInv, Owning, Opened, Goes
<1>6. HandleNamesOneClient'
  BY DEF RegistryInv, TypeOK, IssuedInv, HandleNamesOneClient, Opened, Goes
<1> QED
  BY <1>1, <1>2, <1>3, <1>4, <1>5, <1>6 DEF RegistryInv

\* With no id left the thread goes on owning it, to close it.
LEMMA SpentInv ==
  ASSUME RegistryInv, NEW t \in Threads, Spent(t)
  PROVE  RegistryInv'
<1>1. TypeOK'
  BY RegistryAssumption DEF RegistryInv, TypeOK, Places, Clients, NoClient, Spent, Goes
<1>2. CounterInv'
  BY DEF RegistryInv, CounterInv, Spent, Goes
<1>3. IssuedInv'
  BY DEF RegistryInv, TypeOK, IssuedInv, NoClient, Spent, Goes
<1>4. OwnerInv'
  BY DEF RegistryInv, TypeOK, IssuedInv, OwnerInv, StageInv, EngineHasAnOwner, Owning,
         NoClient, Spent, Goes
<1>5. StageInv'
  BY DEF RegistryInv, TypeOK, IssuedInv, OwnerInv, StageInv, Owning, Spent, Goes
<1>6. HandleNamesOneClient'
  BY DEF RegistryInv, TypeOK, IssuedInv, HandleNamesOneClient, Spent, Goes
<1> QED
  BY <1>1, <1>2, <1>3, <1>4, <1>5, <1>6 DEF RegistryInv

\* The map becomes the owner, under an id that was never given.
LEMMA InsertInv ==
  ASSUME RegistryInv, NEW t \in Threads, Insert(t)
  PROVE  RegistryInv'
<1>1. PICK tag \in Tags, n \in 1..LastSequence :
         /\ TakeNext(tag, n)
         /\ entries' = [i \in DOMAIN entries \cup {FromParts(tag, n)} |->
                          IF i = FromParts(tag, n) THEN at[t] ELSE entries[i]]
         /\ issued' = issued \cup {<<FromParts(tag, n), at[t]>>}
  BY DEF Insert
<1> DEFINE id == FromParts(tag, n)
<1>2. \A h \in issued : h[1] # id
  BY <1>1, NextFresh DEF TakeNext
<1>3. /\ id \in Handles
      /\ DOMAIN entries = {} /\ at[t] = runtime /\ runtime # NoClient
  BY DEF Handles, RegistryInv, OwnerInv, Owning, Insert
<1>4. at[t] \in 1..opens /\ at[t] \in Clients
  BY <1>3 DEF RegistryInv, TypeOK, IssuedInv, NoClient
<1> HIDE DEF id
<1>5. DOMAIN entries' = {id} /\ entries'[id] = at[t]
  BY <1>1, <1>3 DEF id
<1>6. issued' = issued \cup {<<id, at[t]>>}
  BY <1>1 DEF id
<1>7. counter' \in [state : {"Unstarted", "Next", "Spent"}, tag : Nat, sequence : 1..LastSequence]
  BY <1>1, RegistryAssumption DEF RegistryInv, CounterInv, TakeNext
<1>8. drawn' = drawn \cup {tag}
  BY <1>1 DEF TakeNext, NextParts
<1>9. TypeOK'
  BY <1>3, <1>4, <1>5, <1>6, <1>7, <1>8
     DEF RegistryInv, TypeOK, Places, NoClient, Insert, Returns
<1>10. CounterInv'
  <2>1. ASSUME NEW h \in issued
        PROVE  \E b \in drawn', m \in 1..LastSequence :
                 /\ h[1] = FromParts(b, m)
                 /\ counter'.state = "Next" /\ b = counter'.tag => m < counter'.sequence
    <3>1. PICK b \in drawn, m \in 1..LastSequence :
            /\ h[1] = FromParts(b, m)
            /\ counter.state = "Next" /\ b = counter.tag => m < counter.sequence
      BY DEF RegistryInv, CounterInv
    <3>2. counter'.state = "Next" /\ b = counter'.tag => m < counter'.sequence
      BY <1>1, <3>1, RegistryAssumption
         DEF RegistryInv, CounterInv, TakeNext, NextParts, ProcessTag
    <3> QED
      BY <1>8, <3>1, <3>2
  <2>2. \E b \in drawn', m \in 1..LastSequence :
           /\ id = FromParts(b, m)
           /\ counter'.state = "Next" /\ b = counter'.tag => m < counter'.sequence
    <3>1. counter'.state = "Next" => n < counter'.sequence
      BY <1>1, RegistryAssumption DEF RegistryInv, CounterInv, TakeNext, NextParts
    <3> QED
      BY <1>8, <3>1 DEF id
  <2> QED
    BY <1>6, <1>7, <2>1, <2>2 DEF CounterInv
<1>11. IssuedInv'
  BY <1>4, <1>5, <1>6 DEF RegistryInv, TypeOK, IssuedInv, Insert, Returns
<1>12. OwnerInv'
  <2>1. runtime \notin taken
    BY <1>3 DEF RegistryInv, IssuedInv, OwnerInv, StageInv, Insert
  <2> QED
    BY <1>3, <1>5, <2>1
       DEF RegistryInv, TypeOK, OwnerInv, EngineHasAnOwner, Owning, Insert, Returns
<1>13. StageInv'
  BY <1>3, <1>6 DEF RegistryInv, TypeOK, OwnerInv, StageInv, Owning, Insert, Returns
<1>14. HandleNamesOneClient'
  BY <1>2, <1>6 DEF RegistryInv, TypeOK, HandleNamesOneClient, Insert, Returns
<1> QED
  BY <1>9, <1>10, <1>11, <1>12, <1>13, <1>14 DEF RegistryInv

\* A lookup finds an entry, and so the engine that is up.
LEMMA LookupInv ==
  ASSUME RegistryInv, NEW t \in Threads, NEW h \in issued, Lookup(t, h[1])
  PROVE  RegistryInv'
<1>1. TypeOK'
  BY RegistryAssumption DEF RegistryInv, TypeOK, Places, Clients, NoClient, Lookup
<1>2. CounterInv'
  BY DEF RegistryInv, CounterInv, Lookup
<1>3. IssuedInv'
  BY DEF RegistryInv, TypeOK, IssuedInv, NoClient, Lookup
<1>4. OwnerInv'
  BY DEF RegistryInv, TypeOK, IssuedInv, OwnerInv, StageInv, EngineHasAnOwner, Owning,
         NoClient, Lookup
<1>5. StageInv'
  BY DEF RegistryInv, TypeOK, IssuedInv, OwnerInv, StageInv, Owning, Lookup
<1>6. HandleNamesOneClient'
  BY DEF RegistryInv, TypeOK, IssuedInv, HandleNamesOneClient, Lookup
<1> QED
  BY <1>1, <1>2, <1>3, <1>4, <1>5, <1>6 DEF RegistryInv

\* A command runs on a client no close has taken.
LEMMA ReadInv ==
  ASSUME RegistryInv, NEW t \in Threads, Read(t)
  PROVE  RegistryInv'
<1>1. TypeOK'
  BY RegistryAssumption
     DEF RegistryInv, TypeOK, Places, Clients, NoClient, Read, Goes, Returns
<1>2. CounterInv'
  BY DEF RegistryInv, CounterInv, Read, Goes, Returns
<1>3. IssuedInv'
  BY DEF RegistryInv, TypeOK, IssuedInv, NoClient, Read, Goes, Returns
<1>4. OwnerInv'
  BY DEF RegistryInv, TypeOK, IssuedInv, OwnerInv, StageInv, EngineHasAnOwner, Owning,
         NoClient, Read, Goes, Returns
<1>5. StageInv'
  BY DEF RegistryInv, TypeOK, IssuedInv, OwnerInv, StageInv, Owning, Read, Goes, Returns
<1>6. HandleNamesOneClient'
  BY DEF RegistryInv, TypeOK, IssuedInv, HandleNamesOneClient, Read, Goes, Returns
<1> QED
  BY <1>1, <1>2, <1>3, <1>4, <1>5, <1>6 DEF RegistryInv

\* A command that returns lets go of nothing but its lock.
LEMMA AnsweredInv ==
  ASSUME RegistryInv, NEW t \in Threads, Answered(t)
  PROVE  RegistryInv'
<1>1. TypeOK'
  BY RegistryAssumption
     DEF RegistryInv, TypeOK, Places, Clients, NoClient, Answered, Returns
<1>2. CounterInv'
  BY DEF RegistryInv, CounterInv, Answered, Returns
<1>3. IssuedInv'
  BY DEF RegistryInv, TypeOK, IssuedInv, NoClient, Answered, Returns
<1>4. OwnerInv'
  BY DEF RegistryInv, TypeOK, IssuedInv, OwnerInv, StageInv, EngineHasAnOwner, Owning,
         NoClient, Answered, Returns
<1>5. StageInv'
  BY DEF RegistryInv, TypeOK, IssuedInv, OwnerInv, StageInv, Owning, Answered, Returns
<1>6. HandleNamesOneClient'
  BY DEF RegistryInv, TypeOK, IssuedInv, HandleNamesOneClient, Answered, Returns
<1> QED
  BY <1>1, <1>2, <1>3, <1>4, <1>5, <1>6 DEF RegistryInv

\* The thread that takes the entry out becomes the owner.
LEMMA RemoveInv ==
  ASSUME RegistryInv, NEW t \in Threads, NEW h \in issued, Remove(t, h[1])
  PROVE  RegistryInv'
<1>1. TypeOK'
  BY RegistryAssumption DEF RegistryInv, TypeOK, Places, Clients, NoClient, Remove, Restrict
<1>2. CounterInv'
  BY DEF RegistryInv, CounterInv, Remove, Restrict
<1>3. IssuedInv'
  BY DEF RegistryInv, TypeOK, IssuedInv, NoClient, Remove, Restrict
<1>4. OwnerInv'
  BY DEF RegistryInv, TypeOK, IssuedInv, OwnerInv, StageInv, EngineHasAnOwner, Owning,
         NoClient, Remove, Restrict
<1>5. StageInv'
  BY DEF RegistryInv, TypeOK, IssuedInv, OwnerInv, StageInv, Owning, Remove, Restrict
<1>6. HandleNamesOneClient'
  BY DEF RegistryInv, TypeOK, IssuedInv, HandleNamesOneClient, Remove, Restrict
<1> QED
  BY <1>1, <1>2, <1>3, <1>4, <1>5, <1>6 DEF RegistryInv

\* Nobody runs a command when the client is taken out.
LEMMA WriteInv ==
  ASSUME RegistryInv, NEW t \in Threads, Write(t)
  PROVE  RegistryInv'
<1>0. at[t] \in 1..opens /\ at[t] \in Clients
  <2>1. <<quoted[t], at[t]>> \in issued
    BY DEF RegistryInv, IssuedInv, Write
  <2> QED
    BY <2>1 DEF RegistryInv, TypeOK, IssuedInv
<1>1. TypeOK'
  BY <1>0 DEF RegistryInv, TypeOK, Places, NoClient, Write, Goes, Returns
<1>2. CounterInv'
  BY DEF RegistryInv, CounterInv, Write, Goes, Returns, Readers, Writers
<1>3. IssuedInv'
  BY Zenon, <1>0 DEF RegistryInv, TypeOK, IssuedInv, Write, Goes, Returns
<1>4. OwnerInv'
  BY DEF RegistryInv, TypeOK, IssuedInv, OwnerInv, StageInv, EngineHasAnOwner, Owning,
         NoClient, Write, Goes, Returns, Readers, Writers
<1>5. StageInv'
  BY DEF RegistryInv, TypeOK, IssuedInv, OwnerInv, StageInv, Owning, Write, Goes,
         Returns, Readers, Writers
<1>6. HandleNamesOneClient'
  BY DEF RegistryInv, TypeOK, IssuedInv, HandleNamesOneClient, Write, Goes, Returns,
         Readers, Writers
<1> QED
  BY <1>1, <1>2, <1>3, <1>4, <1>5, <1>6 DEF RegistryInv

\* Whoever still looks at the closed client finds it taken.
LEMMA ClosedInv ==
  ASSUME RegistryInv, NEW t \in Threads, Closed(t)
  PROVE  RegistryInv'
<1>1. TypeOK'
  BY RegistryAssumption DEF RegistryInv, TypeOK, Places, Clients, NoClient, Closed, Returns
<1>2. CounterInv'
  BY DEF RegistryInv, CounterInv, Closed, Returns
<1>3. IssuedInv'
  BY DEF RegistryInv, TypeOK, IssuedInv, NoClient, Closed, Returns
<1>4. OwnerInv'
  BY DEF RegistryInv, TypeOK, IssuedInv, OwnerInv, StageInv, EngineHasAnOwner, Owning,
         NoClient, Closed, Returns
<1>5. StageInv'
  <2>1. \A u \in Threads : pc[u] \in {"reading", "running"} =>
                             at[u] # at[t] \/ at[u] \in taken
    BY Zenon DEF RegistryInv, IssuedInv, StageInv, Closed
  <2>2. at[t] = runtime
    BY DEF RegistryInv, OwnerInv, Owning, Closed
  <2> QED
    BY <2>1, <2>2 DEF RegistryInv, TypeOK, OwnerInv, StageInv, Owning, Closed, Returns
<1>6. HandleNamesOneClient'
  BY DEF RegistryInv, TypeOK, IssuedInv, HandleNamesOneClient, Closed, Returns
<1> QED
  BY <1>1, <1>2, <1>3, <1>4, <1>5, <1>6 DEF RegistryInv

\* A new process has no client, and an id counter of its own.
LEMMA RestartInv ==
  ASSUME RegistryInv, Restart
  PROVE  RegistryInv'
<1>1. TypeOK'
  BY RegistryAssumption
     DEF RegistryInv, TypeOK, Places, Clients, NoClient, Restart, Unstarted
<1>2. CounterInv'
  BY RegistryAssumption DEF RegistryInv, CounterInv, Restart, Unstarted
<1>3. IssuedInv'
  BY RegistryAssumption DEF RegistryInv, TypeOK, IssuedInv, NoClient, Restart, Unstarted
<1>4. OwnerInv'
  BY RegistryAssumption
     DEF RegistryInv, TypeOK, IssuedInv, OwnerInv, StageInv, EngineHasAnOwner, Owning,
         NoClient, Restart, Unstarted
<1>5. StageInv'
  BY RegistryAssumption
     DEF RegistryInv, TypeOK, IssuedInv, OwnerInv, StageInv, Owning, Restart, Unstarted
<1>6. HandleNamesOneClient'
  BY RegistryAssumption
     DEF RegistryInv, TypeOK, IssuedInv, HandleNamesOneClient, Restart, Unstarted
<1> QED
  BY <1>1, <1>2, <1>3, <1>4, <1>5, <1>6 DEF RegistryInv

\* RegistryInv holds at first: nothing is open and nothing was issued.
LEMMA RegistryInitInv == Init => RegistryInv
BY RegistryAssumption
   DEF Init, Unstarted, RegistryInv, TypeOK, CounterInv, IssuedInv, OwnerInv, StageInv,
       HandleNamesOneClient, EngineHasAnOwner, Owning, NoClient, Places, Clients

\* RegistryInv is inductive.
LEMMA RegistryNextInv == RegistryInv /\ [Next]_vars => RegistryInv'
<1> SUFFICES ASSUME RegistryInv, [Next]_vars
             PROVE  RegistryInv'
  OBVIOUS
<1>1. ASSUME NEW t \in Threads, Calls(t) PROVE RegistryInv'
  BY <1>1, OpenInv, LookupInv, RemoveInv DEF Calls
<1>2. ASSUME NEW t \in Threads, Proceeds(t) PROVE RegistryInv'
  BY <1>2, OpenFailsInv, OpenedInv, InsertInv, SpentInv, ReadInv, AnsweredInv, WriteInv,
     ClosedInv DEF Proceeds
<1>3. CASE UNCHANGED vars
  BY <1>3 DEF vars, RegistryInv, TypeOK, CounterInv, IssuedInv, OwnerInv, StageInv,
     HandleNamesOneClient, EngineHasAnOwner
<1> QED
  BY <1>1, <1>2, <1>3, RestartInv DEF Next

\* RegistryInv in every state of every behaviour.
LEMMA RegistryAlways == Spec => []RegistryInv
BY RegistryInitInv, RegistryNextInv, PTL DEF Spec

--------------------------------------------------------------------------------
\* A handle names one client for ever, over any number of processes, as long as
\* no process draws an earlier one's tag.
THEOREM HandlesNameOneClient == Spec => []HandleNamesOneClient
<1>1. RegistryInv => HandleNamesOneClient
  BY DEF RegistryInv
<1> QED
  BY <1>1, RegistryAlways, PTL

\* A command only ever runs on an engine that no close is shutting down.
THEOREM CommandsRunOnLiveEngines == Spec => []RunsOnLiveEngine
<1>1. RegistryInv => RunsOnLiveEngine
  BY Zenon DEF RegistryInv, IssuedInv, StageInv, RunsOnLiveEngine, Writers
<1> QED
  BY <1>1, RegistryAlways, PTL

\* The engine that holds the runtime can always still be closed.
THEOREM EngineAlwaysOwned == Spec => []EngineHasAnOwner
<1>1. RegistryInv => EngineHasAnOwner
  BY DEF RegistryInv, OwnerInv
<1> QED
  BY <1>1, RegistryAlways, PTL

===============================================================================
