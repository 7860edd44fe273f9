----------------------------- MODULE BlobProofs ------------------------------
(***************************************************************************)
(* For any number of Puts, Deletes and Close calls, any contents, damages  *)
(* and links: what a Put acknowledged stays unless another raced it, a     *)
(* reader that ends has delivered the whole object, no byte comes after    *)
(* Close, and Get follows links as far as it should.                       *)
(***************************************************************************)
EXTENDS BlobReader, FiniteSetTheorems, SequenceTheorems, WellFoundedInduction, TLAPS

-----------------------------------------------------------------------------
(* Types *)

StoreTypes ==
  /\ meta \in Puts \cup {None} /\ excused \subseteq Puts
  /\ pc \in [Puts -> {"idle", "store", "done"}]
  /\ ret \in [Puts -> {"none", "ok", "conflict", "error"}]
  /\ dpc \in [Deletes -> {"idle", "mark", "done"}]

ReaderTypes ==
  /\ start \in Names /\ at \in Names /\ seen \subseteq Links /\ depth \in 0..LinkMaxDepth
  /\ get \in {"idle", "resolve", "badlink", "notfound", "subscribe", "open", "error"}
  /\ obj \in Puts \cup {None}
  /\ terminal \in {"none", "eof", "integrity", "error"}
  /\ rd \in {"idle", "entered", "next"}
  /\ mu = (rd = "next")
  /\ cl \in [Closers -> {"idle", "once", "drain", "done"}]

LEMMA TypesSplit == TypeOK <=> StoreTypes /\ ReaderTypes
  BY DEF TypeOK, StoreTypes, ReaderTypes

\* The steps of the reader leave the store alone.
ReaderStep ==
  \/ \E n \in Names : Get(n)
  \/ BadLink \/ FollowLink \/ Resolve \/ Subscribe \/ GetFails
  \/ Deliver \/ Cancel
  \/ Enter \/ ReadStep
  \/ \E k \in Closers : Close(k) \/ CloseStep(k)

LEMMA StepSplit ==
  ASSUME [Next]_vars
  PROVE  \/ StoreNext /\ UNCHANGED readerVars
         \/ ReaderStep /\ UNCHANGED storeVars
         \/ UNCHANGED <<storeVars, readerVars>>
<1>1. ASSUME ReaderStep PROVE UNCHANGED storeVars
  BY <1>1 DEF ReaderStep, Get, BadLink, FollowLink, Resolve, Subscribe, GetFails, EndSearch, Deliver,
              Cancel, Enter, ReadStep, ReadOver, ReadRest, ReadEnd, ReadNext, Take, TakeInvalid,
              NextFails, Terminate, Close, CloseStep, RunClose, Drain, AwaitClose
<1> QED BY <1>1 DEF Next, ReaderStep, vars

LEMMA StoreTypesKept ==
  ASSUME StoreTypes, StoreNext
  PROVE  StoreTypes'
<1>1. ASSUME NEW p \in Puts, NEW c, Look(p, c)
      PROVE  StoreTypes'
  BY <1>1 DEF StoreTypes, Look, Return, Writing, objectVars
<1>2. ASSUME NEW p \in Puts, Store(p)
      PROVE  StoreTypes'
  BY <1>2 DEF StoreTypes, Store, Return, Writing
<1>3. ASSUME NEW p \in Puts, PutFails(p)
      PROVE  StoreTypes'
  BY <1>3 DEF StoreTypes, PutFails, Return, Writing, objectVars
<1>4. ASSUME NEW p \in Puts, Damage(p)
      PROVE  StoreTypes'
  BY <1>4 DEF StoreTypes, Damage, putVars
<1>5. ASSUME NEW d \in Deletes, DeleteLook(d)
      PROVE  StoreTypes'
  BY <1>5 DEF StoreTypes, DeleteLook, objectVars, putVars
<1>6. ASSUME NEW d \in Deletes, DeleteMark(d)
      PROVE  StoreTypes'
  BY <1>6 DEF StoreTypes, DeleteMark, putVars
<1> QED BY <1>1, <1>2, <1>3, <1>4, <1>5, <1>6 DEF StoreNext

LEMMA ReaderTypesKept ==
  ASSUME StoreTypes, ReaderTypes, ReaderStep
  PROVE  ReaderTypes'
<1> USE DEF ReaderTypes, feedVars, readVars, closeVars, getVars
<1>1. ASSUME NEW n \in Names, Get(n) PROVE ReaderTypes'
  BY <1>1 DEF Get
<1>2. CASE BadLink
  BY <1>2, ReaderConstants DEF BadLink, EndSearch, Names
<1>3. CASE FollowLink
  BY <1>3, ReaderConstants DEF FollowLink, TooDeep
<1>4. CASE Resolve
  BY <1>4, ReaderConstants DEF Resolve, EndSearch, Names, StoreTypes
<1>5. CASE Subscribe
  BY <1>5 DEF Subscribe
<1>6. CASE GetFails
  BY <1>6, ReaderConstants DEF GetFails, EndSearch, Names
<1>7. CASE Deliver
  BY <1>7 DEF Deliver
<1>8. CASE Cancel
  BY <1>8 DEF Cancel
<1>9. CASE Enter
  BY <1>9 DEF Enter
<1>10. CASE ReadStep
  <2>1. CASE ReadOver
    BY <2>1 DEF ReadOver, ReturnRead
  <2>2. CASE ReadRest
    BY <2>2 DEF ReadRest, ReturnRead
  <2>3. CASE ReadEnd
    BY <2>3 DEF ReadEnd, Terminate, ReturnRead
  <2>4. CASE ReadNext
    BY <2>4 DEF ReadNext
  <2>5. CASE Take
    BY <2>5 DEF Take, ReturnRead
  <2>6. CASE TakeInvalid \/ NextFails
    BY <2>6 DEF TakeInvalid, NextFails, Terminate, ReturnRead
  <2> QED BY <1>10, <2>1, <2>2, <2>3, <2>4, <2>5, <2>6 DEF ReadStep
<1>11. ASSUME NEW k \in Closers, Close(k) \/ CloseStep(k) PROVE ReaderTypes'
  BY <1>11 DEF Close, CloseStep, RunClose, Drain, AwaitClose
<1> QED BY <1>1, <1>2, <1>3, <1>4, <1>5, <1>6, <1>7, <1>8, <1>9, <1>10, <1>11 DEF ReaderStep

LEMMA TypesStep ==
  ASSUME TypeOK, [Next]_vars
  PROVE  TypeOK'
<1>1. StoreTypes /\ ReaderTypes
  BY TypesSplit
<1>2. StoreTypes'
  <2>1. ASSUME UNCHANGED storeVars PROVE StoreTypes'
    BY <1>1, <2>1 DEF StoreTypes, storeVars, objectVars, putVars
  <2> QED BY <1>1, <2>1, StoreTypesKept, StepSplit
<1>3. ReaderTypes'
  <2>1. ASSUME UNCHANGED readerVars PROVE ReaderTypes'
    BY <1>1, <2>1 DEF ReaderTypes, readerVars, getVars, readVars, closeVars
  <2> QED BY <1>1, <2>1, ReaderTypesKept, StepSplit
<1> QED BY <1>2, <1>3, TypesSplit, PTL

LEMMA InitTypes == Init => TypeOK
<1> SUFFICES ASSUME Init PROVE TypeOK
  OBVIOUS
<1>1. StoreTypes
  BY DEF Init, StoreInit, StoreTypes
<1>2. mu = (rd = "next")
  BY DEF Init
<1>3. depth \in 0..LinkMaxDepth
  BY ReaderConstants DEF Init
<1>4. ReaderTypes
  BY <1>2, <1>3 DEF Init, ReaderTypes, Names
<1> QED BY <1>1, <1>4, TypesSplit

-----------------------------------------------------------------------------
(* Acknowledged Puts *)

LEMMA StoreKept ==
  ASSUME StoreTypes, StoreInv, StoreNext, DOMAIN content = Puts
  PROVE  StoreInv' /\ DOMAIN content' = Puts
<1> USE BlobConstants DEF StoreTypes, StoreInv, Writing
<1>1. ASSUME NEW p \in Puts, NEW c, Look(p, c)
      PROVE  StoreInv' /\ DOMAIN content' = Puts
  BY <1>1 DEF Look, Return, objectVars, Absent
<1>2. ASSUME NEW p \in Puts, Store(p)
      PROVE  StoreInv' /\ DOMAIN content' = Puts
  BY <1>2 DEF Store, Return
<1>3. ASSUME NEW p \in Puts, PutFails(p)
      PROVE  StoreInv' /\ DOMAIN content' = Puts
  BY <1>3 DEF PutFails, Return, objectVars
<1>4. ASSUME NEW p \in Puts, Damage(p)
      PROVE  StoreInv' /\ DOMAIN content' = Puts
  BY <1>4 DEF Damage, putVars
<1>5. ASSUME NEW d \in Deletes, DeleteLook(d)
      PROVE  StoreInv' /\ DOMAIN content' = Puts
  BY <1>5 DEF DeleteLook, objectVars, putVars
<1>6. ASSUME NEW d \in Deletes, DeleteMark(d)
      PROVE  StoreInv' /\ DOMAIN content' = Puts
  BY <1>6 DEF DeleteMark, putVars
<1> QED BY <1>1, <1>2, <1>3, <1>4, <1>5, <1>6 DEF StoreNext

StoreSafe == TypeOK /\ StoreInv /\ DOMAIN content = Puts

LEMMA StoreInductive == Spec => []StoreSafe
<1>1. Init => StoreSafe
  BY InitTypes DEF StoreSafe, Init, StoreInit, StoreInv
<1>2. StoreSafe /\ [Next]_vars => StoreSafe'
  <2> SUFFICES ASSUME StoreSafe, [Next]_vars PROVE StoreSafe'
    OBVIOUS
  <2>1. ASSUME UNCHANGED storeVars PROVE StoreInv' /\ DOMAIN content' = Puts
    BY <2>1 DEF StoreSafe, StoreInv, Writing, storeVars, objectVars, putVars
  <2>2. StoreTypes
    BY TypesSplit DEF StoreSafe
  <2>3. StoreInv' /\ DOMAIN content' = Puts
    BY <2>1, <2>2, StepSplit, StoreKept DEF StoreSafe
  <2> QED BY <2>3, TypesStep DEF StoreSafe
<1> QED BY <1>1, <1>2, PTL DEF Spec

\* Content whose Put returned nil stays, until a Delete, unless another Put overlapped.
THEOREM AckedStay == Spec => []AckedUnlessRaced
<1>1. StoreSafe => AckedUnlessRaced
  BY DEF StoreSafe, StoreInv, AckedUnlessRaced
<1> QED BY <1>1, StoreInductive, PTL

-----------------------------------------------------------------------------
(* Close *)

LEMMA CloseInductive == Spec => []CloseInv
<1>1. Init => CloseInv
  BY InitTypes DEF CloseInv, Init, CloseSteps
<1>2. CloseInv /\ [Next]_vars => CloseInv'
  <2> SUFFICES ASSUME CloseInv, [Next]_vars PROVE CloseInv'
    OBVIOUS
  <2>1. ReaderTypes
    BY TypesSplit DEF CloseInv
  <2>2. ASSUME UNCHANGED readerVars PROVE CloseSteps'
    BY <2>2 DEF CloseInv, CloseSteps, readerVars, readVars, closeVars
  <2>3. ASSUME ReaderStep PROVE CloseSteps'
    <3> USE <2>1 DEF CloseInv, CloseSteps, ReaderTypes, closeVars, readVars
    <3>1. ASSUME \/ \E n \in Names : Get(n)
                 \/ BadLink \/ FollowLink \/ Resolve \/ Subscribe \/ GetFails
                 \/ Deliver \/ Cancel \/ Enter
          PROVE  CloseSteps'
      BY <3>1 DEF Get, BadLink, FollowLink, Resolve, Subscribe, GetFails, EndSearch, Deliver,
                  Cancel, Enter
    <3>2. ASSUME ReadStep PROVE CloseSteps'
      BY <3>2 DEF ReadStep, ReadOver, ReadRest, ReadEnd, ReadNext, Take, TakeInvalid,
                  NextFails, Terminate, ReturnRead, Locks
    <3>3. ASSUME NEW k \in Closers, Close(k) \/ CloseStep(k) PROVE CloseSteps'
      <4>1. CASE Close(k)
        BY <4>1 DEF Close
      <4>2. CASE RunClose(k)
        BY <4>2 DEF RunClose
      <4>3. CASE Drain(k)
        BY <4>3 DEF Drain, Drained
      <4>4. CASE AwaitClose(k)
        BY <4>4 DEF AwaitClose
      <4> QED BY <3>3, <4>1, <4>2, <4>3, <4>4 DEF CloseStep
    <3> QED BY <2>3, <3>1, <3>2, <3>3 DEF ReaderStep
  <2> QED BY <2>2, <2>3, StepSplit, TypesStep DEF CloseInv
<1> QED BY <1>1, <1>2, PTL DEF Spec

\* Once a Close has returned no Read delivers a byte.
THEOREM SilentAfterClose == Spec => NoDataAfterClose
<1>1. CloseInv /\ [Next]_vars => [got' # got => \A k \in Closers : cl[k] # "done"]_vars
  <2> SUFFICES ASSUME CloseInv, [Next]_vars, got' # got, NEW k \in Closers, cl[k] = "done"
               PROVE  FALSE
    OBVIOUS
  <2>1. ReaderStep
    BY StepSplit DEF readerVars, readVars
  <2>2. ReadRest \/ Take
    BY <2>1 DEF ReaderStep, Get, BadLink, FollowLink, Resolve, Subscribe, GetFails, EndSearch,
                Deliver, Cancel, Enter, ReadStep, ReadOver, ReadEnd, ReadNext, TakeInvalid,
                NextFails, Terminate, Close, CloseStep, RunClose, Drain, AwaitClose, readVars
  <2> QED BY <2>2 DEF CloseInv, CloseSteps, ReadRest, Take
<1> QED BY <1>1, CloseInductive, PTL DEF Spec, NoDataAfterClose

-----------------------------------------------------------------------------
(* Recursive functions *)

\* A set of naturals has a least element.
LEMMA LeastNatural ==
  ASSUME NEW T, T \subseteq Nat, T # {}
  PROVE  \E m \in T : \A n \in T : m <= n
<1> DEFINE R == OpToRel(<, Nat)
<1>1. IsWellFoundedOn(R, Nat)
  BY NatLessThanWellFounded
<1>2. \A x, y \in Nat : y < x => <<y, x>> \in R
  BY DEF OpToRel
<1> HIDE DEF R
<1>3. PICK x \in T : \A y \in T : ~ (<<y, x>> \in R)
  BY <1>1, WFMin
<1>4. \A y \in T : ~(y < x)
  BY <1>2, <1>3
<1> QED BY <1>4

\* What is so of the first number and of each after one it is so of is so of all.
LEMMA Induction ==
  ASSUME NEW b \in Nat, NEW n \in Nat, NEW T, b \in T,
         \A i \in b..n : i \in T /\ i + 1 <= n => i + 1 \in T
  PROVE  \A i \in b..n : i \in T
<1> DEFINE U == {i \in b..n : i \notin T}
<1> SUFFICES ASSUME U # {} PROVE FALSE
  OBVIOUS
<1>1. U \subseteq Nat
  OBVIOUS
<1>2. PICK m \in U : \A i \in U : m <= i
  BY <1>1, LeastNatural
<1>3. m \in b..n /\ m \notin T /\ m # b
  BY <1>2
<1>4. m - 1 \in b..n /\ m - 1 \notin U
  BY <1>2, <1>3
<1>5. m - 1 \in T
  BY <1>4
<1>6. (m - 1) + 1 \in T
  BY <1>3, <1>4, <1>5
<1> QED BY <1>3, <1>6

Solution(f, S, a, F, n) ==
  f \in [0..n -> S] /\ f[0] = a /\ \A i \in 1..n : f[i] = F[i][f[i - 1]]

\* A recursion by one step at a time has a solution.
LEMMA Iterated ==
  ASSUME NEW S, NEW a \in S, NEW F \in [Nat -> [S -> S]], NEW n \in Nat
  PROVE  \E f : Solution(f, S, a, F, n)
<1> DEFINE Sol(m, f) == Solution(f, S, a, F, m)
           T == {m \in Nat : \E f : Sol(m, f)}
<1>1. 0 \in T
  <2>1. Sol(0, [i \in 0..0 |-> a])
    BY DEF Solution
  <2> QED BY <2>1
<1>2. ASSUME NEW m \in 0..n, m \in T
      PROVE  m + 1 \in T
  <2>1. PICK f : Sol(m, f)
    BY <1>2
  <2> DEFINE g == [i \in 0..(m + 1) |-> IF i <= m THEN f[i] ELSE F[m + 1][f[m]]]
  <2>6. /\ f \in [0..m -> S] /\ f[0] = a
        /\ \A i \in 1..m : f[i] = F[i][f[i - 1]]
    BY <2>1 DEF Solution
  <2>2. f[m] \in S /\ F[m + 1][f[m]] \in S
    BY <2>6
  <2>3. g \in [0..(m + 1) -> S] /\ g[0] = a
    BY <2>6, <2>2
  <2>4. ASSUME NEW i \in 1..(m + 1)
        PROVE  g[i] = F[i][g[i - 1]]
    <3>1. CASE i <= m
      <4>1. i \in 1..m /\ g[i] = f[i] /\ g[i - 1] = f[i - 1]
        BY <3>1
      <4> QED BY <2>6, <4>1
    <3>2. CASE ~(i <= m)
      <4>1. i = m + 1 /\ g[i] = F[m + 1][f[m]] /\ g[i - 1] = f[m]
        BY <3>2
      <4> QED BY <4>1
    <3> QED BY <3>1, <3>2
  <2> HIDE DEF g
  <2>5. Sol(m + 1, g)
    BY <2>3, <2>4 DEF Solution
  <2> HIDE DEF Sol
  <2> QED BY <2>5
<1> HIDE DEF T
<1>3. \A i \in 0..n : i \in T
  BY <1>1, <1>2, Induction
<1>4. n \in T
  BY <1>3
<1> QED BY <1>4 DEF T

-----------------------------------------------------------------------------
(* Links *)

Step(x) == IF x = Key THEN Key ELSE LinkOf[x]

LEMMA FollowSteps ==
  ASSUME start \in Names
  PROVE  /\ Follow \in [0..LinkMaxDepth -> Names]
         /\ Follow[0] = start
         /\ \A i \in 1..LinkMaxDepth : Follow[i] = Step(Follow[i - 1])
<1> DEFINE F == [i \in Nat |-> [x \in Names |-> Step(x)]]
           N == LinkMaxDepth
<1>1. N \in Nat /\ \A x \in Names : Step(x) \in Names
  BY ReaderConstants DEF Step, Names
<1>2. F \in [Nat -> [Names -> Names]]
  BY <1>1
<1>12. \A i \in Nat, x \in Names : F[i][x] = Step(x)
  OBVIOUS
<1> HIDE DEF F
<1>13. PICK f : Solution(f, Names, start, F, N)
  BY <1>1, <1>2, Iterated
<1>3. f \in [0..N -> Names] /\ f[0] = start /\ \A i \in 1..N : f[i] = F[i][f[i - 1]]
  BY <1>13 DEF Solution
<1>4. f = [i \in 0..N |-> IF i = 0 THEN start ELSE IF f[i - 1] = Key THEN Key ELSE LinkOf[f[i - 1]]]
  <2>1. ASSUME NEW i \in 1..N PROVE f[i] = Step(f[i - 1])
    <3>1. i \in Nat /\ i - 1 \in 0..N /\ f[i - 1] \in Names
      BY <1>1, <1>3
    <3> QED BY <1>12, <1>3, <3>1
  <2>2. ASSUME NEW i \in 0..N
        PROVE f[i] = IF i = 0 THEN start ELSE IF f[i - 1] = Key THEN Key ELSE LinkOf[f[i - 1]]
    <3>1. CASE i = 0
      BY <1>3, <3>1
    <3>2. CASE i # 0
      <4>1. i \in 1..N
        BY <1>1, <3>2
      <4> QED BY <2>1, <3>2, <4>1 DEF Step
    <3> QED BY <3>1, <3>2
  <2> QED BY <1>3, <2>2
<1>5. Follow = [i \in 0..N |-> IF i = 0 THEN start
                               ELSE IF Follow[i - 1] = Key THEN Key ELSE LinkOf[Follow[i - 1]]]
  BY <1>4 DEF Follow
<1>6. DOMAIN Follow = 0..N /\ Follow[0] = start
  BY <1>1, <1>5
<1>7. \A i \in 1..N : Follow[i] = Step(Follow[i - 1])
  BY <1>1, <1>5 DEF Step
<1>8. \A i \in 0..N : Follow[i] \in Names
  <2> DEFINE T == {i \in 0..N : Follow[i] \in Names}
  <2>1. 0 \in T
    BY <1>1, <1>6
  <2>2. \A i \in 0..N : i \in T /\ i + 1 <= N => i + 1 \in T
    <3> SUFFICES ASSUME NEW i \in 0..N, i \in T, i + 1 <= N PROVE i + 1 \in T
      OBVIOUS
    <3>1. i + 1 \in 1..N /\ (i + 1) - 1 = i
      BY <1>1
    <3>2. Follow[i + 1] = Step(Follow[i])
      BY <1>7, <3>1
    <3> QED BY <1>1, <3>1, <3>2
  <2> HIDE DEF T
  <2>3. \A i \in 0..N : i \in T
    BY <1>1, <2>1, <2>2, Induction
  <2> QED BY <2>3 DEF T
<1>9. Follow = [i \in 0..N |-> Follow[i]]
  BY <1>5, <1>6
<1>10. Follow \in [0..N -> Names]
  BY <1>8, <1>9
<1> QED BY <1>6, <1>7, <1>10

\* From the object links lead nowhere else.
LEMMA FollowEnds ==
  ASSUME start \in Names, NEW m \in 0..LinkMaxDepth, Follow[m] = Key
  PROVE  \A i \in m..LinkMaxDepth : Follow[i] = Key
<1> DEFINE T == {i \in 0..LinkMaxDepth : Follow[i] = Key}
<1>1. LinkMaxDepth \in Nat /\ m \in Nat /\ m \in T
  BY ReaderConstants
<1>2. ASSUME NEW i \in m..LinkMaxDepth, i \in T, i + 1 <= LinkMaxDepth
      PROVE  i + 1 \in T
  <2>1. i + 1 \in 1..LinkMaxDepth /\ (i + 1) - 1 = i /\ Follow[i] = Key
    BY <1>1, <1>2
  <2>2. Follow[i + 1] = Step(Follow[i])
    BY <2>1, FollowSteps
  <2> QED BY <1>1, <2>1, <2>2 DEF Step
<1> HIDE DEF T
<1>3. \A i \in m..LinkMaxDepth : i \in T
  BY <1>1, <1>2, Induction
<1> QED BY <1>3 DEF T

\* A chain that comes back to a link it went through never ends.
LEMMA FollowCycles ==
  ASSUME start \in Names, NEW m \in 0..LinkMaxDepth,
         \A i \in 0..(m - 1) : Follow[i] \in Links,
         NEW j \in 0..(m - 1), Follow[j] = Follow[m]
  PROVE  \A i \in 0..LinkMaxDepth : Follow[i] \in Links
<1> DEFINE L == {Follow[i] : i \in 0..(m - 1)}
           T == {i \in 0..LinkMaxDepth : Follow[i] \in L}
<1>1. LinkMaxDepth \in Nat /\ m \in Nat /\ 0 \in 0..(m - 1) /\ 0 \in T
  BY ReaderConstants
<1>2. ASSUME NEW x \in L PROVE Step(x) \in L
  <2>1. PICK k \in 0..(m - 1) : x = Follow[k]
    OBVIOUS
  <2>2. k + 1 \in 1..LinkMaxDepth /\ (k + 1) - 1 = k
    BY <1>1
  <2>3. Follow[k + 1] = Step(x)
    BY <2>1, <2>2, FollowSteps
  <2>4. CASE k + 1 = m
    BY <2>3, <2>4
  <2>5. CASE k + 1 # m
    <3>1. k + 1 \in 0..(m - 1)
      BY <1>1, <2>5
    <3> QED BY <2>3, <3>1
  <2> QED BY <2>4, <2>5
<1>3. ASSUME NEW i \in 0..LinkMaxDepth, i \in T, i + 1 <= LinkMaxDepth
      PROVE  i + 1 \in T
  <2>1. i + 1 \in 1..LinkMaxDepth /\ i + 1 \in 0..LinkMaxDepth /\ (i + 1) - 1 = i
    BY <1>1, <1>3
  <2>2. Follow[i + 1] = Step(Follow[i])
    BY <2>1, FollowSteps
  <2> QED BY <1>2, <1>3, <2>1, <2>2
<1>4. L \subseteq Links
  OBVIOUS
<1> HIDE DEF L
<1>5. \A i \in 0..LinkMaxDepth : i \in T
  <2> HIDE DEF T
  <2> QED BY <1>1, <1>3, Induction
<1> QED BY <1>4, <1>5

FollowsFromStart == start \in Names => Follow[0] = start

LEMMA FollowStart == FollowsFromStart
  BY FollowSteps DEF FollowsFromStart

LEMMA SearchInductive == Spec => []SearchInv
<1>1. Init => SearchInv
  BY InitTypes DEF SearchInv, Init, SearchSteps
<1>2. SearchInv /\ [Next]_vars => SearchInv'
  <2> SUFFICES ASSUME SearchInv, [Next]_vars PROVE SearchInv'
    OBVIOUS
  <2>1. ReaderTypes /\ SearchSteps
    BY TypesSplit DEF SearchInv
  <2>2. ASSUME UNCHANGED <<start, at, seen, depth, get>> PROVE SearchSteps'
    BY <2>1, <2>2 DEF SearchSteps, Follow
  <2>3. ASSUME NEW n \in Names, Get(n) PROVE SearchSteps'
    <3>1. start' = n /\ at' = n /\ get' = "resolve" /\ seen' = {} /\ depth' = 0
      BY <2>1, <2>3 DEF Get, SearchSteps
    <3>4. FollowsFromStart'
      BY FollowStart, PTL
    <3>2. Follow'[0] = start'
      BY <3>1, <3>4 DEF FollowsFromStart
    <3>3. {Follow'[i] : i \in 0..(0 - 1)} = {}
      OBVIOUS
    <3> QED BY <3>1, <3>2, <3>3 DEF SearchSteps
  <2>4. ASSUME FollowLink PROVE SearchSteps'
    <3>1. /\ get = "resolve" /\ get' = "resolve" /\ depth < LinkMaxDepth /\ at \in Links
          /\ start' = start /\ seen' = seen \cup {at} /\ at' = LinkOf[at] /\ depth' = depth + 1
      BY <2>1, <2>4, ReaderConstants DEF FollowLink, TooDeep, ReaderTypes
    <3>2. Follow' = Follow
      BY <3>1 DEF Follow
    <3>3. depth \in Nat /\ depth + 1 \in 1..LinkMaxDepth /\ (depth + 1) - 1 = depth
      BY <2>1, <3>1, ReaderConstants DEF ReaderTypes
    <3>4. at = Follow[depth] /\ at # Key /\ start \in Names
      BY <2>1, <3>1, ReaderConstants DEF SearchSteps, ReaderTypes
    <3>5. Follow[depth + 1] = LinkOf[at]
      BY <3>3, <3>4, FollowSteps DEF Step
    <3>6. {Follow[i] : i \in 0..depth} = {Follow[i] : i \in 0..(depth - 1)} \cup {Follow[depth]}
      <4>1. \A i : i \in 0..depth <=> i \in 0..(depth - 1) \/ i = depth
        BY <3>3
      <4> QED BY <4>1
    <3>7. seen = {Follow[i] : i \in 0..(depth - 1)}
      BY <2>1, <3>1 DEF SearchSteps
    <3>8. seen' = {Follow[i] : i \in 0..(depth' - 1)}
      BY <3>1, <3>3, <3>4, <3>6, <3>7
    <3>9. at' = Follow[depth']
      BY <3>1, <3>5
    <3>10. seen' = {Follow'[i] : i \in 0..(depth' - 1)} /\ at' = Follow'[depth']
      BY <3>2, <3>8, <3>9
    <3> QED BY <3>1, <3>10 DEF SearchSteps
  <2>5. ASSUME get' \notin {"idle", "resolve"} PROVE SearchSteps'
    BY <2>5 DEF SearchSteps
  <2>6. ASSUME BadLink \/ Resolve \/ GetFails \/ Subscribe PROVE SearchSteps'
    <3>1. get' \notin {"idle", "resolve"}
      <4>1. CASE BadLink \/ GetFails
        BY <4>1 DEF BadLink, GetFails, EndSearch
      <4>2. CASE Resolve
        BY <4>2 DEF Resolve, EndSearch
      <4>3. CASE Subscribe
        BY <4>3 DEF Subscribe
      <4> QED BY <2>6, <4>1, <4>2, <4>3
    <3> QED BY <2>5, <3>1
  <2>8. SearchSteps'
    <3>1. ASSUME \/ Deliver \/ Cancel \/ Enter \/ ReadStep
                 \/ \E k \in Closers : Close(k) \/ CloseStep(k)
          PROVE  UNCHANGED <<start, at, seen, depth, get>>
      BY <3>1 DEF Deliver, Cancel, Enter, ReadStep, ReadOver, ReadRest, ReadEnd, ReadNext, Take,
                  TakeInvalid, NextFails, Terminate, Close, CloseStep, RunClose, Drain,
                  AwaitClose, getVars
    <3>2. ASSUME UNCHANGED readerVars PROVE SearchSteps'
      BY <2>2, <3>2 DEF readerVars, getVars
    <3>3. CASE ReaderStep
      BY <2>2, <2>3, <2>4, <2>6, <3>1, <3>3 DEF ReaderStep
    <3> QED BY <3>2, <3>3, StepSplit
  <2> QED BY <2>8, TypesStep DEF SearchInv
<1> QED BY <1>1, <1>2, PTL DEF Spec

\* Get finds the object exactly when fewer than LinkMaxDepth links lead there.
THEOREM LinksFollowed == Spec => LinksResolved
<1> DEFINE Right == get = "resolve" =>
             /\ get' = "badlink" => Follow[LinkMaxDepth - 1] # Key
             /\ get' \in {"notfound", "subscribe", "open"} => Follow[LinkMaxDepth - 1] = Key
<1>1. SearchInv /\ [Next]_vars => [Right]_vars
  <2> SUFFICES ASSUME SearchInv, [Next]_vars, get = "resolve" PROVE Right
    OBVIOUS
  <2>1. /\ start \in Names /\ seen \subseteq Links /\ depth \in 0..LinkMaxDepth
        /\ at = Follow[depth] /\ seen = {Follow[i] : i \in 0..(depth - 1)}
        /\ LinkMaxDepth \in Nat \ {0}
    BY ReaderConstants DEF SearchInv, SearchSteps, TypeOK
  <2>2. \A i \in 0..(depth - 1) : Follow[i] \in Links
    BY <2>1
  <2>3. LinkMaxDepth - 1 \in 0..LinkMaxDepth
    BY <2>1
  <2>4. CASE BadLink
    <3>1. Follow[LinkMaxDepth - 1] \in Links
      <4>1. CASE TooDeep
        <5>1. LinkMaxDepth - 1 \in 0..(depth - 1)
          BY <2>1, <4>1 DEF TooDeep
        <5> QED BY <2>2, <5>1
      <4>2. CASE at \in seen
        <5>1. PICK j \in 0..(depth - 1) : Follow[j] = Follow[depth]
          BY <2>1, <4>2
        <5> QED BY <2>1, <2>2, <2>3, <5>1, FollowCycles
      <4> QED BY <2>4, <4>1, <4>2 DEF BadLink
    <3>2. Follow[LinkMaxDepth - 1] # Key
      BY <3>1, ReaderConstants
    <3>3. get' = "badlink"
      BY <2>4 DEF BadLink, EndSearch
    <3> QED BY <3>2, <3>3
  <2>5. CASE Resolve
    <3>1. at = Key /\ depth < LinkMaxDepth
      BY <2>1, <2>5 DEF Resolve, TooDeep
    <3>2. LinkMaxDepth - 1 \in depth..LinkMaxDepth
      BY <2>1, <3>1
    <3>3. Follow[LinkMaxDepth - 1] = Key
      BY <2>1, <3>1, <3>2, FollowEnds
    <3>4. get' # "badlink"
      BY <2>5 DEF Resolve, EndSearch
    <3> QED BY <3>3, <3>4
  <2>6. CASE ~BadLink /\ ~Resolve
    <3>1. ASSUME ReaderStep PROVE get' \in {"resolve", "error"}
      BY <2>6, <3>1
         DEF ReaderStep, Get, FollowLink, Subscribe, GetFails, EndSearch, Deliver,
             Cancel, Enter, ReadStep, ReadOver, ReadRest, ReadEnd, ReadNext, Take, TakeInvalid,
             NextFails, Terminate, Close, CloseStep, RunClose, Drain, AwaitClose, getVars
    <3>2. ASSUME UNCHANGED readerVars PROVE get' = "resolve"
      BY <3>2 DEF readerVars, getVars
    <3> QED BY <3>1, <3>2, StepSplit
  <2> QED BY <2>4, <2>5, <2>6
<1> QED BY <1>1, SearchInductive, PTL DEF Spec, LinksResolved

-----------------------------------------------------------------------------
(* Contents and the bytes in them *)

\* Joining the chunks of s from the left.
Joins(s) == [i \in Nat |-> [x \in Chunks |-> IF i \in 1..Len(s) THEN x \o s[i] ELSE x]]

LEMMA JoinSteps ==
  ASSUME NEW s \in Seq(Chunks)
  PROVE  /\ Joins(s) \in [Nat -> [Chunks -> Chunks]]
         /\ \A i \in 1..Len(s) : \A x \in Chunks : Joins(s)[i][x] = x \o s[i]
         /\ <<>> \in Chunks /\ Len(s) \in Nat
<1>1. \A i \in 1..Len(s) : s[i] \in Chunks
  OBVIOUS
<1>2. \A x, y \in Chunks : x \o y \in Chunks
  BY DEF Chunks
<1>3. \A i \in Nat : \A x \in Chunks : (IF i \in 1..Len(s) THEN x \o s[i] ELSE x) \in Chunks
  BY <1>1, <1>2
<1>4. Len(s) \in Nat /\ 1..Len(s) \subseteq Nat
  OBVIOUS
<1>5. <<>> \in Chunks
  BY DEF Chunks
<1>6. Joins(s) \in [Nat -> [Chunks -> Chunks]]
  BY <1>3 DEF Joins
<1>7. \A i \in 1..Len(s) : \A x \in Chunks : Joins(s)[i][x] = x \o s[i]
  BY <1>4 DEF Joins
<1> QED BY <1>4, <1>5, <1>6, <1>7

\* That is what FlattenSeq computes.
LEMMA Flattened ==
  ASSUME NEW s \in Seq(Chunks), NEW f, Solution(f, Chunks, <<>>, Joins(s), Len(s))
  PROVE  FlattenSeq(s) = f[Len(s)] /\ FlattenSeq(s) \in Chunks
<1> DEFINE N == Len(s)
<1>1. N \in Nat /\ f \in [0..N -> Chunks] /\ f[0] = <<>>
  BY JoinSteps DEF Solution
<1>2. ASSUME NEW i \in 1..N PROVE f[i] = f[i - 1] \o s[i] /\ f[i - 1] \in Chunks
  <2>1. f[i] = Joins(s)[i][f[i - 1]]
    BY DEF Solution
  <2>2. f[i - 1] \in Chunks
    BY <1>1
  <2> QED BY <2>1, <2>2, JoinSteps
<1>3. CASE N = 0
  BY <1>1, <1>3 DEF FlattenSeq
<1>4. CASE N # 0
  <2> DEFINE E(h) == [i \in 1..N |-> IF i = 1 THEN s[i] ELSE h[i - 1] \o s[i]]
             g == [i \in 1..N |-> f[i]]
             h == CHOOSE q : q = E(q)
  <2>1. ASSUME NEW i \in 1..N PROVE g[i] = IF i = 1 THEN s[i] ELSE g[i - 1] \o s[i]
    <3>1. CASE i = 1
      <4>1. f[1] = <<>> \o s[1] /\ s[1] \in Chunks
        BY <1>1, <1>2, <3>1
      <4> QED BY <3>1, <4>1 DEF Chunks
    <3>2. CASE i # 1
      <4>1. i - 1 \in 1..N
        BY <1>1, <3>2
      <4> QED BY <1>2, <3>2, <4>1
    <3> QED BY <3>1, <3>2
  <2>2. g = E(g)
    BY <2>1
  <2>3. h = E(h)
    <3> HIDE DEF g, E
    <3> QED BY <2>2
  <2>4. FlattenSeq(s) = h[N]
    BY <1>4 DEF FlattenSeq
  <2> HIDE DEF h, g
  <2>5. DOMAIN h = 1..N /\ \A i \in 1..N : h[i] = IF i = 1 THEN s[i] ELSE h[i - 1] \o s[i]
    BY <2>3
  <2> DEFINE T == {i \in 1..N : h[i] = g[i]}
  <2>6. 1 \in T
    <3>1. 1 \in 1..N
      BY <1>1, <1>4
    <3>2. g[1] = s[1] /\ h[1] = s[1]
      BY <2>1, <2>5, <3>1
    <3> QED BY <3>1, <3>2
  <2>7. ASSUME NEW i \in 1..N, i \in T, i + 1 <= N
        PROVE  i + 1 \in T
    <3>1. i + 1 \in 1..N /\ i + 1 # 1 /\ (i + 1) - 1 = i
      BY <1>1, <2>7
    <3>2. g[i + 1] = g[i] \o s[i + 1]
      BY <2>1, <3>1
    <3>3. h[i + 1] = h[i] \o s[i + 1]
      BY <2>5, <3>1
    <3> QED BY <2>7, <3>1, <3>2, <3>3
  <2> HIDE DEF T
  <2>8. \A i \in 1..N : i \in T
    BY <1>1, <2>6, <2>7, Induction
  <2>9. h[N] = f[N]
    BY <1>1, <1>4, <2>8 DEF T, g
  <2> QED BY <1>1, <2>4, <2>9
<1> QED BY <1>3, <1>4

LEMMA FlattenAppend ==
  ASSUME NEW s \in Seq(Chunks), NEW x \in Chunks
  PROVE  FlattenSeq(s) \in Chunks /\ FlattenSeq(Append(s, x)) = FlattenSeq(s) \o x
<1> DEFINE t == Append(s, x)
           N == Len(s)
<1>1. PICK f : Solution(f, Chunks, <<>>, Joins(s), N)
  BY JoinSteps, Iterated
<1>2. /\ N \in Nat /\ f \in [0..N -> Chunks] /\ f[0] = <<>>
      /\ \A i \in 1..N : f[i] = Joins(s)[i][f[i - 1]]
  BY <1>1, JoinSteps DEF Solution
<1>3. t \in Seq(Chunks) /\ Len(t) = N + 1 /\ t[N + 1] = x /\ \A i \in 1..N : t[i] = s[i]
  OBVIOUS
<1> HIDE DEF t
<1> DEFINE g == [i \in 0..(N + 1) |-> IF i <= N THEN f[i] ELSE f[N] \o x]
<1>4. f[N] \in Chunks /\ f[N] \o x \in Chunks
  BY <1>2 DEF Chunks
<1>5. Solution(g, Chunks, <<>>, Joins(t), N + 1)
  <2>1. g \in [0..(N + 1) -> Chunks] /\ g[0] = <<>>
    BY <1>2, <1>4
  <2>2. ASSUME NEW i \in 1..(N + 1)
        PROVE  g[i] = Joins(t)[i][g[i - 1]]
    <3>1. i - 1 \in 0..N /\ g[i - 1] = f[i - 1] /\ f[i - 1] \in Chunks
      BY <1>2
    <3>2. Joins(t)[i][f[i - 1]] = f[i - 1] \o t[i]
      BY <1>3, <3>1, JoinSteps
    <3>3. CASE i <= N
      <4>1. i \in 1..N /\ g[i] = f[i]
        BY <1>2, <3>3
      <4>2. f[i] = f[i - 1] \o s[i]
        BY <1>2, <3>1, <4>1, JoinSteps
      <4> QED BY <1>3, <3>1, <3>2, <4>1, <4>2
    <3>4. CASE ~(i <= N)
      <4>1. i = N + 1 /\ g[i] = f[N] \o x /\ i - 1 = N
        BY <1>2, <3>4
      <4> QED BY <1>3, <3>1, <3>2, <4>1
    <3> QED BY <3>3, <3>4
  <2> HIDE DEF g
  <2> QED BY <2>1, <2>2 DEF Solution
<1>6. g[N + 1] = f[N] \o x
  BY <1>2
<1> HIDE DEF g
<1>7. FlattenSeq(s) = f[N] /\ FlattenSeq(s) \in Chunks
  BY <1>1, Flattened
<1>8. FlattenSeq(t) = g[N + 1]
  BY <1>3, <1>5, Flattened
<1> QED BY <1>6, <1>7, <1>8 DEF t

LEMMA Sizes ==
  ASSUME NEW s \in Seq(Chunks)
  PROVE  /\ Size(s) \in Nat /\ Size(<<>>) = 0
         /\ \A x \in Chunks : Len(x) \in Nat /\ Size(Append(s, x)) = Size(s) + Len(x)
<1>1. FlattenSeq(s) \in Seq(Int)
  <2>1. <<>> \in Chunks
    BY DEF Chunks
  <2> QED BY <2>1, FlattenAppend DEF Chunks
<1>2. Size(<<>>) = 0
  BY DEF Size, FlattenSeq
<1>3. ASSUME NEW x \in Chunks
      PROVE  Len(x) \in Nat /\ Size(Append(s, x)) = Size(s) + Len(x)
  BY <1>1, <1>3, FlattenAppend DEF Size, Chunks
<1> QED BY <1>1, <1>2, <1>3 DEF Size

-----------------------------------------------------------------------------
(* The reader delivers the whole object *)

Message == [seq : Nat, data : Chunks]

LEMMA FunctionIsSeq ==
  ASSUME NEW S, NEW n \in Nat, NEW f \in [1..n -> S]
  PROVE  f \in Seq(S)
  OBVIOUS

\* What is stored are contents and chunk messages, and a Put that is over keeps its own.
LEMMA DataKept ==
  ASSUME StoreTypes, StoreNext, content \in [Puts -> Seq(Chunks)], chunks \in [Puts -> Seq(Message)]
  PROVE  /\ content' \in [Puts -> Seq(Chunks)] /\ chunks' \in [Puts -> Seq(Message)]
         /\ \A p \in Puts : pc[p] = "done" => pc'[p] = "done" /\ content'[p] = content[p]
<1> USE DEF StoreTypes
<1>1. ASSUME NEW p \in Puts, NEW c \in Contents[p], Look(p, c)
      PROVE  /\ content' \in [Puts -> Seq(Chunks)] /\ chunks' = chunks
             /\ \A q \in Puts : pc[q] = "done" => pc'[q] = "done" /\ content'[q] = content[q]
  <2>1. c \in Seq(Chunks)
    BY BlobConstants DEF Chunks
  <2> QED BY <1>1, <2>1 DEF Look, Return, objectVars
<1>2. ASSUME NEW p \in Puts, Store(p)
      PROVE  /\ content' = content /\ chunks' \in [Puts -> Seq(Message)]
             /\ \A q \in Puts : pc[q] = "done" => pc'[q] = "done"
  <2>1. Messages(content[p]) \in Seq(Message)
    <3>1. content[p] \in Seq(Chunks)
      OBVIOUS
    <3>2. Len(content[p]) \in Nat /\ \A i \in 1..Len(content[p]) : content[p][i] \in Chunks
      BY <3>1
    <3>3. \A i \in 1..Len(content[p]) : [seq |-> i, data |-> content[p][i]] \in Message
      BY <3>2 DEF Message
    <3>4. Messages(content[p]) \in [1..Len(content[p]) -> Message]
      BY <3>3 DEF Messages
    <3> QED BY <3>2, <3>4, FunctionIsSeq
  <2>2. <<>> \in Seq(Message)
    OBVIOUS
  <2> DEFINE stored == [chunks EXCEPT ![p] = Messages(content[p])]
  <2>3. stored \in [Puts -> Seq(Message)]
    BY <2>1
  <2>4. Purged(stored, meta) \in [Puts -> Seq(Message)]
    BY <2>2, <2>3 DEF Purged
  <2>5. chunks' = stored \/ chunks' = Purged(stored, meta)
    BY <1>2 DEF Store
  <2> HIDE DEF stored
  <2> QED BY <1>2, <2>3, <2>4, <2>5 DEF Store, Return
<1>3. ASSUME NEW p \in Puts, PutFails(p)
      PROVE  /\ content' = content /\ chunks' = chunks
             /\ \A q \in Puts : pc[q] = "done" => pc'[q] = "done"
  BY <1>3 DEF PutFails, Return, objectVars
<1>4. ASSUME NEW p \in Puts, Damage(p)
      PROVE  content' = content /\ pc' = pc /\ chunks' \in [Puts -> Seq(Message)]
  <2>1. PICK i \in 1..Len(chunks[p]) :
          \/ chunks' = [chunks EXCEPT ![p] = RemoveAt(@, i)]
          \/ \E b \in Damages : chunks' = [chunks EXCEPT ![p][i].data = b]
    BY <1>4 DEF Damage
  <2> DEFINE s == chunks[p]
  <2>2. s \in Seq(Message) /\ Len(s) \in Nat /\ s[i] \in Message
    OBVIOUS
  <2>3. RemoveAt(s, i) \in Seq(Message)
    <3>1. SubSeq(s, 1, i - 1) \in Seq(Message)
      <4>1. i - 1 \in 0..Len(s)
        BY <2>2
      <4> QED BY <2>2, <4>1, SubSeqProperties
    <3>2. SubSeq(s, i + 1, Len(s)) \in Seq(Message)
      <4>1. i + 1 \in 1..(Len(s) + 1)
        BY <2>2
      <4> QED BY <2>2, <4>1, SubSeqProperties
    <3> QED BY <3>1, <3>2, ConcatProperties DEF RemoveAt
  <2>4. ASSUME NEW b \in Damages PROVE [s EXCEPT ![i].data = b] \in Seq(Message)
    <3>1. b \in Chunks
      BY BlobConstants DEF Chunks
    <3>2. [s[i] EXCEPT !.data = b] \in Message
      BY <2>2, <3>1 DEF Message
    <3>3. [s EXCEPT ![i].data = b] = [s EXCEPT ![i] = [s[i] EXCEPT !.data = b]]
      OBVIOUS
    <3>4. [s EXCEPT ![i] = [s[i] EXCEPT !.data = b]] \in Seq(Message)
      BY <2>2, <3>2, ExceptSeq
    <3> QED BY <3>3, <3>4
  <2>5. CASE chunks' = [chunks EXCEPT ![p] = RemoveAt(@, i)]
    BY <1>4, <2>3, <2>5 DEF Damage, putVars
  <2>6. ASSUME NEW b \in Damages, chunks' = [chunks EXCEPT ![p][i].data = b]
        PROVE  content' = content /\ pc' = pc /\ chunks' \in [Puts -> Seq(Message)]
    <3>1. chunks' = [chunks EXCEPT ![p] = [s EXCEPT ![i].data = b]]
      BY <2>6
    <3>2. [s EXCEPT ![i].data = b] \in Seq(Message)
      BY <2>4
    <3> QED BY <1>4, <3>1, <3>2 DEF Damage, putVars
  <2> QED BY <2>1, <2>5, <2>6
<1>5. ASSUME NEW d \in Deletes, DeleteLook(d) \/ DeleteMark(d)
      PROVE  content' = content /\ pc' = pc /\ chunks' \in [Puts -> Seq(Message)]
  <2>1. <<>> \in Seq(Message)
    OBVIOUS
  <2> QED BY <1>5, <2>1 DEF DeleteLook, DeleteMark, Purged, objectVars, putVars
<1> QED BY <1>1, <1>2, <1>3, <1>4, <1>5 DEF StoreNext

Ended == terminal = "eof" => FlattenSeq(fetched) = FlattenSeq(Expected) /\ got = Size(Expected)

InBounds ==
  obj # None => /\ Size(fetched) <= Size(Expected)
                /\ Len(fetched) <= Len(Expected)
                /\ got <= Size(fetched)

ReadInv == StoreTypes /\ ReaderTypes /\ StoreInv /\ DataTypes /\ GetSteps /\ ReadSteps /\ Ended /\ InBounds

LEMMA ContentSplit == ContentInv <=> ReadInv
  BY TypesSplit DEF ContentInv, WholeContent, ReadInv, Ended, InBounds

\* Nothing was read, or nothing read changes.
LEMMA ReadKept ==
  ASSUME ReadInv, UNCHANGED <<obj, fetched, got, terminal>>,
         obj # None => content'[obj] = content[obj]
  PROVE  Ended' /\ InBounds'
<1>1. terminal = "eof" => obj # None
  BY DEF ReadInv, GetSteps
<1>2. obj # None => Expected' = Expected
  BY DEF Expected
<1> QED BY <1>1, <1>2 DEF ReadInv, Ended, InBounds, Size

\* Writers, Deletes and damage meanwhile.
LEMMA StoreStepKeeps ==
  ASSUME ReadInv, StoreNext, UNCHANGED readerVars
  PROVE  DataTypes' /\ GetSteps' /\ ReadSteps' /\ Ended' /\ InBounds'
<1> USE DEF readerVars, getVars, feedVars, readVars
<1>1. /\ content' \in [Puts -> Seq(Chunks)] /\ chunks' \in [Puts -> Seq(Message)]
      /\ \A p \in Puts : pc[p] = "done" => pc'[p] = "done" /\ content'[p] = content[p]
  BY DataKept DEF ReadInv, DataTypes, Message
<1>2. obj # None => content'[obj] = content[obj] /\ pc'[obj] = "done"
  BY <1>1 DEF ReadInv, GetSteps, ReaderTypes
<1>3. Ended' /\ InBounds'
  BY <1>2, ReadKept
<1>4. DataTypes'
  BY <1>1 DEF ReadInv, DataTypes, Message
<1>5. GetSteps' /\ ReadSteps'
  BY <1>2 DEF ReadInv, GetSteps, ReadSteps
<1> QED BY <1>3, <1>4, <1>5

\* Get, the subscription and Close.
LEMMA GetStepKeeps ==
  ASSUME ReadInv, UNCHANGED storeVars,
         \/ \E n \in Names : Get(n)
         \/ BadLink \/ FollowLink \/ Resolve \/ Subscribe \/ GetFails
         \/ Deliver \/ Cancel \/ Enter
         \/ \E k \in Closers : Close(k) \/ CloseStep(k)
  PROVE  DataTypes' /\ GetSteps' /\ ReadSteps' /\ Ended' /\ InBounds'
<1> USE DEF storeVars, objectVars, putVars
<1>1. CASE Resolve
  <2>1. /\ get = "resolve" /\ obj' = meta /\ UNCHANGED <<inbox, fetched, got, terminal, rd>>
        /\ get' = IF meta = None THEN "notfound"
                  ELSE IF content[meta] = <<>> THEN "open" ELSE "subscribe"
    BY <1>1 DEF Resolve, EndSearch, feedVars, readVars
  <2>2. rd = "idle" /\ terminal = "none" /\ fetched = <<>> /\ got = 0
    BY <2>1 DEF ReadInv, GetSteps
  <2>3. DataTypes'
    BY <2>1 DEF ReadInv, DataTypes
  <2>4. GetSteps' /\ ReadSteps'
    BY <2>1, <2>2 DEF ReadInv, StoreInv, GetSteps, ReadSteps
  <2>5. Ended'
    BY <2>1, <2>2 DEF Ended
  <2>6. meta # None => content[meta] \in Seq(Chunks)
    BY DEF ReadInv, StoreTypes, DataTypes
  <2>7. Size(<<>>) = 0 /\ (meta # None => Size(content[meta]) \in Nat /\ Len(content[meta]) \in Nat)
    BY <2>6, Sizes DEF Size, FlattenSeq
  <2>8. InBounds'
    <3>1. obj' = meta /\ Expected' = content[meta] /\ fetched' = <<>> /\ got' = 0
      BY <2>1, <2>2 DEF Expected
    <3>2. meta # None => /\ Size(<<>>) <= Size(content[meta])
                         /\ Len(<<>>) <= Len(content[meta]) /\ 0 <= Size(<<>>)
      BY <2>7
    <3> QED BY <3>1, <3>2 DEF InBounds, Size
  <2> QED BY <2>3, <2>4, <2>5, <2>8
<1>2. CASE ~Resolve
  <2>1. UNCHANGED <<obj, fetched, got, terminal>>
    BY <1>2 DEF Get, BadLink, FollowLink, Subscribe, GetFails, EndSearch, Deliver, Cancel, Enter,
                Close, CloseStep, RunClose, Drain, AwaitClose, getVars, readVars
  <2>2. Ended' /\ InBounds'
    BY <2>1, ReadKept
  <2>3. rd' \in {rd, "entered"} /\ (rd' = rd \/ get = "open")
    BY <1>2 DEF Get, BadLink, FollowLink, Subscribe, GetFails, EndSearch, Deliver, Cancel, Enter,
                Close, CloseStep, RunClose, Drain, AwaitClose, readVars
  <2>4. ReadSteps'
    BY <2>1, <2>3 DEF ReadInv, ReadSteps
  <2>5. \/ get' = get
        \/ get = "idle" /\ get' = "resolve"
        \/ get = "resolve" /\ get' = "badlink"
        \/ get = "subscribe" /\ get' = "open"
        \/ get \in {"resolve", "subscribe"} /\ get' = "error"
    <3>1. CASE (\E n \in Names : Get(n)) \/ Subscribe
      BY <3>1 DEF Get, Subscribe
    <3>2. CASE BadLink \/ GetFails
      BY <3>2 DEF BadLink, GetFails, EndSearch
    <3>3. CASE \/ FollowLink \/ Deliver \/ Cancel \/ Enter
               \/ \E k \in Closers : Close(k) \/ CloseStep(k)
      BY <3>3 DEF FollowLink, Deliver, Cancel, Enter, Close, CloseStep, RunClose, Drain,
                  AwaitClose, getVars
    <3> QED BY <1>2, <3>1, <3>2, <3>3
  <2>6. GetSteps'
    BY <2>1, <2>3, <2>5 DEF ReadInv, GetSteps
  <2>7. CASE Deliver
    <3> DEFINE rest == {i \in 1..Len(chunks[obj]) : chunks[obj][i].seq > lastSeq}
               next == chunks[obj][Min(rest)]
    <3>1. rest # {} /\ inbox' = [seq |-> next.seq, data |-> next.data, pending |-> Cardinality(rest) - 1]
      BY <2>7 DEF Deliver
    <3>2. obj \in Puts /\ chunks[obj] \in Seq(Message)
      BY <2>7 DEF Deliver, ReadInv, GetSteps, ReaderTypes, DataTypes, Message
    <3>3. Len(chunks[obj]) \in Nat /\ rest \in SUBSET (1..Len(chunks[obj]))
      BY <3>2
    <3>4. Min(rest) \in rest
      <4> HIDE DEF rest
      <4>1. rest \subseteq Nat
        BY <3>3
      <4>2. PICK m \in rest : \A n \in rest : m <= n
        BY <3>1, <4>1, LeastNatural
      <4> QED BY <4>2 DEF Min
    <3>5. next \in Message
      <4>1. Min(rest) \in 1..Len(chunks[obj])
        BY <3>3, <3>4
      <4> HIDE DEF rest
      <4> QED BY <3>2, <4>1
    <3>6. Cardinality(rest) - 1 \in Nat
      <4> HIDE DEF rest
      <4>1. IsFiniteSet(1..Len(chunks[obj]))
        BY <3>3, FS_Interval
      <4>2. IsFiniteSet(rest)
        BY <3>3, <4>1, FS_Subset
      <4>3. Cardinality(rest) \in Nat /\ Cardinality(rest) # 0
        BY <3>1, <4>2, FS_CardinalityType, FS_EmptySet
      <4> QED BY <4>3
    <3> HIDE DEF next, rest
    <3>7. inbox'.data \in Chunks /\ inbox'.pending \in Nat
      BY <3>1, <3>5, <3>6 DEF Message
    <3> QED BY <2>1, <2>2, <2>4, <2>6, <3>7 DEF ReadInv, DataTypes
  <2>8. CASE ~Deliver
    <3>1. inbox' = inbox
      BY <1>2, <2>8 DEF Get, BadLink, FollowLink, Subscribe, GetFails, EndSearch, Cancel, Enter,
                  Close, CloseStep, RunClose, Drain, AwaitClose, feedVars
    <3> QED BY <2>1, <2>2, <2>4, <2>6, <3>1 DEF ReadInv, DataTypes
  <2> QED BY <2>7, <2>8
<1> QED BY <1>1, <1>2

\* Read
LEMMA ReadStepKeeps ==
  ASSUME ReadInv, UNCHANGED storeVars, ReadStep
  PROVE  DataTypes' /\ GetSteps' /\ ReadSteps' /\ Ended' /\ InBounds'
<1> USE DEF storeVars, objectVars, putVars, getVars, feedVars
<1>1. rd # "idle" /\ get = "open" /\ obj # None /\ obj \in Puts /\ UNCHANGED <<get, obj>>
  <2>1. rd # "idle"
    BY DEF ReadStep, ReadOver, ReadRest, ReadEnd, ReadNext, Take, TakeInvalid, NextFails, Locks
  <2>2. UNCHANGED <<get, obj>>
    BY DEF ReadStep, ReadOver, ReadRest, ReadEnd, ReadNext, Take, TakeInvalid, NextFails, Terminate
  <2> QED BY <2>1, <2>2 DEF ReadInv, GetSteps, ReaderTypes
<1>2. GetSteps'
  BY <1>1 DEF ReadInv, GetSteps
<1>3. /\ Expected \in Seq(Chunks) /\ Expected' = Expected /\ fetched \in Seq(Chunks)
      /\ Size(Expected) \in Nat /\ Size(fetched) \in Nat /\ got \in Nat
      /\ Len(Expected) \in Nat /\ Len(fetched) \in Nat
  <2>1. Expected \in Seq(Chunks) /\ Expected' = Expected
    BY <1>1 DEF ReadInv, DataTypes, Expected
  <2>2. fetched \in Seq(Chunks) /\ got \in Nat
    BY DEF ReadInv, DataTypes
  <2> QED BY <2>1, <2>2, Sizes
<1>4. Size(fetched) <= Size(Expected) /\ Len(fetched) <= Len(Expected) /\ got <= Size(fetched)
  BY <1>1 DEF ReadInv, InBounds
<1>5. CASE ReadOver \/ ReadNext
  <2>1. UNCHANGED <<inbox, fetched, got, terminal>> /\ (rd' = "next" => terminal = "none")
    BY <1>5 DEF ReadOver, ReadNext, ReturnRead
  <2> QED BY <1>1, <1>2, <2>1, ReadKept DEF ReadInv, DataTypes, ReadSteps
<1>6. CASE ReadRest
  <2>1. /\ UNCHANGED <<inbox, fetched, terminal>> /\ rd' = "idle" /\ terminal = "none"
        /\ got' \in got + 1..Size(fetched)
    BY <1>6 DEF ReadRest, ReturnRead
  <2>2. got' \in Nat /\ got' <= Size(fetched)
    BY <1>3, <2>1
  <2>3. DataTypes' /\ ReadSteps'
    BY <2>1, <2>2 DEF ReadInv, DataTypes, ReadSteps
  <2>4. Ended'
    BY <2>1 DEF Ended
  <2>5. InBounds'
    BY <1>3, <1>4, <2>1, <2>2 DEF InBounds, Size
  <2> QED BY <1>2, <2>3, <2>4, <2>5
<1>7. ASSUME NEW err, Terminate(err), err = "eof" => ReadEnd /\ Verified
      PROVE  DataTypes' /\ GetSteps' /\ ReadSteps' /\ Ended' /\ InBounds'
  <2>1. terminal' = err /\ rd' = "idle" /\ inbox' = None /\ UNCHANGED <<fetched, got>>
    BY <1>7 DEF Terminate, ReturnRead
  <2>2. DataTypes' /\ ReadSteps'
    BY <2>1 DEF ReadInv, DataTypes, ReadSteps
  <2>3. InBounds'
    BY <1>3, <1>4, <2>1 DEF InBounds, Size
  <2>4. Ended'
    <3>1. ASSUME err = "eof" PROVE FlattenSeq(fetched) = FlattenSeq(Expected) /\ got = Size(Expected)
      <4>1. ~(got < Size(fetched)) /\ Verified
        BY <1>7, <3>1 DEF ReadEnd, Pending
      <4> QED BY <1>3, <1>4, <4>1 DEF Verified
    <3> QED BY <1>3, <2>1, <3>1 DEF Ended, Size
  <2> QED BY <1>2, <2>2, <2>3, <2>4
<1>8. CASE ReadEnd
  <2>1. Terminate(IF Verified THEN "eof" ELSE "integrity")
    BY <1>8 DEF ReadEnd
  <2>2. (IF Verified THEN "eof" ELSE "integrity") = "eof" => ReadEnd /\ Verified
    BY <1>8
  <2> QED BY <1>7, <2>1, <2>2
<1>9. CASE TakeInvalid \/ NextFails
  BY <1>7, <1>9 DEF TakeInvalid, NextFails
<1>10. CASE Take
  <2> DEFINE x == inbox.data
  <2>1. /\ rd = "next" /\ inbox # None /\ InOrder /\ Fits
        /\ fetched' = Append(fetched, x) /\ inbox' = None /\ rd' = "idle" /\ terminal' = terminal
        /\ got' \in got + (IF x = <<>> THEN 0 ELSE 1)..got + Len(x)
    BY <1>10 DEF Take, ReturnRead
  <2>2. x \in Chunks /\ Len(x) \in Nat /\ inbox.pending \in Nat /\ terminal = "none"
    BY <2>1 DEF ReadInv, DataTypes, ReadSteps, Chunks
  <2>3. Size(fetched') = Size(fetched) + Len(x) /\ Len(fetched') = Len(fetched) + 1
        /\ fetched' \in Seq(Chunks)
    BY <1>3, <2>1, <2>2, Sizes
  <2>4. Len(x) <= Size(Expected) - Size(fetched) /\ Len(fetched) + 1 <= Len(Expected)
    BY <1>3, <2>1, <2>2 DEF InOrder, Fits
  <2> HIDE DEF x
  <2>5. got' \in Nat /\ got' <= got + Len(x)
    BY <1>3, <2>1, <2>2
  <2>6. DataTypes' /\ ReadSteps' /\ Ended'
    BY <2>1, <2>2, <2>3, <2>5 DEF ReadInv, DataTypes, ReadSteps, Ended
  <2>7. InBounds'
    <3>1. /\ Size(fetched') <= Size(Expected) /\ Len(fetched') <= Len(Expected)
          /\ got' <= Size(fetched')
      BY <1>3, <1>4, <2>2, <2>3, <2>4, <2>5
    <3> QED BY <1>3, <3>1 DEF InBounds, Size
  <2> QED BY <1>2, <2>6, <2>7
<1> QED BY <1>5, <1>6, <1>8, <1>9, <1>10 DEF ReadStep

LEMMA ContentInductive == Spec => []ContentInv
<1>1. Init => ContentInv
  <2> SUFFICES ASSUME Init PROVE ContentInv
    OBVIOUS
  <2>1. StoreTypes /\ ReaderTypes
    BY InitTypes, TypesSplit
  <2>2. StoreInv
    BY DEF Init, StoreInit, StoreInv
  <2>3. DataTypes
    <3>1. <<>> \in Seq(Chunks) /\ <<>> \in Seq([seq : Nat, data : Chunks])
      OBVIOUS
    <3> QED BY <3>1 DEF Init, StoreInit, DataTypes
  <2>4. GetSteps /\ ReadSteps /\ Ended /\ InBounds
    BY DEF Init, GetSteps, ReadSteps, Ended, InBounds
  <2> QED BY <2>1, <2>2, <2>3, <2>4, ContentSplit DEF ReadInv
<1>2. ContentInv /\ [Next]_vars => ContentInv'
  <2> SUFFICES ASSUME ContentInv, [Next]_vars PROVE ContentInv'
    OBVIOUS
  <2>1. ReadInv /\ TypeOK
    BY ContentSplit DEF ContentInv, WholeContent
  <2>2. StoreTypes' /\ ReaderTypes'
    <3>1. TypeOK'
      BY <2>1, TypesStep
    <3> QED BY <3>1, TypesSplit, PTL
  <2>3. StoreInv'
    <3>1. ASSUME UNCHANGED storeVars PROVE StoreInv'
      BY <2>1, <3>1 DEF ReadInv, StoreInv, Writing, storeVars, objectVars, putVars
    <3>2. ASSUME StoreNext PROVE StoreInv'
      <4>1. DOMAIN content = Puts
        BY <2>1 DEF ReadInv, DataTypes
      <4> QED BY <2>1, <3>2, <4>1, StoreKept DEF ReadInv
    <3> QED BY <3>1, <3>2, StepSplit
  <2>4. DataTypes' /\ GetSteps' /\ ReadSteps' /\ Ended' /\ InBounds'
    <3>1. CASE StoreNext /\ UNCHANGED readerVars
      BY <2>1, <3>1, StoreStepKeeps
    <3>2. CASE ReaderStep /\ UNCHANGED storeVars
      <4>1. CASE ReadStep
        BY <2>1, <3>2, <4>1, ReadStepKeeps
      <4>2. CASE ~ReadStep
        BY <2>1, <3>2, <4>2, GetStepKeeps DEF ReaderStep
      <4> QED BY <4>1, <4>2
    <3>3. CASE UNCHANGED <<storeVars, readerVars>>
      <4>1. Ended' /\ InBounds'
        BY <2>1, <3>3, ReadKept DEF storeVars, putVars, readerVars, getVars, readVars
      <4>2. DataTypes' /\ GetSteps' /\ ReadSteps'
        BY <2>1, <3>3 DEF ReadInv, DataTypes, GetSteps, ReadSteps, storeVars, objectVars,
                          putVars, readerVars, getVars, feedVars, readVars
      <4> QED BY <4>1, <4>2
    <3> QED BY <3>1, <3>2, <3>3, StepSplit
  <2>5. ReadInv'
    BY <2>2, <2>3, <2>4 DEF ReadInv
  <2> QED BY <2>5, ContentSplit, PTL
<1> QED BY <1>1, <1>2, PTL DEF Spec

\* EOF is the end of the object Get resolved, and no more is taken in than declared.
THEOREM ReadsWhole == Spec => []WholeContent
<1>1. ContentInv => WholeContent
  BY DEF ContentInv
<1> QED BY <1>1, ContentInductive, PTL
=============================================================================
