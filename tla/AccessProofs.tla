---------------------------- MODULE AccessProofs ----------------------------
(***************************************************************************)
(* Proofs about what decides on an update before its handler runs: the     *)
(* rate limiter's windows and bans, for any limits, windows and ban        *)
(* durations, and the cached permission bitmask, for any number of         *)
(* concurrent lookups and any lifetimes of its two tiers.                  *)
(***************************************************************************)
EXTENDS RoleCache, Admission, SumTheorems

-----------------------------------------------------------------------------
(***************************************************************************)
(* Windows                                                                 *)
(***************************************************************************)

\* A window of w ticks, by the age of its requests.
Ages(w) == 0..(w - 1)
Hits(w) == [Ages(w) -> Nat]

LEMMA AgesFinite ==
    ASSUME NEW w \in Nat \ {0}
    PROVE  IsFiniteSet(Ages(w)) /\ 0 \in Ages(w)
<1>1. 0 \in Int /\ w - 1 \in Int
  OBVIOUS
<1>2. IsFiniteSet(0..(w - 1))
  BY <1>1, FS_Interval
<1>3. QED
  BY <1>2 DEF Ages

LEMMA WindowSum ==
    ASSUME NEW w \in Nat \ {0}, NEW h \in Hits(w)
    PROVE  /\ SumFunction(h) = SumFunctionOnSet(h, Ages(w))
           /\ SumFunction(h) \in Nat
           /\ \A a \in Ages(w) : h[a] <= SumFunction(h)
<1>1. DOMAIN h = Ages(w) /\ \A a \in Ages(w) : h[a] \in Nat
  BY DEF Hits
<1>2. IsFiniteSet(Ages(w))
  BY AgesFinite
<1>3. SumFunction(h) = SumFunctionOnSet(h, Ages(w))
  BY <1>1 DEF SumFunction
<1>4. SumFunctionOnSet(h, Ages(w)) \in Nat
  BY <1>1, <1>2, SumType
<1>5. \A a \in Ages(w) : h[a] <= SumFunctionOnSet(h, Ages(w))
  BY <1>1, <1>2, SumMember
<1>6. QED
  BY <1>3, <1>4, <1>5

\* The start of a behaviour: nothing is recorded.
LEMMA EmptyWindow ==
    ASSUME NEW w \in Nat \ {0}
    PROVE  Empty(w) \in Hits(w) /\ SumFunction(Empty(w)) = 0
<1>1. Empty(w) \in Hits(w)
  BY DEF Empty, Hits, Ages
<1>2. \A a \in Ages(w) : Empty(w)[a] = 0
  BY DEF Empty, Ages
<1>3. IsFiniteSet(Ages(w))
  BY AgesFinite
<1>4. SumFunctionOnSet(Empty(w), Ages(w)) = 0
  BY <1>2, <1>3, SumZero
<1>5. QED
  BY <1>1, <1>4, WindowSum

\* Recording a request adds one to the window.
LEMMA NowAddsOne ==
    ASSUME NEW w \in Nat \ {0}, NEW h \in Hits(w)
    PROVE  /\ Now(h) \in Hits(w)
           /\ SumFunction(Now(h)) = SumFunction(h) + 1
           /\ Now(h)[0] = h[0] + 1
           /\ \A a \in Ages(w) \ {0} : Now(h)[a] = h[a]
<1>1. 0 \in Ages(w) /\ IsFiniteSet(Ages(w))
  BY AgesFinite
<1>2. \A a \in Ages(w) : h[a] \in Nat
  BY DEF Hits
<1>3. Now(h) \in Hits(w)
  BY <1>1, <1>2 DEF Now, Hits
<1>4. Now(h)[0] = h[0] + 1
  BY <1>1 DEF Now, Hits
<1>5. \A a \in Ages(w) \ {0} : Now(h)[a] = h[a]
  BY DEF Now, Hits
<1>6. \A a \in Ages(w) : h[a] \in Int /\ Now(h)[a] \in Int
  BY <1>2, <1>3 DEF Hits
<1>7. SumFunctionOnSet(Now(h), Ages(w)) = SumFunctionOnSet(h, Ages(w)) + Now(h)[0] - h[0]
  <2>1. PICK g : g = Now(h)
    OBVIOUS
  <2>2. SumFunctionOnSet(g, Ages(w)) = SumFunctionOnSet(h, Ages(w)) + g[0] - h[0]
    BY <2>1, <1>1, <1>5, <1>6, SumChange
  <2>3. QED
    BY <2>1, <2>2
<1>8. SumFunction(h) = SumFunctionOnSet(h, Ages(w)) /\ SumFunction(h) \in Nat
  BY WindowSum
<1>9. SumFunction(Now(h)) = SumFunctionOnSet(Now(h), Ages(w))
  BY <1>3, WindowSum
<1>10. h[0] \in Nat
  BY <1>1, <1>2
<1>11. QED
  BY <1>3, <1>4, <1>5, <1>7, <1>8, <1>9, <1>10

\* A tick moves the requests on by one age: up to any age, the older window
\* holds what the window held, less what is just leaving that age.
LEMMA OlderUpTo ==
    ASSUME NEW w \in Nat \ {0}, NEW h \in Hits(w), NEW g, g = Older(h), NEW n \in Ages(w)
    PROVE  SumFunctionOnSet(g, 0..n) + h[n] = SumFunctionOnSet(h, 0..n)
<1> DEFINE B == {k \in Ages(w) : SumFunctionOnSet(g, 0..k) + h[k] # SumFunctionOnSet(h, 0..k)}
<1>1. SUFFICES ASSUME B # {} PROVE FALSE
  BY <1>1
<1>2. PICK m \in B : \A k \in B : m <= k
  <2>1. B \subseteq Nat
    BY DEF Ages
  <2> HIDE DEF B
  <2>2. QED
    BY <1>1, <2>1, LeastNat
<1>3. m \in Nat /\ m \in Ages(w)
  BY <1>2 DEF Ages
<1>4. \A a \in Ages(w) : h[a] \in Nat /\ g[a] = IF a = 0 THEN 0 ELSE h[a - 1]
  BY DEF Hits, Older
<1>5. \A a \in 0..m : h[a] \in Int /\ g[a] \in Int
  <2>1. ASSUME NEW a \in 0..m PROVE a \in Ages(w) /\ (a = 0 \/ a - 1 \in Ages(w))
    BY <1>3 DEF Ages
  <2>2. QED
    BY <2>1, <1>4
<1>6. IsFiniteSet(0..m) /\ m \in 0..m
  <2>1. 0 \in Int /\ m \in Int
    BY <1>3
  <2>2. QED
    BY <2>1, <1>3, FS_Interval
<1>7. SumFunctionOnSet(g, 0..m) = g[m] + SumFunctionOnSet(g, (0..m) \ {m})
  BY <1>5, <1>6, SumRemove
<1>8. SumFunctionOnSet(h, 0..m) = h[m] + SumFunctionOnSet(h, (0..m) \ {m})
  BY <1>5, <1>6, SumRemove
<1>9. SumFunctionOnSet(g, 0..m) + h[m] # SumFunctionOnSet(h, 0..m)
  BY <1>2
<1>10. CASE m = 0
  <2>1. (0..m) \ {m} = {}
    BY <1>10
  <2>2. SumFunctionOnSet(g, {}) = 0 /\ SumFunctionOnSet(h, {}) = 0
    BY SumEmpty
  <2>3. g[m] = 0 /\ h[m] \in Nat
    BY <1>3, <1>4, <1>10
  <2>4. SumFunctionOnSet(g, 0..m) = 0 + 0 /\ SumFunctionOnSet(h, 0..m) = h[m] + 0
    BY <1>7, <1>8, <2>1, <2>2, <2>3
  <2>5. QED
    BY <1>9, <2>3, <2>4
<1>11. CASE m # 0
  <2>1. (0..m) \ {m} = 0..(m - 1) /\ m - 1 \in Ages(w) /\ m - 1 \notin B
    BY <1>2, <1>3, <1>11 DEF Ages
  <2>2. SumFunctionOnSet(g, 0..(m - 1)) + h[m - 1] = SumFunctionOnSet(h, 0..(m - 1))
    BY <2>1
  <2>3. g[m] = h[m - 1] /\ h[m] \in Nat /\ h[m - 1] \in Nat
    BY <1>3, <1>4, <1>11, <2>1
  <2>4. SumFunctionOnSet(g, 0..(m - 1)) \in Int
    <3>1. IsFiniteSet(0..(m - 1)) /\ \A a \in 0..(m - 1) : g[a] \in Int
      <4>1. 0 \in Int /\ m - 1 \in Int
        BY <1>3
      <4>2. IsFiniteSet(0..(m - 1))
        BY <4>1, FS_Interval
      <4>3. \A a \in 0..(m - 1) : a \in 0..m
        BY <1>3
      <4>4. QED
        BY <4>2, <4>3, <1>5
    <3>2. QED
      BY <3>1, SumType
  <2>5. /\ SumFunctionOnSet(g, 0..m) = h[m - 1] + SumFunctionOnSet(g, 0..(m - 1))
        /\ SumFunctionOnSet(h, 0..m) = h[m] + SumFunctionOnSet(h, 0..(m - 1))
    BY <1>7, <1>8, <2>1, <2>3
  <2> DEFINE sg == SumFunctionOnSet(g, 0..(m - 1))
  <2>6. SumFunctionOnSet(h, 0..m) = h[m] + (sg + h[m - 1])
    BY <2>2, <2>5
  <2> HIDE DEF sg
  <2>7. SumFunctionOnSet(g, 0..m) + h[m] = h[m] + (sg + h[m - 1])
    BY <2>3, <2>4, <2>5 DEF sg
  <2>8. QED
    BY <1>9, <2>6, <2>7
<1>12. QED
  BY <1>10, <1>11

\* So a tick never adds to a window.
LEMMA OlderAddsNothing ==
    ASSUME NEW w \in Nat \ {0}, NEW h \in Hits(w)
    PROVE  /\ Older(h) \in Hits(w)
           /\ SumFunction(Older(h)) <= SumFunction(h)
           /\ \A a \in Ages(w) : Older(h)[a] = IF a = 0 THEN 0 ELSE h[a - 1]
<1>1. \A a \in Ages(w) : a = 0 \/ a - 1 \in Ages(w)
  BY DEF Ages
<1>2. Older(h) \in Hits(w)
  BY <1>1 DEF Older, Hits
<1>3. \A a \in Ages(w) : Older(h)[a] = IF a = 0 THEN 0 ELSE h[a - 1]
  BY DEF Older, Hits
<1>4. w - 1 \in Ages(w)
  BY DEF Ages
<1> DEFINE g == Older(h)
<1>5. SumFunctionOnSet(g, 0..(w - 1)) + h[w - 1] = SumFunctionOnSet(h, 0..(w - 1))
  BY <1>4, OlderUpTo
<1>6. SumFunction(h) = SumFunctionOnSet(h, Ages(w))
  BY WindowSum
<1>7. SumFunction(g) = SumFunctionOnSet(g, Ages(w)) /\ SumFunction(g) \in Nat
  BY <1>2, WindowSum
<1>8. h[w - 1] \in Nat
  BY <1>4 DEF Hits
<1> HIDE DEF g
<1>9. SumFunction(g) <= SumFunction(h)
  BY <1>5, <1>6, <1>7, <1>8 DEF Ages
<1>10. QED
  BY <1>2, <1>3, <1>9 DEF g

-----------------------------------------------------------------------------
(***************************************************************************)
(* The rate limiter                                                        *)
(***************************************************************************)

\* A request of the window was recorded before the last ban, or after it had
\* run out.
ClearOfBan(h, b) ==
    \/ b = LongAgo
    \/ \A a \in Ages(GlobalWindow) : h[a] > 0 => b <= a \/ a + BanDuration <= b

AdmissionTypes ==
    /\ globalHits \in [Stores -> Hits(GlobalWindow)]
    /\ actionHits \in [Stores -> Hits(ActionWindow)]
    /\ banAge \in [Stores -> 0..LongAgo]
    /\ earned \in [Stores -> BOOLEAN]

\* The bounds are about what was let through, so what the stores record must
\* be that; and a new ban is earned only if no request of its window was let
\* through during the last one, which is a fact about the records' ages.
AdmissionInv ==
    /\ AdmissionTypes
    /\ redisHealthy \in BOOLEAN /\ redisAnswers \in BOOLEAN
    /\ budgetUsed = globalHits /\ actionUsed = actionHits
    /\ \A s \in Stores : /\ SumFunction(globalHits[s]) <= GlobalLimit
                         /\ SumFunction(actionHits[s]) <= ActionLimit
                         /\ ClearOfBan(globalHits[s], banAge[s])
                         /\ earned[s]

LEMMA LimitFacts ==
    /\ GlobalLimit \in Nat \ {0} /\ GlobalWindow \in Nat \ {0}
    /\ ActionLimit \in Nat \ {0} /\ ActionWindow \in Nat \ {0}
    /\ BanDuration \in Nat /\ GlobalWindow <= BanDuration
    /\ LongAgo \in Nat /\ LongAgo = BanDuration + GlobalWindow
BY AdmissionAssumption DEF LongAgo

LEMMA RecordedInTheClear ==
    ASSUME NEW h \in Hits(GlobalWindow), NEW b \in 0..LongAgo, BanDuration <= b,
           ClearOfBan(h, b)
    PROVE  ClearOfBan(Now(h), b)
<1>1. \A a \in Ages(GlobalWindow) \ {0} : Now(h)[a] = h[a]
  BY LimitFacts, NowAddsOne
<1>2. 0 + BanDuration <= b
  BY LimitFacts
<1>3. QED
  BY <1>1, <1>2 DEF ClearOfBan

LEMMA OlderInTheClear ==
    ASSUME NEW h \in Hits(GlobalWindow), NEW b \in 0..LongAgo, ClearOfBan(h, b)
    PROVE  ClearOfBan(Older(h), IF b = LongAgo THEN LongAgo ELSE b + 1)
<1>1. CASE b = LongAgo
  BY <1>1 DEF ClearOfBan
<1>2. CASE b # LongAgo
  <2>1. SUFFICES ASSUME NEW a \in Ages(GlobalWindow), Older(h)[a] > 0
                 PROVE  b + 1 <= a \/ a + BanDuration <= b + 1
    BY <1>2 DEF ClearOfBan
  <2>2. Older(h)[a] = IF a = 0 THEN 0 ELSE h[a - 1]
    BY LimitFacts, OlderAddsNothing
  <2>3. a \in Nat /\ a # 0 /\ a - 1 \in Ages(GlobalWindow) /\ h[a - 1] > 0
    BY <2>1, <2>2, LimitFacts DEF Ages
  <2>4. b <= a - 1 \/ a - 1 + BanDuration <= b
    BY <1>2, <2>3 DEF ClearOfBan
  <2>5. b \in Nat /\ BanDuration \in Nat
    BY LimitFacts
  <2>6. QED
    BY <2>3, <2>4, <2>5
<1>3. QED
  BY <1>1, <1>2

\* A window that is full once a ban has run out was filled after the ban.
LEMMA EarnedAfterBan ==
    ASSUME NEW h \in Hits(GlobalWindow), NEW b \in 0..LongAgo, BanDuration <= b,
           ClearOfBan(h, b), b # LongAgo, NEW a \in 0..(GlobalWindow - 1), h[a] > 0
    PROVE  a <= b - BanDuration
<1>1. a \in Ages(GlobalWindow) /\ a \in Nat /\ a < GlobalWindow
  BY LimitFacts DEF Ages
<1>2. b <= a \/ a + BanDuration <= b
  BY <1>1 DEF ClearOfBan
<1>3. QED
  BY <1>1, <1>2, LimitFacts

LEMMA AdmissionStarts == AdmissionInit => AdmissionInv
<1> SUFFICES ASSUME AdmissionInit PROVE AdmissionInv
  OBVIOUS
<1>1. /\ Empty(GlobalWindow) \in Hits(GlobalWindow) /\ SumFunction(Empty(GlobalWindow)) = 0
      /\ Empty(ActionWindow) \in Hits(ActionWindow) /\ SumFunction(Empty(ActionWindow)) = 0
  BY LimitFacts, EmptyWindow
<1>2. LongAgo \in 0..LongAgo
  BY LimitFacts
<1>3. AdmissionTypes
  BY <1>1, <1>2 DEF AdmissionInit, AdmissionTypes
<1>4. ASSUME NEW s \in Stores
      PROVE  /\ SumFunction(globalHits[s]) <= GlobalLimit
             /\ SumFunction(actionHits[s]) <= ActionLimit
             /\ ClearOfBan(globalHits[s], banAge[s])
             /\ earned[s]
  <2>1. globalHits[s] = Empty(GlobalWindow) /\ actionHits[s] = Empty(ActionWindow)
        /\ banAge[s] = LongAgo /\ earned[s]
    BY DEF AdmissionInit
  <2>2. 0 <= GlobalLimit /\ 0 <= ActionLimit
    BY LimitFacts
  <2>3. QED
    BY <2>1, <2>2, <1>1 DEF ClearOfBan
<1>5. QED
  BY <1>3, <1>4 DEF AdmissionInit, AdmissionInv

\* What one request does to the store it goes to.
LEMMA UpdateKeeps ==
    ASSUME AdmissionInv, NEW limited \in BOOLEAN, NEW bypass \in BOOLEAN,
           Update(limited, bypass)
    PROVE  AdmissionInv'
<1>1. PICK s : s = StoreInUse
  OBVIOUS
<1>2. s \in Stores
  BY <1>1 DEF StoreInUse, Stores
<1>3. PICK v : v = Verdict(s, limited, bypass)
  OBVIOUS
<1> DEFINE let == v \in {"allowed", "action"} /\ ~bypass
           act == v = "allowed" /\ ~bypass /\ limited
<1>4. /\ globalHits' = IF let THEN [globalHits EXCEPT ![s] = Now(@)] ELSE globalHits
      /\ budgetUsed' = IF let THEN [budgetUsed EXCEPT ![s] = Now(@)] ELSE budgetUsed
  BY <1>1, <1>3 DEF Update, Record
<1>5. /\ actionHits' = IF act THEN [actionHits EXCEPT ![s] = Now(@)] ELSE actionHits
      /\ actionUsed' = IF act THEN [actionUsed EXCEPT ![s] = Now(@)] ELSE actionUsed
  BY <1>1, <1>3 DEF Update, Record
<1>6. banAge' = IF v = "global" THEN [banAge EXCEPT ![s] = 0] ELSE banAge
  BY <1>1, <1>3 DEF Update, Record
<1>7. earned' = IF v # "global" THEN earned
                ELSE [earned EXCEPT ![s] =
                        \/ banAge[s] = LongAgo
                        \/ \A a \in 0..(GlobalWindow - 1) :
                              globalHits[s][a] > 0 => a <= banAge[s] - BanDuration]
  BY <1>1, <1>3 DEF Update
<1>8. redisHealthy' = redisHealthy /\ redisAnswers' = redisAnswers
  BY DEF Update
<1>9. /\ globalHits \in [Stores -> Hits(GlobalWindow)]
      /\ actionHits \in [Stores -> Hits(ActionWindow)]
      /\ banAge \in [Stores -> 0..LongAgo] /\ earned \in [Stores -> BOOLEAN]
      /\ budgetUsed = globalHits /\ actionUsed = actionHits
  BY DEF AdmissionInv, AdmissionTypes
<1>10. \A q \in Stores : /\ SumFunction(globalHits[q]) <= GlobalLimit
                         /\ SumFunction(actionHits[q]) <= ActionLimit
                         /\ ClearOfBan(globalHits[q], banAge[q])
                         /\ earned[q]
  BY DEF AdmissionInv
\* The verdict's conditions.
<1>11. let => BanDuration <= banAge[s] /\ ~Full(globalHits[s], GlobalLimit)
  <2>1. let => ~Banned(s) /\ ~Full(globalHits[s], GlobalLimit)
    BY <1>3 DEF Verdict
  <2>2. ~Banned(s) => BanDuration <= banAge[s]
    BY <1>2, <1>9, LimitFacts DEF Banned
  <2>3. QED
    BY <2>1, <2>2
<1>12. act => let /\ ~Full(actionHits[s], ActionLimit)
  BY <1>3 DEF Verdict
<1>13. v = "global" => BanDuration <= banAge[s]
  <2>1. v = "global" => ~Banned(s)
    BY <1>3 DEF Verdict
  <2>2. ~Banned(s) => BanDuration <= banAge[s]
    BY <1>2, <1>9, LimitFacts DEF Banned
  <2>3. QED
    BY <2>1, <2>2
<1>14. v = "global" => ~let
  OBVIOUS
<1> HIDE DEF let, act
<1>15. globalHits[s] \in Hits(GlobalWindow) /\ actionHits[s] \in Hits(ActionWindow)
       /\ banAge[s] \in 0..LongAgo
  BY <1>2, <1>9
<1>16. /\ Now(globalHits[s]) \in Hits(GlobalWindow)
       /\ SumFunction(Now(globalHits[s])) = SumFunction(globalHits[s]) + 1
       /\ SumFunction(globalHits[s]) \in Nat
  BY <1>15, LimitFacts, NowAddsOne, WindowSum
<1>17. /\ Now(actionHits[s]) \in Hits(ActionWindow)
       /\ SumFunction(Now(actionHits[s])) = SumFunction(actionHits[s]) + 1
       /\ SumFunction(actionHits[s]) \in Nat
  BY <1>15, LimitFacts, NowAddsOne, WindowSum
<1>18. AdmissionTypes'
  <2>1. globalHits' \in [Stores -> Hits(GlobalWindow)]
    BY <1>2, <1>4, <1>9, <1>16
  <2>2. actionHits' \in [Stores -> Hits(ActionWindow)]
    BY <1>2, <1>5, <1>9, <1>17
  <2>3. banAge' \in [Stores -> 0..LongAgo]
    <3>1. 0 \in 0..LongAgo
      BY LimitFacts
    <3>2. QED
      BY <1>2, <1>6, <1>9, <3>1
  <2>4. earned' \in [Stores -> BOOLEAN]
    BY <1>2, <1>7, <1>9, Zenon
  <2>5. QED
    BY <2>1, <2>2, <2>3, <2>4 DEF AdmissionTypes
<1>19. budgetUsed' = globalHits' /\ actionUsed' = actionHits'
  BY <1>4, <1>5, <1>9
<1>20. ASSUME NEW q \in Stores
       PROVE  SumFunction(globalHits'[q]) <= GlobalLimit
  <2>1. CASE let /\ q = s
    <3>1. globalHits'[q] = Now(globalHits[s])
      BY <2>1, <1>2, <1>4, <1>9
    <3>2. ~(SumFunction(globalHits[s]) >= GlobalLimit)
      BY <2>1, <1>11 DEF Full
    <3>3. QED
      BY <3>1, <3>2, <1>16, LimitFacts
  <2>2. CASE ~(let /\ q = s)
    <3>1. globalHits'[q] = globalHits[q]
      BY <2>2, <1>2, <1>4, <1>9
    <3>2. QED
      BY <3>1, <1>10
  <2>3. QED
    BY <2>1, <2>2
<1>21. ASSUME NEW q \in Stores
       PROVE  SumFunction(actionHits'[q]) <= ActionLimit
  <2>1. CASE act /\ q = s
    <3>1. actionHits'[q] = Now(actionHits[s])
      BY <2>1, <1>2, <1>5, <1>9
    <3>2. ~(SumFunction(actionHits[s]) >= ActionLimit)
      BY <2>1, <1>12 DEF Full
    <3>3. QED
      BY <3>1, <3>2, <1>17, LimitFacts
  <2>2. CASE ~(act /\ q = s)
    <3>1. actionHits'[q] = actionHits[q]
      BY <2>2, <1>2, <1>5, <1>9
    <3>2. QED
      BY <3>1, <1>10
  <2>3. QED
    BY <2>1, <2>2
<1>22. ASSUME NEW q \in Stores
       PROVE  ClearOfBan(globalHits'[q], banAge'[q])
  <2>1. CASE q = s /\ v = "global"
    <3>1. banAge'[q] = 0
      BY <2>1, <1>2, <1>6, <1>9
    <3>2. \A a \in Ages(GlobalWindow) : 0 <= a
      BY LimitFacts DEF Ages
    <3>3. QED
      BY <3>1, <3>2 DEF ClearOfBan
  <2>2. CASE q = s /\ let
    <3>1. globalHits'[q] = Now(globalHits[s]) /\ banAge'[q] = banAge[s]
      BY <2>2, <1>2, <1>4, <1>6, <1>9, <1>14
    <3>2. ClearOfBan(Now(globalHits[s]), banAge[s])
      BY <2>2, <1>2, <1>10, <1>11, <1>15, RecordedInTheClear
    <3>3. QED
      BY <3>1, <3>2
  <2>3. CASE q # s \/ (v # "global" /\ ~let)
    <3>1. globalHits'[q] = globalHits[q] /\ banAge'[q] = banAge[q]
      BY <2>3, <1>2, <1>4, <1>6, <1>9
    <3>2. QED
      BY <3>1, <1>10
  <2>4. QED
    BY <2>1, <2>2, <2>3
<1>23. ASSUME NEW q \in Stores
       PROVE  earned'[q]
  <2>1. CASE q = s /\ v = "global"
    <3>1. earned'[q] = (\/ banAge[s] = LongAgo
                        \/ \A a \in 0..(GlobalWindow - 1) :
                              globalHits[s][a] > 0 => a <= banAge[s] - BanDuration)
      BY <2>1, <1>2, <1>7, <1>9, Zenon
    <3>2. banAge[s] # LongAgo => \A a \in 0..(GlobalWindow - 1) :
                              globalHits[s][a] > 0 => a <= banAge[s] - BanDuration
      BY <2>1, <1>2, <1>10, <1>13, <1>15, EarnedAfterBan
    <3>3. QED
      BY <3>1, <3>2, Zenon
  <2>2. CASE q # s \/ v # "global"
    <3>1. earned'[q] = earned[q]
      BY <2>2, <1>2, <1>7, <1>9, Zenon
    <3>2. QED
      BY <3>1, <1>10, Zenon
  <2>3. QED
    BY <2>1, <2>2
<1>24. QED
  BY <1>8, <1>18, <1>19, <1>20, <1>21, <1>22, <1>23, Zenon DEF AdmissionInv

LEMMA TickKeepsAdmission ==
    ASSUME AdmissionInv, AdmissionTick
    PROVE  AdmissionInv'
<1>1. /\ globalHits \in [Stores -> Hits(GlobalWindow)]
      /\ actionHits \in [Stores -> Hits(ActionWindow)]
      /\ banAge \in [Stores -> 0..LongAgo] /\ earned \in [Stores -> BOOLEAN]
      /\ budgetUsed = globalHits /\ actionUsed = actionHits
  BY DEF AdmissionInv, AdmissionTypes
<1>2. ASSUME NEW s \in Stores
      PROVE  /\ globalHits'[s] = Older(globalHits[s]) /\ actionHits'[s] = Older(actionHits[s])
             /\ banAge'[s] = IF banAge[s] = LongAgo THEN LongAgo ELSE banAge[s] + 1
             /\ earned'[s] = earned[s]
  BY DEF AdmissionTick
<1>3. ASSUME NEW s \in Stores
      PROVE  /\ Older(globalHits[s]) \in Hits(GlobalWindow)
             /\ Older(actionHits[s]) \in Hits(ActionWindow)
             /\ SumFunction(Older(globalHits[s])) <= GlobalLimit
             /\ SumFunction(Older(actionHits[s])) <= ActionLimit
  <2>1. globalHits[s] \in Hits(GlobalWindow) /\ actionHits[s] \in Hits(ActionWindow)
    BY <1>1
  <2>2. /\ SumFunction(Older(globalHits[s])) <= SumFunction(globalHits[s])
        /\ SumFunction(Older(actionHits[s])) <= SumFunction(actionHits[s])
        /\ Older(globalHits[s]) \in Hits(GlobalWindow)
        /\ Older(actionHits[s]) \in Hits(ActionWindow)
    BY <2>1, LimitFacts, OlderAddsNothing
  <2>3. /\ SumFunction(globalHits[s]) \in Nat /\ SumFunction(actionHits[s]) \in Nat
        /\ SumFunction(Older(globalHits[s])) \in Nat /\ SumFunction(Older(actionHits[s])) \in Nat
    BY <2>1, <2>2, LimitFacts, WindowSum
  <2>4. SumFunction(globalHits[s]) <= GlobalLimit /\ SumFunction(actionHits[s]) <= ActionLimit
    BY DEF AdmissionInv
  <2>5. QED
    BY <2>2, <2>3, <2>4, LimitFacts
<1>4. ASSUME NEW s \in Stores
      PROVE  ClearOfBan(globalHits'[s], banAge'[s])
  <2>1. globalHits[s] \in Hits(GlobalWindow) /\ banAge[s] \in 0..LongAgo
        /\ ClearOfBan(globalHits[s], banAge[s])
    BY <1>1 DEF AdmissionInv
  <2>2. QED
    BY <2>1, <1>2, OlderInTheClear
<1>5. AdmissionTypes'
  <2>1. globalHits' \in [Stores -> Hits(GlobalWindow)]
    BY <1>3 DEF AdmissionTick
  <2>2. actionHits' \in [Stores -> Hits(ActionWindow)]
    BY <1>3 DEF AdmissionTick
  <2>3. banAge' \in [Stores -> 0..LongAgo]
    BY <1>1, LimitFacts DEF AdmissionTick
  <2>4. QED
    BY <1>1, <2>1, <2>2, <2>3 DEF AdmissionTick, AdmissionTypes
<1>6. budgetUsed' = globalHits' /\ actionUsed' = actionHits'
  BY <1>1 DEF AdmissionTick
<1>7. QED
  BY <1>2, <1>3, <1>4, <1>5, <1>6 DEF AdmissionInv, AdmissionTick

LEMMA AdmissionNextKeeps ==
    AdmissionInv /\ [AdmissionNext]_admissionVars => AdmissionInv'
<1> SUFFICES ASSUME AdmissionInv, [AdmissionNext]_admissionVars PROVE AdmissionInv'
  OBVIOUS
<1>1. ASSUME NEW limited \in BOOLEAN, NEW bypass \in BOOLEAN, Update(limited, bypass)
      PROVE  AdmissionInv'
  BY <1>1, UpdateKeeps
<1>2. CASE RedisFails
  BY <1>2 DEF RedisFails, AdmissionInv, AdmissionTypes
<1>3. CASE ManagerNotices
  BY <1>3 DEF ManagerNotices, AdmissionInv, AdmissionTypes
<1>4. CASE RedisReturns
  BY <1>4 DEF RedisReturns, AdmissionInv, AdmissionTypes
<1>5. CASE AdmissionTick
  BY <1>5, TickKeepsAdmission
<1>6. CASE UNCHANGED admissionVars
  BY <1>6 DEF admissionVars, AdmissionInv, AdmissionTypes
<1>7. QED
  BY <1>1, <1>2, <1>3, <1>4, <1>5, <1>6 DEF AdmissionNext

LEMMA AlwaysAdmissionInv == AdmissionSpec => []AdmissionInv
<1>1. AdmissionInit => AdmissionInv
  BY AdmissionStarts
<1>2. AdmissionInv /\ [AdmissionNext]_admissionVars => AdmissionInv'
  BY AdmissionNextKeeps
<1>3. QED
  BY <1>1, <1>2, PTL DEF AdmissionSpec

LEMMA AdmissionBounds == AdmissionInv => WindowBound /\ BanIsEarned /\ AdmissionTypeOK
<1> SUFFICES ASSUME AdmissionInv PROVE WindowBound /\ BanIsEarned /\ AdmissionTypeOK
  OBVIOUS
<1>1. ASSUME NEW s \in Stores
      PROVE  /\ globalHits[s] \in Hits(GlobalWindow) /\ actionHits[s] \in Hits(ActionWindow)
             /\ SumFunction(globalHits[s]) <= GlobalLimit
             /\ SumFunction(actionHits[s]) <= ActionLimit
             /\ earned[s]
  BY DEF AdmissionInv, AdmissionTypes
<1>2. ASSUME NEW s \in Stores
      PROVE  SumFunction(globalHits[s]) \in Nat /\ SumFunction(actionHits[s]) \in Nat
  BY <1>1, LimitFacts, WindowSum
<1>3. WindowBound
  <2>1. {"redis", "memory"} = Stores
    BY DEF Stores
  <2>2. /\ SumFunction(globalHits["redis"]) \in Nat /\ SumFunction(globalHits["memory"]) \in Nat
        /\ SumFunction(globalHits["redis"]) <= GlobalLimit
        /\ SumFunction(globalHits["memory"]) <= GlobalLimit
    BY <2>1, <1>1, <1>2
  <2>3. SumFunction(globalHits["redis"]) + SumFunction(globalHits["memory"]) <= 2 * GlobalLimit
    BY <2>2, LimitFacts
  <2>4. budgetUsed = globalHits /\ actionUsed = actionHits
    BY DEF AdmissionInv
  <2>5. QED
    BY <1>1, <2>3, <2>4 DEF WindowBound
<1>4. BanIsEarned
  BY <1>1 DEF BanIsEarned
<1>5. ASSUME NEW s \in Stores
      PROVE  /\ globalHits[s] \in Window(GlobalWindow, GlobalLimit)
             /\ actionHits[s] \in Window(ActionWindow, ActionLimit)
  <2>1. \A a \in Ages(GlobalWindow) : globalHits[s][a] \in 0..GlobalLimit
    <3> SUFFICES ASSUME NEW a \in Ages(GlobalWindow) PROVE globalHits[s][a] \in 0..GlobalLimit
      OBVIOUS
    <3>1. globalHits[s][a] \in Nat /\ globalHits[s][a] <= SumFunction(globalHits[s])
      BY <1>1, LimitFacts, WindowSum DEF Hits
    <3>2. QED
      BY <3>1, <1>1, <1>2, LimitFacts
  <2>2. \A a \in Ages(ActionWindow) : actionHits[s][a] \in 0..ActionLimit
    <3> SUFFICES ASSUME NEW a \in Ages(ActionWindow) PROVE actionHits[s][a] \in 0..ActionLimit
      OBVIOUS
    <3>1. actionHits[s][a] \in Nat /\ actionHits[s][a] <= SumFunction(actionHits[s])
      BY <1>1, LimitFacts, WindowSum DEF Hits
    <3>2. QED
      BY <3>1, <1>1, <1>2, LimitFacts
  <2>3. QED
    BY <1>1, <2>1, <2>2 DEF Hits, Window, Ages
<1>6. AdmissionTypeOK
  <2>1. globalHits \in [Stores -> Window(GlobalWindow, GlobalLimit)]
    BY <1>5 DEF AdmissionInv, AdmissionTypes
  <2>2. actionHits \in [Stores -> Window(ActionWindow, ActionLimit)]
    BY <1>5 DEF AdmissionInv, AdmissionTypes
  <2>3. QED
    BY <2>1, <2>2 DEF AdmissionInv, AdmissionTypes, AdmissionTypeOK
<1>7. QED
  BY <1>3, <1>4, <1>6

\* RateLimiter.check and its script: whatever the limits and the window
\* lengths, in no window does a store let more requests through than its
\* limits say, although a request that its action's limit refuses has already
\* been recorded in the global window.
THEOREM WindowsAlwaysBounded == AdmissionSpec => []WindowBound
BY AlwaysAdmissionInv, AdmissionBounds, PTL

\* A ban never comes from requests made while an earlier ban was running: the
\* window that brings it about was filled after the earlier ban had ended.
\* This needs the assumption that a ban lasts at least as long as the window.
THEOREM BansAlwaysEarned == AdmissionSpec => []BanIsEarned
BY AlwaysAdmissionInv, AdmissionBounds, PTL

-----------------------------------------------------------------------------
(***************************************************************************)
(* The role cache                                                          *)
(***************************************************************************)

\* How long ago the bitmask that a lookup, the shared tier or the process
\* holds may have been taken away: s gives that time for each bitmask.
LookupOK(x, s) ==
    /\ x \in LookupStates
    /\ x.pc \in {"read", "store"} => s[x.role] <= x.spent
    /\ x.pc = "found" => s[x.role] <= Latency + RoleTtl - 1 + x.spent
    /\ x.pc \in {"found", "store"} => x.role # NoPerms

SharedOK(x, s) ==
    /\ x \in {NoRole} \cup [role : Masks \ {NoPerms}, left : 1..RoleTtl]
    /\ x # NoRole => s[x.role] <= Latency + RoleTtl - x.left

LocalOK(x, s) ==
    /\ x \in {NoRole} \cup [role : Masks, age : 0..RoleTtl]
    /\ x # NoRole /\ x.age < RoleTtl =>
          s[x.role] <= x.age + IF x.role = NoPerms THEN Latency ELSE 2 * Latency + RoleTtl - 1

Since == [Masks -> 0..Longest]

\* The bound on the in-process tier rests on what a lookup may bring it: from
\* the database a bitmask as old as the lookup, from the shared tier one as old
\* as its entry and the lookup that stored it.
RoleInv ==
    /\ userMask \in Masks /\ sinceLeft \in Since /\ sinceLeft[userMask] = 0
    /\ {sharedUp, popDue, userDrop, sharedDrop} \subseteq BOOLEAN
    /\ lookup \in [Lookups -> LookupStates]
    /\ \A l \in Lookups : LookupOK(lookup[l], sinceLeft)
    /\ SharedOK(sharedRole, sinceLeft)
    /\ LocalOK(localRole, sinceLeft)

LEMMA RoleFacts ==
    /\ NoPerms \in Masks /\ NoRole \notin Masks
    /\ RoleTtl \in Nat /\ NegativeTtl \in Nat /\ Latency \in Nat
    /\ 0 < Latency /\ 0 < NegativeTtl /\ NegativeTtl <= RoleTtl
    /\ Longest \in Nat /\ Longest = 2 * RoleTtl + 2 * Latency - 1
BY RoleCacheAssumption DEF Longest

LEMMA LookupForm ==
    ASSUME NEW x \in LookupStates
    PROVE  /\ x.pc \in {"idle", "asked", "query", "found", "read", "store"}
           /\ x.spent \in 0..Latency
           /\ x.pc = "idle" <=> x = NoLookup
           /\ x.pc = "asked" => x = [pc |-> "asked", spent |-> x.spent]
           /\ x.pc = "query" => x.viaRedis \in BOOLEAN
                /\ x = [pc |-> "query", spent |-> x.spent, viaRedis |-> x.viaRedis]
           /\ x.pc = "found" => x.role \in Masks
                /\ x = [pc |-> "found", spent |-> x.spent, role |-> x.role]
           /\ x.pc = "read" => x.role \in Masks /\ x.viaRedis \in BOOLEAN
                /\ x = [pc |-> "read", spent |-> x.spent, viaRedis |-> x.viaRedis,
                        role |-> x.role]
           /\ x.pc = "store" => x.role \in Masks
                /\ x = [pc |-> "store", spent |-> x.spent, role |-> x.role]
<1>0. 0 \in 0..Latency
  BY RoleFacts
<1>1. CASE x = NoLookup
  BY <1>0, <1>1 DEF NoLookup
<1>2. CASE x \in [pc : {"asked"}, spent : 0..Latency]
  BY <1>2 DEF NoLookup
<1>3. CASE x \in [pc : {"query"}, spent : 0..Latency, viaRedis : BOOLEAN]
  BY <1>3 DEF NoLookup
<1>4. CASE x \in [pc : {"found"}, spent : 0..Latency, role : Masks]
  BY <1>4 DEF NoLookup
<1>5. CASE x \in [pc : {"read"}, spent : 0..Latency, viaRedis : BOOLEAN, role : Masks]
  BY <1>5 DEF NoLookup
<1>6. CASE x \in [pc : {"store"}, spent : 0..Latency, role : Masks]
  BY <1>6 DEF NoLookup
<1>7. QED
  BY <1>1, <1>2, <1>3, <1>4, <1>5, <1>6 DEF LookupStates

LEMMA IdleOK == ASSUME NEW s PROVE LookupOK(NoLookup, s)
BY DEF LookupOK, LookupStates, NoLookup

LEMMA AskedOK ==
    ASSUME NEW s, NEW n \in 0..Latency
    PROVE  LookupOK([pc |-> "asked", spent |-> n], s)
BY DEF LookupOK, LookupStates

LEMMA QueryOK ==
    ASSUME NEW s, NEW n \in 0..Latency, NEW b \in BOOLEAN
    PROVE  LookupOK([pc |-> "query", spent |-> n, viaRedis |-> b], s)
BY DEF LookupOK, LookupStates

LEMMA FoundOK ==
    ASSUME NEW s, NEW n \in 0..Latency, NEW m \in Masks, m # NoPerms,
           s[m] <= Latency + RoleTtl - 1 + n
    PROVE  LookupOK([pc |-> "found", spent |-> n, role |-> m], s)
<1>1. [pc |-> "found", spent |-> n, role |-> m] \in LookupStates
  BY DEF LookupStates
<1>2. QED
  BY <1>1 DEF LookupOK

LEMMA ReadOK ==
    ASSUME NEW s, NEW n \in 0..Latency, NEW b \in BOOLEAN, NEW m \in Masks, s[m] <= n
    PROVE  LookupOK([pc |-> "read", spent |-> n, viaRedis |-> b, role |-> m], s)
<1>1. [pc |-> "read", spent |-> n, viaRedis |-> b, role |-> m] \in LookupStates
  BY DEF LookupStates
<1>2. QED
  BY <1>1 DEF LookupOK

LEMMA StoreOK ==
    ASSUME NEW s, NEW n \in 0..Latency, NEW m \in Masks, m # NoPerms, s[m] <= n
    PROVE  LookupOK([pc |-> "store", spent |-> n, role |-> m], s)
<1>1. [pc |-> "store", spent |-> n, role |-> m] \in LookupStates
  BY DEF LookupStates
<1>2. QED
  BY <1>1 DEF LookupOK

\* A lookup moves on and everything else keeps its bounds.
LEMMA LookupMoves ==
    ASSUME RoleInv, NEW l \in Lookups, NEW y, LookupOK(y, sinceLeft),
           lookup' = [lookup EXCEPT ![l] = y], sinceLeft' = sinceLeft
    PROVE  /\ lookup' \in [Lookups -> LookupStates]
           /\ \A k \in Lookups : LookupOK(lookup'[k], sinceLeft')
<1>1. y \in LookupStates
  BY DEF LookupOK
<1>2. lookup \in [Lookups -> LookupStates] /\ \A k \in Lookups : LookupOK(lookup[k], sinceLeft)
  BY DEF RoleInv
<1>3. QED
  BY <1>1, <1>2

LEMMA StartKeeps ==
    ASSUME RoleInv, NEW l \in Lookups, LookupStart(l)
    PROVE  RoleInv'
<1> DEFINE y == IF sharedUp THEN [pc |-> "asked", spent |-> 0]
                ELSE [pc |-> "query", spent |-> 0, viaRedis |-> FALSE]
<1>1. LookupOK(y, sinceLeft)
  <2>1. 0 \in 0..Latency
    BY RoleFacts
  <2>2. QED
    BY <2>1, AskedOK, QueryOK
<1>2. lookup' = [lookup EXCEPT ![l] = y] /\ UNCHANGED <<userMask, localRole, sharedRole, sharedUp,
                                                         popDue, userDrop, sharedDrop, sinceLeft>>
  BY DEF LookupStart, dropVars
<1> HIDE DEF y
<1>3. /\ lookup' \in [Lookups -> LookupStates]
      /\ \A k \in Lookups : LookupOK(lookup'[k], sinceLeft')
  BY <1>1, <1>2, LookupMoves
<1>4. QED
  BY <1>2, <1>3 DEF RoleInv

LEMMA AskKeeps ==
    ASSUME RoleInv, NEW l \in Lookups, AskShared(l)
    PROVE  RoleInv'
<1> DEFINE y == IF sharedUp /\ sharedRole # NoRole
                THEN [pc |-> "found", spent |-> lookup[l].spent, role |-> sharedRole.role]
                ELSE [pc |-> "query", spent |-> lookup[l].spent, viaRedis |-> TRUE]
<1>1. LookupOK(y, sinceLeft)
  <2>1. lookup[l].spent \in 0..Latency
    BY LookupForm DEF RoleInv
  <2>2. CASE sharedRole # NoRole
    <3>1. sharedRole.role \in Masks /\ sharedRole.role # NoPerms /\ sharedRole.left \in 1..RoleTtl
          /\ sinceLeft[sharedRole.role] <= Latency + RoleTtl - sharedRole.left
      BY <2>2 DEF RoleInv, SharedOK
    <3>2. sinceLeft[sharedRole.role] \in Nat
      BY <3>1, RoleFacts DEF RoleInv, Since
    <3>3. sinceLeft[sharedRole.role] <= Latency + RoleTtl - 1 + lookup[l].spent
      BY <2>1, <3>1, <3>2, RoleFacts
    <3>4. QED
      BY <2>1, <3>1, <3>3, FoundOK, QueryOK
  <2>3. CASE sharedRole = NoRole
    BY <2>1, <2>3, QueryOK
  <2>4. QED
    BY <2>2, <2>3
<1>2. lookup' = [lookup EXCEPT ![l] = y] /\ UNCHANGED <<userMask, localRole, sharedRole, sharedUp,
                                                         popDue, userDrop, sharedDrop, sinceLeft>>
  BY DEF AskShared, dropVars
<1> HIDE DEF y
<1>3. /\ lookup' \in [Lookups -> LookupStates]
      /\ \A k \in Lookups : LookupOK(lookup'[k], sinceLeft')
  BY <1>1, <1>2, LookupMoves
<1>4. QED
  BY <1>2, <1>3 DEF RoleInv

LEMMA QueryKeeps ==
    ASSUME RoleInv, NEW l \in Lookups, QueryRole(l)
    PROVE  RoleInv'
<1> DEFINE x == lookup[l]
           y == [pc |-> "read", spent |-> lookup[l].spent, viaRedis |-> lookup[l].viaRedis,
                 role |-> userMask]
<1>1. LookupOK(y, sinceLeft)
  <2>1. lookup[l] \in LookupStates /\ lookup[l].pc = "query"
    BY DEF RoleInv, QueryRole
  <2>2. lookup[l].spent \in 0..Latency /\ lookup[l].viaRedis \in BOOLEAN
    BY <2>1, LookupForm
  <2>3. userMask \in Masks /\ sinceLeft[userMask] <= lookup[l].spent
    BY <2>2, RoleFacts DEF RoleInv
  <2>4. QED
    BY <2>2, <2>3, ReadOK
<1>2. lookup' = [lookup EXCEPT ![l] = y] /\ UNCHANGED <<userMask, localRole, sharedRole, sharedUp,
                                                         popDue, userDrop, sharedDrop, sinceLeft>>
  BY DEF QueryRole, dropVars, RoleInv
<1> HIDE DEF y
<1>3. /\ lookup' \in [Lookups -> LookupStates]
      /\ \A k \in Lookups : LookupOK(lookup'[k], sinceLeft')
  BY <1>1, <1>2, LookupMoves
<1>4. QED
  BY <1>2, <1>3 DEF RoleInv

LEMMA FillKeeps ==
    ASSUME RoleInv, NEW l \in Lookups, FillLocal(l)
    PROVE  RoleInv'
<1>1. PICK x : x = lookup[l]
  OBVIOUS
<1>2. x \in LookupStates /\ x.pc \in {"found", "read"} /\ LookupOK(x, sinceLeft)
  BY <1>1 DEF RoleInv, FillLocal
<1>3. x.spent \in 0..Latency /\ x.role \in Masks
  BY <1>2, LookupForm
<1> DEFINE y == IF x.pc = "read" /\ x.viaRedis /\ x.role # NoPerms
                THEN [pc |-> "store", spent |-> x.spent, role |-> x.role] ELSE NoLookup
<1>4. LookupOK(y, sinceLeft)
  <2>1. CASE x.pc = "read" /\ x.role # NoPerms
    <3>1. sinceLeft[x.role] <= x.spent
      BY <1>2, <2>1 DEF LookupOK
    <3>2. QED
      BY <1>3, <2>1, <3>1, StoreOK, IdleOK
  <2>2. CASE ~(x.pc = "read" /\ x.role # NoPerms)
    BY <2>2, IdleOK
  <2>3. QED
    BY <2>1, <2>2
<1>5. /\ lookup' = [lookup EXCEPT ![l] = y] /\ localRole' = [role |-> x.role, age |-> 0]
      /\ UNCHANGED <<userMask, sharedRole, sharedUp, popDue, userDrop, sharedDrop, sinceLeft>>
  BY <1>1 DEF FillLocal, dropVars, RoleInv
<1> HIDE DEF y
<1>6. /\ lookup' \in [Lookups -> LookupStates]
      /\ \A k \in Lookups : LookupOK(lookup'[k], sinceLeft')
  BY <1>4, <1>5, LookupMoves
<1>7. LocalOK(localRole', sinceLeft)
  <2>1. sinceLeft[x.role] \in Nat
    BY <1>3, RoleFacts DEF RoleInv, Since
  <2>2. x.role = NoPerms => sinceLeft[x.role] <= x.spent
    BY <1>2 DEF LookupOK
  <2>3. sinceLeft[x.role] <= x.spent \/ sinceLeft[x.role] <= Latency + RoleTtl - 1 + x.spent
    BY <1>2 DEF LookupOK
  <2>4. sinceLeft[x.role] <= IF x.role = NoPerms THEN Latency ELSE 2 * Latency + RoleTtl - 1
    BY <1>3, <2>1, <2>2, <2>3, RoleFacts
  <2>5. localRole' \in [role : Masks, age : 0..RoleTtl] /\ localRole'.role = x.role
        /\ localRole'.age = 0
    BY <1>3, <1>5, RoleFacts
  <2>6. QED
    BY <2>1, <2>4, <2>5, RoleFacts DEF LocalOK
<1>8. QED
  BY <1>5, <1>6, <1>7 DEF RoleInv

LEMMA StoreKeeps ==
    ASSUME RoleInv, NEW l \in Lookups, StoreShared(l)
    PROVE  RoleInv'
<1>1. PICK x : x = lookup[l]
  OBVIOUS
<1>2. x \in LookupStates /\ x.pc = "store" /\ LookupOK(x, sinceLeft)
  BY <1>1 DEF RoleInv, StoreShared
<1>3. x.spent \in 0..Latency /\ x.role \in Masks
  BY <1>2, LookupForm
<1>4. /\ lookup' = [lookup EXCEPT ![l] = NoLookup]
      /\ sharedRole' = IF sharedUp THEN [role |-> x.role, left |-> RoleTtl] ELSE sharedRole
      /\ UNCHANGED <<userMask, localRole, sharedUp, popDue, userDrop, sharedDrop, sinceLeft>>
  BY <1>1 DEF StoreShared, dropVars
<1>5. /\ lookup' \in [Lookups -> LookupStates]
      /\ \A k \in Lookups : LookupOK(lookup'[k], sinceLeft')
  BY <1>4, IdleOK, LookupMoves
<1>6. SharedOK(sharedRole', sinceLeft)
  <2>1. CASE ~sharedUp
    BY <1>4, <2>1 DEF RoleInv
  <2>2. CASE sharedUp
    <3>1. sharedRole' = [role |-> x.role, left |-> RoleTtl]
      BY <1>4, <2>2
    <3>2. x.role # NoPerms /\ sinceLeft[x.role] <= x.spent
      BY <1>2 DEF LookupOK
    <3>3. sinceLeft[x.role] \in Nat
      BY <1>3, RoleFacts DEF RoleInv, Since
    <3>4. sinceLeft[x.role] <= Latency + RoleTtl - RoleTtl
      BY <1>3, <3>2, <3>3, RoleFacts
    <3>5. RoleTtl \in 1..RoleTtl
      BY RoleFacts
    <3>6. QED
      BY <1>3, <3>1, <3>2, <3>4, <3>5 DEF SharedOK
  <2>3. QED
    BY <2>1, <2>2
<1>7. QED
  BY <1>4, <1>5, <1>6 DEF RoleInv

\* A change of role only shortens the time since a bitmask was taken away.
LEMMA CommitKeeps ==
    ASSUME RoleInv, NEW m \in Masks, CommitMask(m)
    PROVE  RoleInv'
<1>1. /\ userMask' = m /\ popDue' = TRUE
      /\ sinceLeft' = [sinceLeft EXCEPT ![userMask] = 0, ![m] = 0]
      /\ UNCHANGED <<localRole, sharedRole, sharedUp, lookup, userDrop, sharedDrop>>
  BY DEF CommitMask
<1>2. userMask \in Masks /\ sinceLeft \in Since
  BY DEF RoleInv
<1>3. sinceLeft' \in Since /\ sinceLeft'[m] = 0
  BY <1>1, <1>2, RoleFacts DEF Since
<1>4. \A q \in Masks : sinceLeft'[q] = sinceLeft[q] \/ sinceLeft'[q] = 0
  BY <1>1, <1>2 DEF Since
<1>5. \A q \in Masks : sinceLeft[q] \in Nat /\ sinceLeft'[q] \in Nat
                       /\ sinceLeft'[q] <= sinceLeft[q]
  BY <1>2, <1>3, <1>4, RoleFacts DEF Since
<1>6. ASSUME NEW l \in Lookups PROVE LookupOK(lookup'[l], sinceLeft')
  <2>1. PICK x : x = lookup[l]
    OBVIOUS
  <2>2. x \in LookupStates /\ LookupOK(x, sinceLeft)
    BY <2>1 DEF RoleInv
  <2>3. /\ x.spent \in 0..Latency
        /\ x.pc \in {"found", "read", "store"} => x.role \in Masks
    BY <2>2, LookupForm
  <2>4. LookupOK(x, sinceLeft')
    <3>1. x.pc \in {"read", "store"} => sinceLeft'[x.role] <= x.spent
      <4>1. SUFFICES ASSUME x.pc \in {"read", "store"} PROVE sinceLeft'[x.role] <= x.spent
        OBVIOUS
      <4>2. x.role \in Masks /\ sinceLeft[x.role] <= x.spent
        BY <4>1, <2>2, <2>3 DEF LookupOK
      <4>3. QED
        BY <4>2, <2>3, <1>5, RoleFacts
    <3>2. x.pc = "found" => sinceLeft'[x.role] <= Latency + RoleTtl - 1 + x.spent
      <4>1. SUFFICES ASSUME x.pc = "found"
                     PROVE  sinceLeft'[x.role] <= Latency + RoleTtl - 1 + x.spent
        OBVIOUS
      <4>2. x.role \in Masks /\ sinceLeft[x.role] <= Latency + RoleTtl - 1 + x.spent
        BY <4>1, <2>2, <2>3 DEF LookupOK
      <4>3. QED
        BY <4>2, <2>3, <1>5, RoleFacts
    <3>3. QED
      BY <3>1, <3>2, <2>2 DEF LookupOK
  <2>5. QED
    BY <1>1, <2>1, <2>4
<1>7. SharedOK(sharedRole', sinceLeft')
  <2>1. CASE sharedRole # NoRole
    <3>1. sharedRole.role \in Masks /\ sharedRole.left \in 1..RoleTtl
          /\ sinceLeft[sharedRole.role] <= Latency + RoleTtl - sharedRole.left
      BY <2>1 DEF RoleInv, SharedOK
    <3>2. sinceLeft'[sharedRole.role] <= Latency + RoleTtl - sharedRole.left
      BY <3>1, <1>5, RoleFacts
    <3>3. QED
      BY <3>2, <1>1 DEF RoleInv, SharedOK
  <2>2. CASE sharedRole = NoRole
    BY <2>2, <1>1 DEF SharedOK
  <2>3. QED
    BY <2>1, <2>2
<1>8. LocalOK(localRole', sinceLeft')
  <2>1. CASE localRole # NoRole /\ localRole.age < RoleTtl
    <3>1. localRole.role \in Masks /\ localRole.age \in 0..RoleTtl
          /\ sinceLeft[localRole.role] <= localRole.age
                + IF localRole.role = NoPerms THEN Latency ELSE 2 * Latency + RoleTtl - 1
      BY <2>1 DEF RoleInv, LocalOK
    <3>2. sinceLeft'[localRole.role] <= localRole.age
                + IF localRole.role = NoPerms THEN Latency ELSE 2 * Latency + RoleTtl - 1
      BY <3>1, <1>5, RoleFacts
    <3>3. QED
      BY <3>2, <1>1 DEF RoleInv, LocalOK
  <2>2. CASE ~(localRole # NoRole /\ localRole.age < RoleTtl)
    BY <2>2, <1>1 DEF RoleInv, LocalOK
  <2>3. QED
    BY <2>1, <2>2
<1>9. QED
  BY <1>1, <1>3, <1>6, <1>7, <1>8 DEF RoleInv

\* Dropping an entry, in either tier, and a restart.
LEMMA DropsKeep ==
    ASSUME RoleInv, PopCaches \/ RunUserDrop \/ RunSharedDrop \/ SharedUpDown \/ RestartRoles
    PROVE  RoleInv'
<1>1. userMask' = userMask /\ sinceLeft' = sinceLeft
  BY DEF PopCaches, RunUserDrop, RunSharedDrop, SharedUpDown, RestartRoles
<1>2. localRole' \in {NoRole, localRole} /\ sharedRole' \in {NoRole, sharedRole}
  BY DEF PopCaches, RunUserDrop, RunSharedDrop, SharedUpDown, RestartRoles
<1>3. lookup' = lookup \/ lookup' = [l \in Lookups |-> NoLookup]
  BY DEF PopCaches, RunUserDrop, RunSharedDrop, SharedUpDown, RestartRoles
<1>4. {sharedUp, popDue, userDrop, sharedDrop}' \subseteq BOOLEAN
  BY DEF PopCaches, RunUserDrop, RunSharedDrop, SharedUpDown, RestartRoles, RoleInv, dropVars
<1>5. LocalOK(NoRole, sinceLeft) /\ SharedOK(NoRole, sinceLeft)
  BY DEF LocalOK, SharedOK
<1>6. NoLookup \in LookupStates /\ LookupOK(NoLookup, sinceLeft)
  BY IdleOK DEF LookupStates
<1>7. QED
  BY <1>1, <1>2, <1>3, <1>4, <1>5, <1>6 DEF RoleInv

LEMMA SinceNat == ASSUME NEW s \in Since, NEW m \in Masks PROVE s[m] \in Nat
BY RoleFacts DEF Since

\* A lookup under way grows older with the bitmask it holds.
LEMMA LookupAges ==
    ASSUME NEW x \in LookupStates, x # NoLookup, x.spent < Latency,
           NEW s \in Since, NEW r \in Since, \A m \in Masks : r[m] <= s[m] + 1,
           LookupOK(x, s)
    PROVE  LookupOK([x EXCEPT !.spent = @ + 1], r)
<1>1. PICK n : n = x.spent + 1
  OBVIOUS
<1>2. /\ x.pc \in {"asked", "query", "found", "read", "store"}
      /\ x.spent \in 0..Latency /\ n \in 0..Latency
  BY <1>1, LookupForm, RoleFacts
<1>3. PICK y : y = [x EXCEPT !.spent = @ + 1]
  OBVIOUS
<1>4. \A m \in Masks : r[m] \in Nat /\ s[m] \in Nat
  BY SinceNat
<1>5. CASE x.pc = "asked"
  <2>1. y = [pc |-> "asked", spent |-> n]
    BY <1>1, <1>3, <1>5, LookupForm
  <2>2. LookupOK([pc |-> "asked", spent |-> n], r)
    BY <1>2, AskedOK
  <2>3. QED
    BY <1>3, <2>1, <2>2
<1>6. CASE x.pc = "query"
  <2>1. x.viaRedis \in BOOLEAN
        /\ x = [pc |-> "query", spent |-> x.spent, viaRedis |-> x.viaRedis]
    BY <1>6, LookupForm
  <2>2. y = [pc |-> "query", spent |-> n, viaRedis |-> x.viaRedis]
    BY <1>1, <1>3, <2>1
  <2>3. QED
    BY <1>2, <1>3, <2>1, <2>2, QueryOK
<1>7. CASE x.pc = "found"
  <2>1. x.role \in Masks /\ x = [pc |-> "found", spent |-> x.spent, role |-> x.role]
    BY <1>7, LookupForm
  <2>2. y = [pc |-> "found", spent |-> n, role |-> x.role]
    BY <1>1, <1>3, <2>1
  <2>3. x.role # NoPerms /\ s[x.role] <= Latency + RoleTtl - 1 + x.spent
    BY <1>7 DEF LookupOK
  <2>4. r[x.role] <= Latency + RoleTtl - 1 + n
    BY <1>1, <1>2, <1>4, <2>1, <2>3, RoleFacts
  <2>5. QED
    BY <1>2, <1>3, <2>1, <2>2, <2>3, <2>4, FoundOK
<1>8. CASE x.pc = "read"
  <2>1. x.role \in Masks /\ x.viaRedis \in BOOLEAN
        /\ x = [pc |-> "read", spent |-> x.spent, viaRedis |-> x.viaRedis, role |-> x.role]
    BY <1>8, LookupForm
  <2>2. y = [pc |-> "read", spent |-> n, viaRedis |-> x.viaRedis, role |-> x.role]
    BY <1>1, <1>3, <2>1
  <2>3. s[x.role] <= x.spent
    BY <1>8 DEF LookupOK
  <2>4. r[x.role] <= n
    BY <1>1, <1>2, <1>4, <2>1, <2>3, RoleFacts
  <2>5. QED
    BY <1>2, <1>3, <2>1, <2>2, <2>4, ReadOK
<1>9. CASE x.pc = "store"
  <2>1. x.role \in Masks /\ x = [pc |-> "store", spent |-> x.spent, role |-> x.role]
    BY <1>9, LookupForm
  <2>2. y = [pc |-> "store", spent |-> n, role |-> x.role]
    BY <1>1, <1>3, <2>1
  <2>3. x.role # NoPerms /\ s[x.role] <= x.spent
    BY <1>9 DEF LookupOK
  <2>4. r[x.role] <= n
    BY <1>1, <1>2, <1>4, <2>1, <2>3, RoleFacts
  <2>5. QED
    BY <1>2, <1>3, <2>1, <2>2, <2>3, <2>4, StoreOK
<1>10. QED
  BY <1>2, <1>5, <1>6, <1>7, <1>8, <1>9

LEMMA RoleTickKeeps ==
    ASSUME RoleInv, RoleTick
    PROVE  RoleInv'
<1>1. /\ userMask' = userMask /\ sharedUp' = sharedUp
      /\ popDue' = popDue /\ userDrop' = userDrop /\ sharedDrop' = sharedDrop
  BY DEF RoleTick, dropVars
<1>2. sinceLeft' \in Since /\ sinceLeft'[userMask] = 0
      /\ \A m \in Masks : sinceLeft'[m] <= sinceLeft[m] + 1
  <2>1. userMask \in Masks /\ sinceLeft \in Since /\ sinceLeft[userMask] = 0
    BY DEF RoleInv
  <2>2. sinceLeft' = [m \in Masks |-> IF m = userMask \/ sinceLeft[m] = Longest
                                      THEN sinceLeft[m] ELSE sinceLeft[m] + 1]
    BY DEF RoleTick
  <2>3. QED
    BY <2>1, <2>2, RoleFacts DEF Since
<1>3. ASSUME NEW l \in Lookups
      PROVE  lookup'[l] \in LookupStates /\ LookupOK(lookup'[l], sinceLeft')
  <2>1. lookup'[l] = IF lookup[l] = NoLookup THEN NoLookup
                     ELSE [lookup[l] EXCEPT !.spent = @ + 1]
    BY DEF RoleTick
  <2>2. lookup[l] = NoLookup \/ lookup[l].spent < Latency
    BY DEF RoleTick
  <2>3. lookup[l] \in LookupStates /\ LookupOK(lookup[l], sinceLeft) /\ sinceLeft \in Since
    BY DEF RoleInv
  <2>4. LookupOK(lookup'[l], sinceLeft')
    BY <1>2, <2>1, <2>2, <2>3, IdleOK, LookupAges
  <2>5. QED
    BY <2>4 DEF LookupOK
<1>4. lookup' \in [Lookups -> LookupStates]
  <2>1. lookup' = [l \in Lookups |-> IF lookup[l] = NoLookup THEN NoLookup
                                     ELSE [lookup[l] EXCEPT !.spent = @ + 1]]
    BY DEF RoleTick
  <2> DEFINE g(l) == IF lookup[l] = NoLookup THEN NoLookup
                     ELSE [lookup[l] EXCEPT !.spent = @ + 1]
  <2>2. \A l \in Lookups : g(l) \in LookupStates
    BY <1>3, <2>1
  <2>3. lookup' = [l \in Lookups |-> g(l)]
    BY <2>1
  <2> HIDE DEF g
  <2>4. QED
    BY <2>2, <2>3
<1>5. \A m \in Masks : sinceLeft[m] \in Nat /\ sinceLeft'[m] \in Nat
                       /\ sinceLeft'[m] <= sinceLeft[m] + 1
  BY <1>2, RoleFacts DEF RoleInv, Since
<1>6. SharedOK(sharedRole', sinceLeft')
  <2>1. sharedRole' = IF sharedRole = NoRole \/ sharedRole.left = 1 THEN NoRole
                      ELSE [sharedRole EXCEPT !.left = @ - 1]
    BY DEF RoleTick
  <2>2. CASE sharedRole = NoRole \/ sharedRole.left = 1
    BY <2>1, <2>2 DEF SharedOK
  <2>3. CASE sharedRole # NoRole /\ sharedRole.left # 1
    <3>1. sharedRole \in [role : Masks \ {NoPerms}, left : 1..RoleTtl]
          /\ sinceLeft[sharedRole.role] <= Latency + RoleTtl - sharedRole.left
      BY <2>3 DEF RoleInv, SharedOK
    <3>2. PICK y : y = [sharedRole EXCEPT !.left = @ - 1]
      OBVIOUS
    <3>3. y \in [role : Masks \ {NoPerms}, left : 1..RoleTtl]
          /\ y.role = sharedRole.role /\ y.left = sharedRole.left - 1
      BY <2>3, <3>1, <3>2, RoleFacts
    <3>4. sinceLeft'[y.role] <= Latency + RoleTtl - y.left
      BY <3>1, <3>3, <1>5, RoleFacts
    <3>5. SharedOK(y, sinceLeft')
      BY <3>3, <3>4 DEF SharedOK
    <3>6. QED
      BY <2>1, <2>3, <3>2, <3>5
  <2>4. QED
    BY <2>2, <2>3
<1>7. LocalOK(localRole', sinceLeft')
  <2>1. localRole' = IF localRole = NoRole \/ localRole.age = RoleTtl THEN localRole
                     ELSE [localRole EXCEPT !.age = @ + 1]
    BY DEF RoleTick
  <2>2. CASE localRole = NoRole \/ localRole.age = RoleTtl
    BY <2>1, <2>2, RoleFacts DEF LocalOK, RoleInv
  <2>3. CASE localRole # NoRole /\ localRole.age # RoleTtl
    <3>1. localRole \in [role : Masks, age : 0..RoleTtl]
      BY <2>3 DEF RoleInv, LocalOK
    <3>2. localRole.age \in Nat /\ localRole.age < RoleTtl /\ localRole.role \in Masks
      BY <2>3, <3>1, RoleFacts
    <3>3. sinceLeft[localRole.role] <= localRole.age
                + IF localRole.role = NoPerms THEN Latency ELSE 2 * Latency + RoleTtl - 1
      BY <2>3, <3>2 DEF RoleInv, LocalOK
    <3>4. PICK y : y = [localRole EXCEPT !.age = @ + 1]
      OBVIOUS
    <3>5. y \in [role : Masks, age : 0..RoleTtl]
          /\ y.role = localRole.role /\ y.age = localRole.age + 1
      BY <3>1, <3>2, <3>4, RoleFacts
    <3>6. sinceLeft'[y.role] <= y.age + IF y.role = NoPerms THEN Latency ELSE 2 * Latency + RoleTtl - 1
      BY <3>2, <3>3, <3>5, <1>5, RoleFacts
    <3>7. LocalOK(y, sinceLeft')
      BY <3>5, <3>6 DEF LocalOK
    <3>8. QED
      BY <2>1, <2>3, <3>4, <3>7
  <2>4. QED
    BY <2>2, <2>3
<1>8. QED
  BY <1>1, <1>2, <1>3, <1>4, <1>6, <1>7 DEF RoleInv

LEMMA RoleStarts == RoleInit => RoleInv
<1> SUFFICES ASSUME RoleInit PROVE RoleInv
  OBVIOUS
<1>1. sinceLeft \in Since /\ sinceLeft[userMask] = 0 /\ userMask \in Masks
  BY RoleFacts DEF RoleInit, Since
<1>2. NoLookup \in LookupStates /\ LookupOK(NoLookup, sinceLeft)
  BY IdleOK DEF LookupStates
<1>3. LocalOK(NoRole, sinceLeft) /\ SharedOK(NoRole, sinceLeft)
  BY DEF LocalOK, SharedOK
<1>4. lookup \in [Lookups -> LookupStates] /\ \A l \in Lookups : LookupOK(lookup[l], sinceLeft)
  BY <1>2 DEF RoleInit
<1>5. SharedOK(sharedRole, sinceLeft) /\ LocalOK(localRole, sinceLeft)
  BY <1>3 DEF RoleInit
<1>6. {sharedUp, popDue, userDrop, sharedDrop} \subseteq BOOLEAN
  BY DEF RoleInit
<1>7. QED
  BY <1>1, <1>4, <1>5, <1>6 DEF RoleInv

LEMMA RoleNextKeeps == RoleInv /\ [RoleNext]_roleVars => RoleInv'
<1> SUFFICES ASSUME RoleInv, [RoleNext]_roleVars PROVE RoleInv'
  OBVIOUS
<1>1. ASSUME NEW l \in Lookups, LookupStart(l) \/ AskShared(l) \/ QueryRole(l) \/ FillLocal(l)
                                  \/ StoreShared(l)
      PROVE  RoleInv'
  BY <1>1, StartKeeps, AskKeeps, QueryKeeps, FillKeeps, StoreKeeps
<1>2. ASSUME NEW m \in Masks, CommitMask(m) PROVE RoleInv'
  BY <1>2, CommitKeeps
<1>3. CASE PopCaches \/ RunUserDrop \/ RunSharedDrop \/ SharedUpDown \/ RestartRoles
  BY <1>3, DropsKeep
<1>4. CASE RoleTick
  BY <1>4, RoleTickKeeps
<1>5. CASE UNCHANGED roleVars
  BY <1>5 DEF roleVars, RoleInv
<1>6. QED
  BY <1>1, <1>2, <1>3, <1>4, <1>5 DEF RoleNext

LEMMA AlwaysRoleInv == RoleSpec => []RoleInv
<1>1. RoleInit => RoleInv
  BY RoleStarts
<1>2. RoleInv /\ [RoleNext]_roleVars => RoleInv'
  BY RoleNextKeeps
<1>3. QED
  BY <1>1, <1>2, PTL DEF RoleSpec

LEMMA RoleBounds == RoleInv => StaleRoleExpires /\ RoleTypeOK
<1> SUFFICES ASSUME RoleInv PROVE StaleRoleExpires /\ RoleTypeOK
  OBVIOUS
<1>1. StaleRoleExpires
  <2>1. SUFFICES ASSUME Usable
                 PROVE  sinceLeft[localRole.role] < IF localRole.role = NoPerms
                                                    THEN NegativeTtl + Latency ELSE Longest
    BY DEF StaleRoleExpires
  <2>2. localRole # NoRole /\ localRole.role \in Masks /\ localRole.age \in 0..RoleTtl
    BY <2>1 DEF RoleInv, LocalOK, Usable
  <2>3. localRole.age < IF localRole.role = NoPerms THEN NegativeTtl ELSE RoleTtl
    BY <2>1 DEF Usable, LocalTtl
  <2>4. localRole.age < RoleTtl
    BY <2>2, <2>3, RoleFacts
  <2>5. sinceLeft[localRole.role] <= localRole.age
                + IF localRole.role = NoPerms THEN Latency ELSE 2 * Latency + RoleTtl - 1
    BY <2>2, <2>4 DEF RoleInv, LocalOK
  <2>6. sinceLeft[localRole.role] \in Nat
    BY <2>2, RoleFacts DEF RoleInv, Since
  <2>7. QED
    BY <2>2, <2>3, <2>5, <2>6, RoleFacts
<1>2. RoleTypeOK
  BY DEF RoleInv, RoleTypeOK, LocalOK, SharedOK, Since
<1>3. QED
  BY <1>1, <1>2

\* resolve_role_cached and the invalidations: a bitmask that was taken away is
\* believed by the process for less than two lifetimes of the cache and the
\* time of two lookups, and a remembered 0 for its own short lifetime and one
\* lookup, for any lifetimes, any number of concurrent lookups and changes,
\* and although every Redis delete may wait for an outage of any length.
THEOREM StaleRolesAlwaysExpire == RoleSpec => []StaleRoleExpires
BY AlwaysRoleInv, RoleBounds, PTL
=============================================================================
