-------------------------- MODULE KVStorage_proofs --------------------------
(* Theorems about KVStorage, for any keys, times, pushes and width of size_t. *)
EXTENDS KVStorage, FiniteSetTheorems, TLAPS

-----------------------------------------------------------------------------
(* What the list's operations do to its elements.                             *)

LEMMA AtTheBack ==
    ASSUME NEW s \in Seq(Nat), NEW x \in Nat
    PROVE  /\ Append(s, x) \in Seq(Nat) /\ Len(Append(s, x)) = Len(s) + 1
           /\ \A i \in 1..Len(s) : Append(s, x)[i] = s[i]
           /\ Append(s, x)[Len(s) + 1] = x
OBVIOUS

LEMMA AtTheFront ==
    ASSUME NEW s \in Seq(Nat), NEW x \in Nat
    PROVE  /\ <<x>> \o s \in Seq(Nat) /\ Len(<<x>> \o s) = Len(s) + 1
           /\ \A i \in 1..Len(s) : (<<x>> \o s)[i + 1] = s[i]
           /\ (<<x>> \o s)[1] = x
OBVIOUS

LEMMA WithoutFirst ==
    ASSUME NEW s \in Seq(Nat), s # <<>>
    PROVE  /\ Len(s) >= 1 /\ Head(s) = s[1]
           /\ Tail(s) \in Seq(Nat) /\ Len(Tail(s)) = Len(s) - 1
           /\ \A i \in 1..(Len(s) - 1) : Tail(s)[i] = s[i + 1]
OBVIOUS

LEMMA Part ==
    ASSUME NEW s \in Seq(Nat), NEW m \in Nat \ {0}, NEW n \in 0..Len(s)
    PROVE  /\ SubSeq(s, m, n) \in Seq(Nat)
           /\ Len(SubSeq(s, m, n)) = IF m <= n THEN n - m + 1 ELSE 0
           /\ \A i \in 1..Len(SubSeq(s, m, n)) : SubSeq(s, m, n)[i] = s[m + i - 1]
OBVIOUS

\* What an int becomes as a size_t.
LEMMA AsSize ==
    ASSUME NEW m \in Nat \ {0}, NEW i \in Int
    PROVE  /\ i % m \in Nat
           /\ i \in 0..(m - 1) => i % m = i
           /\ i < 0 /\ -m < i => i % m = i + m
OBVIOUS

-----------------------------------------------------------------------------
(* The map.                                                                   *)

\* exist answers by the expiry that was set, 0 or not.
ExistsExactly ==
    \A k \in Keys :
        said[k] # None => (said[k] = 1 <=> until[k] # None /\ seen[k] < until[k])

\* What the entries have to do with the history of the calls.
MapInv ==
    /\ DOMAIN container \subseteq Keys
    /\ \A k \in DOMAIN container : container[k] \in [expired : BOOLEAN, timeExpire : Times]
    /\ now \in Times /\ usable \in BOOLEAN
    /\ until \in [Keys -> Times \union {None}] /\ seen \in [Keys -> Times \union {None}]
    /\ said \in [Keys -> {0, 1, None}]
    /\ \A k \in Keys : said[k] # None => seen[k] # None
    /\ \A k \in Keys \ DOMAIN container : until[k] = None
    /\ \A k \in DOMAIN container :
         /\ until[k] # None => container[k].timeExpire = until[k]
         /\ container[k].expired <=>
              (until[k] # None => seen[k] # None /\ seen[k] >= until[k])
    /\ ExistsExactly

LEMMA NoneIsNoTime == None \notin Times /\ Times \subseteq Nat /\ None \notin {0, 1}
BY KVStorageAssumption DEF Times

LEMMA MapInit == Init => MapInv
<1> SUFFICES ASSUME Init PROVE MapInv
  OBVIOUS
<1>1. DOMAIN container = {}
  BY DEF Init
<1> QED
  BY <1>1 DEF Init, MapInv, ExistsExactly

\* A set and a del begin the key's history anew.
LEMMA MapTold ==
    ASSUME MapInv, NEW k \in Keys, NEW t \in Times \union {None}, NEW e \in [expired : BOOLEAN, timeExpire : Times],
           container' = Put(k, e), Told(k, t),
           t # None => ~e.expired /\ e.timeExpire = t,
           t = None => e.expired
    PROVE  MapInv'
<1>1. /\ DOMAIN container' = DOMAIN container \union {k} /\ container'[k] = e
      /\ \A x \in DOMAIN container \ {k} : container'[x] = container[x]
  BY DEF Put
<1>2. until'[k] = t /\ seen'[k] = None /\ said'[k] = None
  BY DEF Told, MapInv
<1>3. /\ until' \in [Keys -> Times \union {None}] /\ seen' \in [Keys -> Times \union {None}]
      /\ said' \in [Keys -> {0, 1, None}]
      /\ now' \in Times /\ usable' \in BOOLEAN
  BY DEF Told, MapInv, clockVars
<1>4. \A x \in Keys \ {k} : until'[x] = until[x] /\ seen'[x] = seen[x] /\ said'[x] = said[x]
  BY DEF Told, MapInv
<1>5. DOMAIN container' \subseteq Keys
      /\ \A x \in DOMAIN container' : container'[x] \in [expired : BOOLEAN, timeExpire : Times]
  BY <1>1 DEF MapInv
<1>6. /\ \A x \in Keys : said'[x] # None => seen'[x] # None
      /\ \A x \in Keys \ DOMAIN container' : until'[x] = None
  BY <1>1, <1>2, <1>4 DEF MapInv
<1>7. ASSUME NEW x \in DOMAIN container'
      PROVE  /\ until'[x] # None => container'[x].timeExpire = until'[x]
             /\ container'[x].expired <=>
                  (until'[x] # None => seen'[x] # None /\ seen'[x] >= until'[x])
  <2>1. CASE x = k
    BY <1>1, <1>2, <2>1
  <2>2. CASE x # k
    BY <1>1, <1>4, <1>5, <1>7, <2>2 DEF MapInv
  <2> QED
    BY <2>1, <2>2
<1>8. ExistsExactly'
  <2>1. ASSUME NEW x \in Keys, said'[x] # None
        PROVE  said'[x] = 1 <=> until'[x] # None /\ seen'[x] < until'[x]
    <3>1. x # k
      BY <1>2, <2>1
    <3> QED
      BY <1>4, <2>1, <3>1 DEF MapInv, ExistsExactly
  <2> QED
    BY <2>1 DEF ExistsExactly
<1> QED
  BY <1>3, <1>5, <1>6, <1>7, <1>8 DEF MapInv

\* exist reports, and marks, what the clock says now.
LEMMA MapExist ==
    ASSUME MapInv, NEW k \in Keys, Exist(k)
    PROVE  MapInv'
<1> DEFINE valid == k \in DOMAIN container /\ CheckValid(container[k])
<1> USE NoneIsNoTime
<1>1. /\ until' = until /\ now' = now /\ usable' = usable
      /\ said' = [said EXCEPT ![k] = IF valid THEN 1 ELSE 0]
      /\ seen' = [seen EXCEPT ![k] = IF @ = None \/ @ < now THEN now ELSE @]
  BY DEF Exist, Asked, clockVars
<1>2. /\ DOMAIN container' = DOMAIN container
      /\ \A x \in DOMAIN container \ {k} : container'[x] = container[x]
  BY DEF Exist
<1>3. ASSUME k \in DOMAIN container
      PROVE  /\ container'[k] \in [expired : BOOLEAN, timeExpire : Times]
             /\ container'[k].timeExpire = container[k].timeExpire
             /\ container'[k].expired <=> ~valid
  <2>1. container'[k] = [container[k] EXCEPT !.expired = @ \/ ~CheckValid(container[k])]
    BY <1>3 DEF Exist
  <2>2. container[k] \in [expired : BOOLEAN, timeExpire : Times]
    BY <1>3 DEF MapInv
  <2> QED
    BY <1>3, <2>1, <2>2 DEF CheckValid
<1>4. /\ seen'[k] \in Times /\ seen'[k] >= now /\ now \in Times
      /\ seen'[k] = now \/ (seen'[k] = seen[k] /\ seen[k] # None)
      /\ seen[k] # None => seen'[k] >= seen[k]
  <2>1. now \in Nat /\ now \in Times /\ seen[k] \in Times \union {None}
    BY DEF MapInv
  <2>2. seen'[k] = IF seen[k] = None \/ seen[k] < now THEN now ELSE seen[k]
    BY <1>1 DEF MapInv
  <2>3. CASE seen[k] = None
    BY <2>1, <2>2, <2>3
  <2>4. CASE seen[k] # None
    <3>1. seen[k] \in Nat /\ seen[k] \in Times
      BY <2>1, <2>4
    <3> QED
      BY <2>1, <2>2, <2>4, <3>1
  <2> QED
    BY <2>3, <2>4
<1>5. valid <=> until[k] # None /\ seen'[k] < until[k]
  <2>1. CASE k \notin DOMAIN container
    BY <2>1 DEF MapInv
  <2>2. CASE k \in DOMAIN container /\ until[k] = None
    BY <2>2 DEF MapInv, CheckValid
  <2>3. CASE k \in DOMAIN container /\ until[k] # None
    <3>1. /\ until[k] \in Times /\ container[k].timeExpire = until[k]
          /\ container[k].expired <=> seen[k] # None /\ seen[k] >= until[k]
          /\ seen[k] \in Times \union {None}
      BY <2>3 DEF MapInv
    <3>2. until[k] \in Nat /\ now \in Nat /\ seen'[k] \in Nat
      BY <1>4, <3>1
    <3>3. CASE container[k].expired
      <4>1. seen[k] \in Nat /\ seen[k] >= until[k] /\ seen'[k] >= seen[k]
        BY <1>4, <3>1, <3>3
      <4> QED
        BY <3>2, <3>3, <4>1 DEF CheckValid
    <3>4. CASE ~container[k].expired
      <4>1. ASSUME seen[k] # None PROVE seen[k] \in Nat /\ seen[k] < until[k]
        <5>1. seen[k] \in Nat
          BY <3>1, <4>1
        <5>2. ~(seen[k] >= until[k])
          BY <3>1, <3>4, <4>1
        <5> QED
          BY <3>2, <5>1, <5>2
      <4> QED
        BY <1>4, <2>3, <3>1, <3>2, <3>4, <4>1 DEF CheckValid
    <3> QED
      BY <3>3, <3>4
  <2> QED
    BY <2>1, <2>2, <2>3
<1>6. /\ said' \in [Keys -> {0, 1, None}] /\ seen' \in [Keys -> Times \union {None}]
      /\ said'[k] \in {0, 1} /\ (said'[k] = 1 <=> valid)
      /\ \A x \in Keys \ {k} : seen'[x] = seen[x] /\ said'[x] = said[x]
  BY <1>1, <1>4 DEF MapInv
<1>7. \A x \in DOMAIN container' : container'[x] \in [expired : BOOLEAN, timeExpire : Times]
  BY <1>2, <1>3 DEF MapInv
<1>8. ASSUME NEW x \in DOMAIN container'
      PROVE  /\ until'[x] # None => container'[x].timeExpire = until'[x]
             /\ container'[x].expired <=>
                  (until'[x] # None => seen'[x] # None /\ seen'[x] >= until'[x])
  <2>1. CASE x = k
    <3>1. until[k] \in Times \union {None}
      BY DEF MapInv
    <3>2. container'[k].expired <=> (until[k] # None => seen'[k] # None /\ seen'[k] >= until[k])
      <4>1. container'[k].expired <=> ~valid
        BY <1>2, <1>3, <1>8, <2>1
      <4>2. seen'[k] # None /\ seen'[k] \in Nat /\ (until[k] # None => until[k] \in Nat)
        BY <1>4, <3>1
      <4>3. ~valid <=> (until[k] # None => seen'[k] >= until[k])
        BY <1>5, <4>2
      <4> HIDE DEF valid
      <4> QED
        BY <4>1, <4>2, <4>3
    <3>3. until[k] # None => container'[k].timeExpire = until[k]
      BY <1>2, <1>3, <1>8, <2>1 DEF MapInv
    <3> QED
      BY <1>1, <2>1, <3>2, <3>3
  <2>2. CASE x # k
    BY <1>1, <1>2, <1>6, <1>8, <2>2 DEF MapInv
  <2> QED
    BY <2>1, <2>2
<1>9. ExistsExactly'
  <2>1. ASSUME NEW x \in Keys, said'[x] # None
        PROVE  said'[x] = 1 <=> until'[x] # None /\ seen'[x] < until'[x]
    <3>1. CASE x = k
      BY <1>1, <1>5, <1>6, <3>1
    <3>2. CASE x # k
      BY <1>1, <1>6, <2>1, <3>2 DEF MapInv, ExistsExactly
    <3> QED
      BY <3>1, <3>2
  <2> QED
    BY <2>1 DEF ExistsExactly
<1>10. /\ \A x \in Keys : said'[x] # None => seen'[x] # None
       /\ \A x \in Keys \ DOMAIN container' : until'[x] = None
  BY <1>1, <1>2, <1>4, <1>6 DEF MapInv
<1> QED
  BY <1>1, <1>2, <1>6, <1>7, <1>8, <1>9, <1>10 DEF MapInv

LEMMA MapStep == MapInv /\ [Next]_vars => MapInv'
<1> SUFFICES ASSUME MapInv, [Next]_vars PROVE MapInv'
  OBVIOUS
<1>1. ASSUME NEW t \in Times, SetClock(t) PROVE MapInv'
  BY <1>1 DEF SetClock, mapVars, MapInv, ExistsExactly
<1>2. ASSUME NEW k \in Keys, NEW t \in Times, Set(k, t) PROVE MapInv'
  <2>1. Entry(FALSE, t) \in [expired : BOOLEAN, timeExpire : Times]
        /\ ~Entry(FALSE, t).expired /\ Entry(FALSE, t).timeExpire = t
    BY DEF Entry
  <2> QED
    BY <1>2, <2>1, MapTold, NoneIsNoTime DEF Set
<1>3. ASSUME NEW k \in Keys, Del(k) PROVE MapInv'
  <2> DEFINE e == [container[k] EXCEPT !.expired = TRUE]
  <2>1. e \in [expired : BOOLEAN, timeExpire : Times] /\ e.expired
    BY <1>3 DEF Del, MapInv
  <2>2. container' = Put(k, e)
    BY <1>3 DEF Del, Put, MapInv
  <2> HIDE DEF e
  <2> QED
    BY <1>3, <2>1, <2>2, MapTold DEF Del
<1>4. ASSUME NEW k \in Keys, Exist(k) PROVE MapInv'
  BY <1>4, MapExist
<1>5. CASE UNCHANGED <<mapVars, now>> /\ usable' \in BOOLEAN
  BY <1>5 DEF mapVars, MapInv, ExistsExactly
<1>6. CASE GetKeys \/ PopNothing
  <2>1. UNCHANGED <<mapVars, now>> /\ usable' \in BOOLEAN
    BY <1>6 DEF GetKeys, PopNothing, clockVars
  <2> QED
    BY <1>5, <2>1
<1>7. CASE LPush \/ RPush \/ LPop \/ RPop \/ Clear \/ UNCHANGED vars
  <2>1. UNCHANGED <<mapVars, now>> /\ usable' = usable
    BY <1>7 DEF LPush, RPush, LPop, RPop, Clear, Pushed, Popped, clockVars, vars
  <2> QED
    BY <1>5, <2>1 DEF MapInv
<1> QED
  BY <1>1, <1>2, <1>3, <1>4, <1>6, <1>7 DEF Next

\* For any keys and times, whatever order the calls and the clock's changes come
\* in: of the keys set with an expiry, exist answers 1 for exactly those that were
\* set, not deleted since, and never asked about at or after their expiry since then.
THEOREM ExistAnswers == Spec => []ExistsByHistory
<1>1. MapInv => ExistsByHistory
  BY DEF MapInv, ExistsExactly, ExistsByHistory
<1> QED
  BY <1>1, MapInit, MapStep, PTL DEF Spec


-----------------------------------------------------------------------------
(* The list.                                                                  *)

\* The back is where the left pushes.
BackIsLeft ==
    \A i, j \in DOMAIN list : list[i] < list[j] => (i < j <=> sides[list[j]] = "left")

\* The objects in the list are distinct, in order, and apart from what was
\* popped; every one was pushed.
ListInv ==
    /\ list \in Seq(Nat) /\ sides \in Seq({"left", "right"}) /\ taken \in Seq(Nat \union {Garbage})
    /\ Len(sides) <= MaxPushes /\ cleared \in Nat
    /\ Len(list) + Len(taken) + cleared = Len(sides)
    /\ \A i \in DOMAIN list : list[i] \in 1..Len(sides)
    /\ \A i, j \in DOMAIN list : list[i] = list[j] => i = j
    /\ \A i \in DOMAIN taken : \A j \in DOMAIN list : taken[i] # list[j]
    /\ \A i \in DOMAIN taken : taken[i] # Garbage => taken[i] \in 1..Len(sides)
    /\ BackIsLeft

LEMMA ListInit == Init => ListInv
BY KVStorageAssumption DEF Init, ListInv, BackIsLeft

\* A push names its side, and adds the newest object.
LEMMA PushedSide ==
    ASSUME ListInv, NEW side \in {"left", "right"}, Pushed(side)
    PROVE  /\ sides' \in Seq({"left", "right"}) /\ Len(sides') = Len(sides) + 1
           /\ Len(sides') <= MaxPushes /\ Len(sides) \in Nat
           /\ \A i \in 1..Len(sides) : sides'[i] = sides[i]
           /\ sides'[Len(sides) + 1] = side
           /\ taken' = taken /\ cleared' = cleared
           /\ Fresh = Len(sides) + 1
BY KVStorageAssumption DEF ListInv, Pushed, Fresh

LEMMA ListLPush == ListInv /\ LPush => ListInv'
<1> SUFFICES ASSUME ListInv, LPush PROVE ListInv'
  OBVIOUS
<1> DEFINE n == Len(list)
           m == Len(sides)
<1>1. /\ sides' \in Seq({"left", "right"}) /\ Len(sides') = m + 1
      /\ Len(sides') <= MaxPushes /\ m \in Nat
      /\ \A i \in 1..m : sides'[i] = sides[i]
      /\ sides'[m + 1] = "left"
      /\ taken' = taken /\ cleared' = cleared
      /\ list' = Append(list, m + 1)
  BY PushedSide DEF LPush
<1>2. /\ list' \in Seq(Nat) /\ Len(list') = n + 1 /\ n \in Nat
      /\ \A i \in 1..n : list'[i] = list[i]
      /\ list'[n + 1] = m + 1
      /\ DOMAIN list = 1..n /\ DOMAIN list' = 1..(n + 1)
  BY <1>1, AtTheBack DEF ListInv
<1>3. \A i \in 1..n : list[i] \in 1..m
  BY <1>2 DEF ListInv
<1>4. \A i \in DOMAIN list' : list'[i] \in 1..Len(sides')
  BY <1>1, <1>2, <1>3
<1>5. \A i, j \in DOMAIN list' : list'[i] = list'[j] => i = j
  BY <1>1, <1>2, <1>3 DEF ListInv
<1>6. \A i \in DOMAIN taken' : \A j \in DOMAIN list' : taken'[i] # list'[j]
  <2>1. \A i \in DOMAIN taken : taken[i] # m + 1
    BY <1>1, KVStorageAssumption DEF ListInv
  <2> QED
    BY <1>1, <1>2, <2>1 DEF ListInv
<1>7. \A i \in DOMAIN taken' : taken'[i] # Garbage => taken'[i] \in 1..Len(sides')
  BY <1>1 DEF ListInv
<1>8. BackIsLeft'
  <2>1. ASSUME NEW i \in 1..(n + 1), NEW j \in 1..(n + 1), list'[i] < list'[j]
        PROVE  i < j <=> sides'[list'[j]] = "left"
    <3>1. CASE j = n + 1
      BY <1>1, <1>2, <1>3, <2>1, <3>1
    <3>2. CASE j \in 1..n
      <4>1. list'[j] = list[j] /\ list[j] \in 1..m
        BY <1>2, <1>3, <3>2
      <4>2. CASE i = n + 1
        <5>1. list'[i] = m + 1
          BY <1>2, <4>2
        <5> QED
          BY <1>1, <2>1, <4>1, <5>1
      <4>3. CASE i \in 1..n
        <5>1. list'[i] = list[i]
          BY <1>2, <4>3
        <5>2. i < j <=> sides[list[j]] = "left"
          BY <1>2, <2>1, <3>2, <4>1, <4>3, <5>1 DEF ListInv, BackIsLeft
        <5>3. sides'[list'[j]] = sides[list[j]]
          BY <1>1, <4>1
        <5> QED
          BY <5>2, <5>3
      <4> QED
        BY <1>2, <4>2, <4>3
    <3> QED
      BY <1>2, <3>1, <3>2
  <2> QED
    BY <1>2, <2>1 DEF BackIsLeft
<1>9. Len(list') + Len(taken') + cleared' = Len(sides')
  BY <1>1, <1>2 DEF ListInv
<1> QED
  BY <1>1, <1>2, <1>4, <1>5, <1>6, <1>7, <1>8, <1>9 DEF ListInv

LEMMA ListRPush == ListInv /\ RPush => ListInv'
<1> SUFFICES ASSUME ListInv, RPush PROVE ListInv'
  OBVIOUS
<1> DEFINE n == Len(list)
           m == Len(sides)
<1>1. /\ sides' \in Seq({"left", "right"}) /\ Len(sides') = m + 1
      /\ Len(sides') <= MaxPushes /\ m \in Nat
      /\ \A i \in 1..m : sides'[i] = sides[i]
      /\ sides'[m + 1] = "right"
      /\ taken' = taken /\ cleared' = cleared
      /\ list' = <<m + 1>> \o list
  BY PushedSide DEF RPush
<1>2. /\ list' \in Seq(Nat) /\ Len(list') = n + 1 /\ n \in Nat
      /\ \A i \in 1..n : list'[i + 1] = list[i]
      /\ list'[1] = m + 1
      /\ DOMAIN list = 1..n /\ DOMAIN list' = 1..(n + 1)
  BY <1>1, AtTheFront DEF ListInv
<1>3. \A i \in 1..n : list[i] \in 1..m
  BY <1>2 DEF ListInv
<1>4. \A i \in 2..(n + 1) : i - 1 \in 1..n /\ list'[i] = list[i - 1]
  <2>1. ASSUME NEW i \in 2..(n + 1) PROVE i - 1 \in 1..n /\ list'[i] = list[i - 1]
    <3>1. PICK h \in 1..n : h + 1 = i
      BY <1>2
    <3> QED
      BY <1>2, <3>1
  <2> QED
    BY <2>1
<1>5. \A i \in DOMAIN list' : list'[i] \in 1..Len(sides')
  BY <1>1, <1>2, <1>3, <1>4
<1>6. \A i, j \in DOMAIN list' : list'[i] = list'[j] => i = j
  <2>1. \A i \in 2..(n + 1) : list'[i] \in 1..m
    BY <1>3, <1>4
  <2>2. \A i, j \in 2..(n + 1) : list'[i] = list'[j] => i = j
    <3>1. ASSUME NEW i \in 2..(n + 1), NEW j \in 2..(n + 1), list'[i] = list'[j]
          PROVE  i = j
      <4>1. i - 1 \in 1..n /\ j - 1 \in 1..n /\ list[i - 1] = list[j - 1]
        BY <1>4, <3>1
      <4>2. i - 1 = j - 1
        BY <1>2, <4>1 DEF ListInv
      <4> QED
        BY <4>2
    <3> QED
      BY <3>1
  <2> HIDE DEF n, m
  <2>3. m \in Nat /\ n \in Nat /\ list'[1] = m + 1 /\ DOMAIN list' = 1..(n + 1)
    BY <1>1, <1>2
  <2>4. \A i \in 2..(n + 1) : list'[i] # list'[1]
    BY <2>1, <2>3
  <2>5. \A i \in 1..(n + 1) : i = 1 \/ i \in 2..(n + 1)
    BY <2>3
  <2> QED
    BY <2>2, <2>3, <2>4, <2>5
<1>7. \A i \in DOMAIN taken' : \A j \in DOMAIN list' : taken'[i] # list'[j]
  <2>1. \A i \in DOMAIN taken : taken[i] # m + 1
    BY <1>1, KVStorageAssumption DEF ListInv
  <2> QED
    BY <1>1, <1>2, <1>4, <2>1 DEF ListInv
<1>8. \A i \in DOMAIN taken' : taken'[i] # Garbage => taken'[i] \in 1..Len(sides')
  BY <1>1 DEF ListInv
<1>9. BackIsLeft'
  <2>1. ASSUME NEW i \in 1..(n + 1), NEW j \in 1..(n + 1), list'[i] < list'[j]
        PROVE  i < j <=> sides'[list'[j]] = "left"
    <3>1. i # 1
      <4> HIDE DEF n, m
      <4>1. list'[j] \in 1..(m + 1)
        BY <1>1, <1>2, <1>5
      <4>2. list'[1] = m + 1 /\ m \in Nat
        BY <1>1, <1>2
      <4>3. ~(list'[1] < list'[j])
        BY <4>1, <4>2
      <4> QED
        BY <2>1, <4>3
    <3>2. CASE j = 1
      BY <1>1, <1>2, <2>1, <3>2
    <3>3. CASE j # 1
      <4>1. i - 1 \in 1..n /\ j - 1 \in 1..n /\ list'[i] = list[i - 1] /\ list'[j] = list[j - 1]
        BY <1>2, <1>4, <3>1, <3>3
      <4>2. i - 1 < j - 1 <=> sides[list[j - 1]] = "left"
        BY <1>2, <2>1, <4>1 DEF ListInv, BackIsLeft
      <4>3. sides'[list'[j]] = sides[list[j - 1]]
        BY <1>1, <1>3, <4>1
      <4> QED
        BY <4>2, <4>3
    <3> QED
      BY <3>2, <3>3
  <2> QED
    BY <1>2, <2>1 DEF BackIsLeft
<1>10. Len(list') + Len(taken') + cleared' = Len(sides')
  <2>1. n + Len(taken) + cleared = m /\ Len(taken) \in Nat /\ cleared \in Nat
    BY DEF ListInv
  <2> QED
    BY <1>1, <1>2, <2>1
<1> QED
  BY <1>1, <1>2, <1>5, <1>6, <1>7, <1>8, <1>9, <1>10 DEF ListInv


\* A pop takes the object at place p and closes the gap by moving d places.
LEMMA ListPopped ==
    ASSUME ListInv, NEW p \in DOMAIN list, NEW d \in {0, 1}, Popped(list[p]),
           list' \in Seq(Nat), Len(list') = Len(list) - 1,
           \A i \in 1..(Len(list) - 1) : list'[i] = list[i + d] /\ i + d # p
    PROVE  ListInv'
<1> DEFINE n == Len(list)
           m == Len(sides)
           t == Len(taken)
<1>1. /\ n \in Nat \ {0} /\ m \in Nat /\ t \in Nat /\ cleared \in Nat
      /\ n + t + cleared = m
      /\ DOMAIN list = 1..n /\ DOMAIN list' = 1..(n - 1) /\ DOMAIN taken = 1..t
      /\ Len(list') = n - 1
      /\ sides' = sides /\ cleared' = cleared
  BY DEF ListInv, Popped
<1>2. PICK x \in Nat \union {Garbage} :
        /\ x = list[p] \/ x = Garbage
        /\ taken' = Append(taken, x)
  <2>1. list[p] \in Nat
    BY DEF ListInv
  <2> QED
    BY <2>1 DEF Popped
<1>3. /\ taken' \in Seq(Nat \union {Garbage}) /\ Len(taken') = t + 1
      /\ DOMAIN taken' = 1..(t + 1)
      /\ \A i \in 1..t : taken'[i] = taken[i]
      /\ taken'[t + 1] = x
  BY <1>2 DEF ListInv
<1>4. \A i \in 1..(n - 1) : i + d \in 1..n /\ list'[i] = list[i + d] /\ i + d # p
  BY <1>1
<1>5. \A i \in DOMAIN list' : list'[i] \in 1..m /\ list'[i] # x
  <2>1. ASSUME NEW i \in 1..(n - 1) PROVE list'[i] \in 1..m /\ list'[i] # x
    <3>1. list'[i] \in 1..m /\ list'[i] # list[p]
      BY <1>1, <1>4 DEF ListInv
    <3>2. list'[i] # Garbage
      BY <3>1, KVStorageAssumption
    <3> QED
      BY <1>2, <3>1, <3>2
  <2> QED
    BY <1>1, <2>1
<1>6. \A i, j \in DOMAIN list' : list'[i] = list'[j] => i = j
  <2>1. ASSUME NEW i \in 1..(n - 1), NEW j \in 1..(n - 1), list'[i] = list'[j]
        PROVE  i = j
    <3>1. i + d \in 1..n /\ j + d \in 1..n /\ list[i + d] = list[j + d]
      BY <1>4, <2>1
    <3>2. i + d = j + d
      BY <1>1, <3>1 DEF ListInv
    <3> QED
      BY <3>2
  <2> QED
    BY <1>1, <2>1
<1>7. \A i \in DOMAIN taken' : \A j \in DOMAIN list' : taken'[i] # list'[j]
  <2>1. ASSUME NEW i \in 1..(t + 1), NEW j \in 1..(n - 1) PROVE taken'[i] # list'[j]
    <3>1. CASE i = t + 1
      BY <1>1, <1>3, <1>5, <3>1
    <3>2. CASE i \in 1..t
      <4>1. taken'[i] = taken[i] /\ i \in DOMAIN taken
        BY <1>1, <1>3, <3>2
      <4>2. list'[j] = list[j + d] /\ j + d \in DOMAIN list
        BY <1>1, <1>4
      <4> QED
        BY <4>1, <4>2 DEF ListInv
    <3>3. i = t + 1 \/ i \in 1..t
      <4> HIDE DEF t
      <4> QED
        BY <1>1
    <3> QED
      BY <3>1, <3>2, <3>3
  <2> QED
    BY <1>1, <1>3, <2>1
<1>8. \A i \in DOMAIN taken' : taken'[i] # Garbage => taken'[i] \in 1..m
  <2>1. list[p] \in 1..m
    BY DEF ListInv
  <2>2. \A i \in 1..t : taken[i] # Garbage => taken[i] \in 1..m
    BY <1>1 DEF ListInv
  <2> HIDE DEF t, m
  <2>3. \A i \in 1..(t + 1) : i = t + 1 \/ i \in 1..t
    BY <1>1
  <2> QED
    BY <1>2, <1>3, <2>1, <2>2, <2>3
<1>9. BackIsLeft'
  <2>1. ASSUME NEW i \in 1..(n - 1), NEW j \in 1..(n - 1), list'[i] < list'[j]
        PROVE  i < j <=> sides'[list'[j]] = "left"
    <3>1. i + d \in 1..n /\ j + d \in 1..n /\ list[i + d] < list[j + d]
      BY <1>4, <2>1
    <3>2. i + d < j + d <=> sides[list[j + d]] = "left"
      BY <1>1, <3>1 DEF ListInv, BackIsLeft
    <3>3. i < j <=> i + d < j + d
      OBVIOUS
    <3> QED
      BY <1>1, <1>4, <3>2, <3>3
  <2> QED
    BY <1>1, <2>1 DEF BackIsLeft
<1>10. Len(list') + Len(taken') + cleared' = m
  BY <1>1, <1>3
<1> QED
  BY <1>1, <1>3, <1>5, <1>6, <1>7, <1>8, <1>9, <1>10 DEF ListInv

LEMMA ListClear == ListInv /\ Clear => ListInv'
<1> SUFFICES ASSUME ListInv, Clear PROVE ListInv'
  OBVIOUS
<1>1. /\ list' = <<>> /\ list' \in Seq(Nat) /\ Len(list') = 0 /\ DOMAIN list' = {}
      /\ cleared' = cleared + Len(list) /\ sides' = sides /\ taken' = taken
  BY DEF Clear
<1>2. cleared' \in Nat /\ Len(list') + Len(taken') + cleared' = Len(sides')
  BY <1>1 DEF ListInv
<1> QED
  BY <1>1, <1>2 DEF ListInv, BackIsLeft

LEMMA ListStep == ListInv /\ [Next]_vars => ListInv'
<1> SUFFICES ASSUME ListInv, [Next]_vars PROVE ListInv'
  OBVIOUS
<1>1. CASE LPush
  BY <1>1, ListLPush
<1>2. CASE RPush
  BY <1>2, ListRPush
<1>3. CASE LPop
  <2>1. /\ Head(list) = list[1] /\ 1 \in DOMAIN list
        /\ list' \in Seq(Nat) /\ Len(list') = Len(list) - 1
        /\ \A i \in 1..(Len(list) - 1) : list'[i] = list[i + 1]
    BY <1>3, WithoutFirst DEF LPop, ListInv
  <2>2. Popped(list[1])
    BY <1>3, <2>1 DEF LPop
  <2>3. \A i \in 1..(Len(list) - 1) : i + 1 # 1
    OBVIOUS
  <2> QED
    BY <2>1, <2>2, <2>3, ListPopped
<1>4. CASE RPop
  <2>1. Len(list) \in DOMAIN list /\ Len(list) - 1 \in 0..Len(list)
    BY <1>4, WithoutFirst DEF RPop, ListInv
  <2>2. list \in Seq(Nat) /\ list' = SubSeq(list, 1, Len(list) - 1)
    BY <1>4 DEF RPop, ListInv
  <2>3. /\ list' \in Seq(Nat) /\ Len(list') = Len(list) - 1
        /\ \A i \in 1..(Len(list) - 1) : list'[i] = list[i + 0]
    <3>1. PICK n \in Nat : n = Len(list) - 1 /\ n \in 0..Len(list)
      BY <2>1, <2>2, Len(list) - 1 \in Nat
    <3>2. /\ SubSeq(list, 1, n) \in Seq(Nat)
          /\ Len(SubSeq(list, 1, n)) = IF 1 <= n THEN n - 1 + 1 ELSE 0
          /\ \A i \in 1..Len(SubSeq(list, 1, n)) : SubSeq(list, 1, n)[i] = list[1 + i - 1]
      BY <2>2, <3>1, 1 \in Nat \ {0}, Part
    <3>3. /\ list' \in Seq(Nat) /\ Len(list') = n
          /\ \A i \in 1..n : list'[i] = list[1 + i - 1]
      <4>1. list' = SubSeq(list, 1, n)
        BY <2>2, <3>1
      <4>2. (IF 1 <= n THEN n - 1 + 1 ELSE 0) = n
        OBVIOUS
      <4>3. Len(list') = n
        BY <3>2, <4>1, <4>2
      <4> QED
        BY <3>2, <4>1, <4>3
    <3>4. \A i \in 1..n : 1 + i - 1 = i + 0
      OBVIOUS
    <3> QED
      BY <3>1, <3>3, <3>4
  <2>4. PICK p \in DOMAIN list : p = Len(list)
    BY <2>1
  <2>5. Popped(list[p])
    BY <1>4, <2>4 DEF RPop
  <2>6. \A i \in 1..(Len(list) - 1) : i + 0 # p
    BY <2>1, <2>4
  <2> QED
    BY <2>3, <2>5, <2>6, ListPopped
<1>5. CASE Clear
  BY <1>5, ListClear
<1>6. CASE UNCHANGED listVars
  BY <1>6 DEF listVars, ListInv, BackIsLeft
<1> QED
  BY <1>1, <1>2, <1>3, <1>4, <1>5, <1>6
     DEF Next, SetClock, Set, Del, Exist, Told, Asked, GetKeys, PopNothing, vars

\* The list keeps what was pushed.
LEMMA ListInductive == Spec => []ListInv
BY ListInit, ListStep, PTL DEF Spec

\* For any number of pushes, pops and clears: one side's end is behind and the
\* other's in front, and the list stays in the order of its pushes.
THEOREM OrderBySide == Spec => []ListOrder
<1>1. ListInv => ListOrder
  BY DEF ListInv, BackIsLeft, ListOrder, EndOf
<1> QED
  BY <1>1, ListInductive, PTL

\* For any number of pushes, pops and clears: every object pushed is in the list
\* once, or was popped, or was cleared.
THEOREM PushedOnce == Spec => []EachOnce
<1>1. ListInv => EachOnce
  <2> SUFFICES ASSUME ListInv PROVE EachOnce
    OBVIOUS
  <2> DEFINE n == Len(list)
  <2>1. \A i \in DOMAIN list : list[i] # Garbage
    BY KVStorageAssumption DEF ListInv
  <2>2. Objects(list) = {list[i] : i \in DOMAIN list}
    BY <2>1 DEF Objects
  <2>3. Objects(list) \intersect Objects(taken) = {}
    BY DEF Objects, ListInv
  <2>4. n \in Nat /\ DOMAIN list = 1..n
    BY DEF ListInv
  <2>5. list \in Bijection(1..n, Objects(list))
    <3>1. list \in [1..n -> Objects(list)]
      BY <2>2, <2>4 DEF ListInv
    <3> QED
      BY <2>2, <2>4, <3>1 DEF Bijection, Injection, Surjection, IsInjective, ListInv
  <2>6. Cardinality(Objects(list)) = n
    <3>1. IsFiniteSet(1..n) /\ Cardinality(1..n) = n
      <4> HIDE DEF n
      <4> QED
        BY <2>4, FS_Interval
    <3>2. ExistsBijection(1..n, Objects(list))
      BY <2>5 DEF ExistsBijection
    <3> QED
      BY <3>1, <3>2, FS_Bijection
  <2> QED
    BY <2>3, <2>6 DEF EachOnce, ListInv
<1> QED
  BY <1>1, ListInductive, PTL

\* The map, the list and the history have their types, and the list, what was
\* popped and what was cleared stay within the number of pushes.
THEOREM TypeCorrect == Spec => []TypeOK
<1>1. MapInv /\ ListInv => TypeOK
  <2> SUFFICES ASSUME MapInv, ListInv PROVE TypeOK
    OBVIOUS
  <2>1. \A i \in DOMAIN sides : sides[i] \in {"left", "right"}
    BY DEF ListInv
  <2>2. /\ Len(list) \in Nat /\ Len(taken) \in Nat /\ cleared \in Nat
        /\ Len(list) + Len(taken) + cleared <= MaxPushes
    BY DEF ListInv
  <2>3. Len(list) <= MaxPushes /\ Len(taken) <= MaxPushes /\ cleared \in 0..MaxPushes
    BY <2>2, KVStorageAssumption
  <2>4. Objects(list) \subseteq 1..Len(sides)
    BY DEF ListInv, Objects
  <2> QED
    BY <2>1, <2>3, <2>4 DEF TypeOK, MapInv
<1> QED
  BY <1>1, MapInit, MapStep, ListInductive, PTL DEF Spec


\* The places that getrange gives.
LEMMA RangePlaces ==
    ASSUME ListInv, NEW r0 \in (-MaxPushes)..(MaxPushes + 1),
           NEW r1 \in (-MaxPushes)..(MaxPushes + 1)
    PROVE  /\ Size(r0) \in Nat /\ Least(Size(r1), Len(list)) \in 0..Len(list)
           /\ \A j \in 1..Len(list) :
                0 <= r0 /\ r0 < j /\ (r1 < 0 \/ j <= r1)
                  <=> Size(r0) < j /\ j <= Least(Size(r1), Len(list))
<1> DEFINE n == Len(list)
<1>1. n \in Nat /\ n <= MaxPushes
  <2>1. /\ n \in Nat /\ Len(taken) \in Nat /\ cleared \in Nat
        /\ n + Len(taken) + cleared = Len(sides) /\ Len(sides) <= MaxPushes
    BY DEF ListInv
  <2> QED
    BY <2>1, KVStorageAssumption
<1>2. SizeT \in Nat \ {0} /\ MaxPushes \in Nat /\ SizeT > 2 * MaxPushes
  BY KVStorageAssumption
<1>3. Size(r0) \in Nat /\ Size(r1) \in Nat
  BY <1>2, AsSize DEF Size
<1>4. Least(Size(r1), n) \in 0..n
  <2> HIDE DEF n
  <2> QED
    BY <1>1, <1>3 DEF Least
<1>5. ASSUME NEW j \in 1..n
      PROVE  0 <= r0 /\ r0 < j /\ (r1 < 0 \/ j <= r1)
               <=> Size(r0) < j /\ j <= Least(Size(r1), n)
  <2>1. MaxPushes >= 1 /\ j <= MaxPushes /\ MaxPushes + 1 < SizeT
    BY <1>1, <1>2
  <2>2. /\ Size(r0) = IF r0 < 0 THEN r0 + SizeT ELSE r0
        /\ Size(r1) = IF r1 < 0 THEN r1 + SizeT ELSE r1
    <3>1. ASSUME NEW r \in (-MaxPushes)..(MaxPushes + 1)
          PROVE  r % SizeT = IF r < 0 THEN r + SizeT ELSE r
      <4>1. r \in Int /\ (r < 0 => -SizeT < r) /\ (~(r < 0) => r \in 0..(SizeT - 1))
        BY <1>2, <2>1
      <4> QED
        BY <1>2, <4>1, AsSize
    <3> QED
      BY <3>1 DEF Size
  <2>3. Size(r0) < j <=> 0 <= r0 /\ r0 < j
    BY <1>2, <2>1, <2>2
  <2>4. j <= Size(r1) <=> r1 < 0 \/ j <= r1
    BY <1>2, <2>1, <2>2
  <2>5. j <= Least(Size(r1), n) <=> j <= Size(r1)
    <3> HIDE DEF n
    <3> QED
      BY <1>1, <1>3 DEF Least
  <2> QED
    BY <2>3, <2>4, <2>5
<1> QED
  BY <1>3, <1>4, <1>5

\* For any width of size_t that holds twice the list: getrange gives the elements
\* from r0 up to r1, a negative r1 means the end and a negative r0 nothing.
THEOREM RangeSigns == Spec => []RangeIsSlice
<1>1. ListInv => RangeIsSlice
  <2> SUFFICES ASSUME ListInv, NEW r0 \in (-MaxPushes)..(MaxPushes + 1),
                      NEW r1 \in (-MaxPushes)..(MaxPushes + 1)
               PROVE  LET inside(i) == 0 <= r0 /\ r0 < i /\ (r1 < 0 \/ i <= r1)
                          got == GetRange(list, r0, r1)
                      IN  /\ Objects(got) = {list[i] : i \in {j \in DOMAIN list : inside(j)}}
                          /\ \A i, j \in DOMAIN got : i < j =>
                               \E a, b \in DOMAIN list :
                                 a < b /\ list[a] = got[i] /\ list[b] = got[j]
    BY DEF RangeIsSlice
  <2> DEFINE inside(i) == 0 <= r0 /\ r0 < i /\ (r1 < 0 \/ i <= r1)
             got == GetRange(list, r0, r1)
  <2>1. PICK first \in Nat, last \in 0..Len(list) :
          /\ first = Size(r0) /\ last = Least(Size(r1), Len(list))
          /\ \A j \in 1..Len(list) : inside(j) <=> first < j /\ j <= last
    BY RangePlaces
  <2>2. PICK n \in Nat : n = Len(list) /\ DOMAIN list = 1..n
    BY DEF ListInv
  <2>3. got = SubSeq(list, first + 1, last)
    BY <2>1 DEF GetRange
  <2> HIDE DEF got
  <2>4. /\ DOMAIN got = 1..(IF first + 1 <= last THEN last - first ELSE 0)
        /\ \A i \in DOMAIN got : got[i] = list[first + i]
    <3>1. list \in Seq(Nat) /\ first + 1 \in Nat \ {0}
      BY DEF ListInv
    <3>2. /\ got \in Seq(Nat)
          /\ Len(got) = IF first + 1 <= last THEN last - (first + 1) + 1 ELSE 0
          /\ \A i \in 1..Len(got) : got[i] = list[first + 1 + i - 1]
      <4>1. PICK m \in Nat \ {0} : m = first + 1
        BY <3>1
      <4>2. got = SubSeq(list, m, last) /\ last \in 0..Len(list)
        BY <2>3, <4>1
      <4>3. /\ got \in Seq(Nat)
            /\ Len(got) = IF m <= last THEN last - m + 1 ELSE 0
            /\ \A i \in 1..Len(got) : got[i] = list[m + i - 1]
        BY <3>1, <4>2, Part
      <4> QED
        BY <4>1, <4>3
    <3>3. DOMAIN got = 1..Len(got) /\ last - (first + 1) + 1 = last - first
      BY <2>1, <2>2, <3>2
    <3>4. \A i \in 1..Len(got) : first + 1 + i - 1 = first + i
      OBVIOUS
    <3> QED
      BY <3>2, <3>3, <3>4
  <2>5. \A i \in DOMAIN got : first + i \in 1..n /\ first < first + i /\ first + i <= last
    BY <2>1, <2>2, <2>4
  <2>6. \A j \in 1..n : first < j /\ j <= last => j - first \in DOMAIN got /\ got[j - first] = list[j]
    <3>1. ASSUME NEW j \in 1..n, first < j, j <= last
          PROVE  j - first \in DOMAIN got /\ got[j - first] = list[j]
      <4>1. j - first \in DOMAIN got /\ first + (j - first) = j
        BY <2>1, <2>2, <2>4, <3>1
      <4> QED
        BY <2>4, <4>1
    <3> QED
      BY <3>1
  <2>7. \A j \in 1..n : inside(j) <=> first < j /\ j <= last
    BY <2>1, <2>2
  <2> HIDE DEF inside
  <2>8. Objects(got) = {list[i] : i \in {j \in DOMAIN list : inside(j)}}
    <3>1. \A i \in 1..n : list[i] # Garbage
      BY <2>2, KVStorageAssumption DEF ListInv
    <3>2. \A i \in DOMAIN got : got[i] # Garbage /\ inside(first + i) /\ got[i] = list[first + i]
      BY <2>4, <2>5, <2>7, <3>1
    <3>3. ASSUME NEW x \in Objects(got)
          PROVE  x \in {list[i] : i \in {j \in DOMAIN list : inside(j)}}
      <4>1. PICK i \in DOMAIN got : got[i] = x
        BY DEF Objects
      <4> QED
        BY <2>2, <2>5, <3>2, <4>1
    <3>4. ASSUME NEW i \in DOMAIN list, inside(i)
          PROVE  list[i] \in Objects(got)
      <4>1. i - first \in DOMAIN got /\ got[i - first] = list[i]
        BY <2>2, <2>6, <2>7, <3>4
      <4> QED
        BY <3>2, <4>1 DEF Objects
    <3> QED
      BY <3>3, <3>4
  <2>9. ASSUME NEW i \in DOMAIN got, NEW j \in DOMAIN got, i < j
        PROVE  \E a, b \in DOMAIN list : a < b /\ list[a] = got[i] /\ list[b] = got[j]
    <3>1. first + i < first + j
      BY <2>4, <2>9
    <3> QED
      BY <2>2, <2>4, <2>5, <3>1
  <2> QED
    BY <2>8, <2>9 DEF inside, got
<1> QED
  BY <1>1, ListInductive, PTL

=============================================================================
