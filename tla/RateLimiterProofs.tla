------------------------- MODULE RateLimiterProofs -------------------------
(***************************************************************************)
(* Theorems about RateLimiter, for all keys, numbers of requests, stages   *)
(* and bounds of the clocks.                                               *)
(*                                                                         *)
(* The count in memory keeps no history; Book relates it to the history of *)
(* a key: the counted passes are its last, the window began with the first *)
(* of them, and the pass n bursts earlier lies n whole windows before it,  *)
(* for every n.                                                            *)
(* For Redis it is enough that no score lies in the future and that what a *)
(* request has left in the set, or others have added since, is not older   *)
(* than its window or the slowest request: what it counts are distinct     *)
(* seconds of that span.                                                   *)
(***************************************************************************)
EXTENDS RateLimiter, FiniteSetTheorems, TLAPS

\* The history lg of a key whose counter is c, at the moment now.
Ordered(lg, now) ==
    /\ \A i \in 1..Len(lg) : lg[i] <= now
    /\ \A i, j \in 1..Len(lg) : i <= j => lg[i] <= lg[j]

\* Products that the proofs treat as numbers (Multiples).
Bursts(n) == n * MaxBurst
Windows(n) == n * MinWindow

Spread(lg) ==
    \A n \in Nat \ {0} : \A i \in 1..Len(lg) :
        i + Bursts(n + 1) <= Len(lg) =>
            lg[i + Bursts(n + 1)] > lg[i] + Windows(n)

\* The pass at which a counter that has counted m of lg began.
First(lg, m) == Len(lg) - m + 1

\* Each n bursts before the pass j, which is at the moment t, n windows lie.
Apart(lg, j, t) ==
    \A n \in Nat \ {0} :
        j > Bursts(n) => lg[j - Bursts(n)] + Windows(n) < t

Counts(c, lg, now) ==
    /\ c.window <= now
    /\ c.count <= Len(lg)
    /\ lg[First(lg, c.count)] = c.window
    /\ Apart(lg, First(lg, c.count), c.window)

\* The pass one burst before the next one lies more than a window ago, and so on.
Rested(lg, now) == Apart(lg, Len(lg) + 1, now)

Book(c, lg, now) ==
    /\ lg \in Seq(Nat)
    /\ Ordered(lg, now)
    /\ Spread(lg)
    /\ c # None => Counts(c, lg, now)
    /\ c = None => Rested(lg, now)

NoFuture == \A k \in Key : \A s \in zset[k] : s <= unix

\* What RefusedOnlyIfSlow says of one request, when the slowest took d.
RefusedLate(r, d) ==
    r.reply = "redis_full" =>
        Stages[r.stage].burst <=
            (IF Stages[r.stage].seconds > d THEN Stages[r.stage].seconds ELSE d + 1) + d

\* A request at the second u: no reply while it runs.
Good(r, u, d) ==
    /\ r.now <= u
    /\ r.pc # "idle" => r.reply = "none"
    /\ RefusedLate(r, d)

\* The scores Z that a request about to count finds.
Fresh(r, Z, d) ==
    r.pc = "count" =>
        \A s \in Z : s > r.now - Stages[r.stage].seconds \/ s >= r.now - d

AllGood(rs, zs, u, d) ==
    \A h \in Handler : Good(rs[h], u, d) /\ Fresh(rs[h], zs[rs[h].key], d)

Inv ==
    /\ TypeOK
    /\ \A k \in Key : Book(local[k], log[k], clock)
    /\ NoFuture
    /\ AllGood(req, zset, unix, slow)

-----------------------------------------------------------------------------
(* The count in memory *)

\* n bursts and n windows, as sums.
LEMMA Multiples ==
    ASSUME NEW n \in Nat \ {0}
    PROVE  /\ MaxBurst \in Nat \ {0} /\ MinWindow \in Nat
           /\ Bursts(n) \in Nat \ {0} /\ Windows(n) \in Nat
           /\ Bursts(n + 1) \in Nat \ {0} /\ Windows(n + 1) \in Nat
           /\ Bursts(n + 1) = Bursts(n) + MaxBurst
           /\ Windows(n + 1) = Windows(n) + MinWindow
           /\ n = 1 => Bursts(n) = MaxBurst /\ Windows(n) = MinWindow
           /\ n # 1 => /\ n - 1 \in Nat \ {0}
                       /\ Bursts(n - 1) = Bursts(n) - MaxBurst
                       /\ Windows(n - 1) = Windows(n) - MinWindow
<1>1. MaxBurst \in Nat \ {0} /\ MinWindow \in Nat
  BY StagesAssumption
<1>2. Bursts(n) \in Nat \ {0} /\ Windows(n) \in Nat
  BY <1>1 DEF Bursts, Windows
<1>3. Bursts(n + 1) = Bursts(n) + MaxBurst /\ Windows(n + 1) = Windows(n) + MinWindow
  BY <1>1 DEF Bursts, Windows
<1>4. Bursts(n + 1) \in Nat \ {0} /\ Windows(n + 1) \in Nat
  BY <1>1, <1>2, <1>3
<1>5. n = 1 => Bursts(n) = MaxBurst /\ Windows(n) = MinWindow
  BY <1>1 DEF Bursts, Windows
<1>6. n # 1 => /\ n - 1 \in Nat \ {0}
               /\ Bursts(n - 1) = Bursts(n) - MaxBurst
               /\ Windows(n - 1) = Windows(n) - MinWindow
  BY <1>1 DEF Bursts, Windows
<1>. QED
  BY <1>1, <1>2, <1>3, <1>4, <1>5, <1>6

LEMMA BookLater ==
    ASSUME NEW c \in Counter \cup {None}, NEW lg, NEW now \in Nat,
           Book(c, lg, now)
    PROVE  Book(c, lg, now + 1)
<1>1. /\ Ordered(lg, now + 1) /\ lg \in Seq(Nat) /\ Len(lg) \in Nat
      /\ \A i \in 1..Len(lg) : lg[i] \in Nat
  BY DEF Book, Ordered
<1>2. ASSUME c # None PROVE Counts(c, lg, now + 1)
  BY <1>2, StagesAssumption DEF Book, Counts, Counter
<1>3. ASSUME Rested(lg, now) PROVE Rested(lg, now + 1)
  <2> DEFINE j == Len(lg) + 1
  <2>1. j \in Nat /\ Apart(lg, j, now) /\ \A i \in 1..(j - 1) : lg[i] \in Nat
    BY <1>1, <1>3 DEF Rested
  <2> HIDE DEF j
  <2>2. ASSUME NEW n \in Nat \ {0}, j > Bursts(n)
        PROVE  lg[j - Bursts(n)] + Windows(n) < now + 1
    <3>1. Bursts(n) \in Nat \ {0} /\ Windows(n) \in Nat
      BY Multiples, Zenon
    <3>2. j - Bursts(n) \in 1..(j - 1)
      BY <2>1, <2>2, <3>1
    <3>3. lg[j - Bursts(n)] + Windows(n) < now
      BY <2>1, <2>2 DEF Apart
    <3>. QED
      BY <2>1, <3>1, <3>2, <3>3
  <2>3. Apart(lg, j, now + 1)
    BY <2>2 DEF Apart
  <2>. QED
    BY <2>3 DEF Rested, j
<1>. QED
  BY <1>1, <1>2, <1>3 DEF Book

\* What lies w before t does so with all that comes before it.
LEMMA Before ==
    ASSUME NEW lg \in Seq(Nat), NEW now, Ordered(lg, now),
           NEW x \in 1..Len(lg), NEW y \in 1..Len(lg), x <= y,
           NEW w \in Nat, NEW t \in Nat, lg[y] + w < t
    PROVE  lg[x] \in Nat /\ lg[x] + w < t
<1>1. lg[x] <= lg[y]
  BY DEF Ordered
<1>2. lg[x] \in Nat /\ lg[y] \in Nat
  OBVIOUS
<1>. QED
  BY <1>1, <1>2

\* A counter whose window is over has rested, dropped or not.
LEMMA OverRests ==
    ASSUME NEW c \in Counter, NEW lg, NEW now \in Nat, Book(c, lg, now),
           now - c.window > MinWindow
    PROVE  Rested(lg, now)
<1> DEFINE len == Len(lg)
           j == First(lg, c.count)
           t == c.window
<1>1. lg \in Seq(Nat) /\ len \in Nat /\ MaxBurst \in Nat \ {0} /\ MinWindow \in Nat
      /\ c.count \in 1..MaxBurst /\ t \in Nat /\ c # None /\ Ordered(lg, now)
      /\ now - t > MinWindow
  BY StagesAssumption, NoneAssumption DEF Book, Counter
<1>2. c.count <= len /\ lg[j] = t /\ Apart(lg, j, t) /\ j = len - c.count + 1
  BY <1>1 DEF Book, Counts, First
<1> DEFINE m == c.count
<1>0. m \in 1..MaxBurst /\ m <= len /\ j = len - m + 1
  BY <1>1, <1>2
<1> HIDE DEF len, j, t, m
<1>3. j \in 1..len /\ len + 1 <= j + MaxBurst
  BY <1>0, <1>1
<1>4. ASSUME NEW n \in Nat \ {0}, len + 1 > Bursts(n)
      PROVE  lg[(len + 1) - Bursts(n)] + Windows(n) < now
  <2> DEFINE p == Bursts(n)
             w == Windows(n)
             x == (len + 1) - p
  <2>1. p \in Nat \ {0} /\ w \in Nat
    BY Multiples, Zenon
  <2>2. len + 1 > p /\ x = (len + 1) - p
    BY <1>4
  <2> HIDE DEF p, x
  <2>3. x \in 1..len
    BY <1>1, <2>1, <2>2
  <2>4. CASE n = 1
    <3>1. p = MaxBurst /\ w = MinWindow
      BY <2>4, Multiples, Zenon DEF p
    <3>2. x <= j
      BY <1>1, <1>3, <2>2, <3>1
    <3>3. lg[x] <= lg[j] /\ lg[x] \in Nat
      BY <1>1, <1>3, <2>3, <3>2 DEF Ordered, len
    <3> HIDE DEF w
    <3>4. lg[x] + w < now
      BY <1>1, <1>2, <3>1, <3>3
    <3>. QED
      BY <3>4 DEF x, p, w
  <2>5. CASE n # 1
    <3> DEFINE q == Bursts(n - 1)
               u == Windows(n - 1)
               y == j - q
    <3>1. n - 1 \in Nat \ {0} /\ q = p - MaxBurst /\ u = w - MinWindow
      BY <2>5, Multiples, Zenon DEF p
    <3>2. q \in Nat \ {0} /\ u \in Nat
      BY <3>1, Multiples, Zenon
    <3>3. j > q => lg[y] + u < t
      BY <1>2, <3>1, Zenon DEF Apart
    <3>4. y = j - q
      OBVIOUS
    <3> HIDE DEF q, u, y, w
    <3>5. y \in 1..len /\ x <= y /\ j > q
      BY <1>1, <1>3, <2>1, <2>2, <2>3, <3>1, <3>2, <3>4
    <3>6. lg[x] \in Nat /\ lg[x] + u < t
      BY <1>1, <2>3, <3>2, <3>3, <3>5, Before DEF len
    <3>7. lg[x] + w < now
      BY <1>1, <2>1, <3>1, <3>2, <3>6
    <3>. QED
      BY <3>7 DEF x, p, w
  <2>. QED
    BY <2>4, <2>5
<1>. QED
  BY <1>4, Zenon DEF Rested, Apart, len

LEMMA OrderedAppend ==
    ASSUME NEW lg \in Seq(Nat), NEW now \in Nat, Ordered(lg, now)
    PROVE  Ordered(Append(lg, now), now)
BY DEF Ordered

\* A pass spreads if the passes n + 1 bursts before it lie more than n windows ago.
LEMMA SpreadAppend ==
    ASSUME NEW lg \in Seq(Nat), NEW now \in Nat, Spread(lg),
           \A n \in Nat \ {0} : Len(lg) + 1 > Bursts(n + 1) =>
               lg[(Len(lg) + 1) - Bursts(n + 1)] + Windows(n) < now
    PROVE  Spread(Append(lg, now))
<1> DEFINE len == Len(lg)
           mg == Append(lg, now)
<1>1. len \in Nat
  OBVIOUS
<1>2. /\ Len(mg) = len + 1 /\ mg[len + 1] = now
      /\ \A i \in 1..len : mg[i] = lg[i] /\ lg[i] \in Nat
  OBVIOUS
<1>3. ASSUME NEW n \in Nat \ {0}, NEW i \in 1..(len + 1), i + Bursts(n + 1) <= len + 1
      PROVE  mg[i + Bursts(n + 1)] > mg[i] + Windows(n)
  <2> DEFINE p == Bursts(n + 1)
             w == Windows(n)
  <2>1. p \in Nat \ {0} /\ w \in Nat
    BY Multiples, Zenon
  <2>2. len + 1 > p => lg[(len + 1) - p] + w < now
    OBVIOUS
  <2>3. \A k \in 1..len : k + p <= len => lg[k + p] > lg[k] + w
    BY DEF Spread
  <2>4. i + p <= len + 1
    BY <1>3
  <2> HIDE DEF p, w, mg, len
  <2>5. CASE i + p <= len
    <3>1. i \in 1..len /\ i + p \in 1..len
      BY <1>1, <2>1, <2>5
    <3>. QED
      BY <1>2, <2>3, <2>5, <3>1 DEF p, w
  <2>6. CASE i + p = len + 1
    <3>1. i \in 1..len /\ i = (len + 1) - p /\ len + 1 > p
      BY <1>1, <2>1, <2>6
    <3>2. lg[i] + w < now
      BY <2>2, <3>1
    <3>3. mg[i + p] > mg[i] + w
      BY <1>2, <2>1, <2>6, <3>1, <3>2
    <3>. QED
      BY <3>3 DEF p, w
  <2>7. i + p <= len \/ i + p = len + 1
    BY <1>1, <2>1, <2>4
  <2>. QED
    BY <2>5, <2>6, <2>7
<1>. QED
  BY <1>2, <1>3 DEF Spread

\* What lies apart does so of a longer history.
LEMMA ApartAppend ==
    ASSUME NEW lg \in Seq(Nat), NEW now \in Nat, NEW j \in 1..(Len(lg) + 1), NEW t,
           Apart(lg, j, t)
    PROVE  Apart(Append(lg, now), j, t)
<1> DEFINE mg == Append(lg, now)
<1>1. \A i \in 1..Len(lg) : mg[i] = lg[i]
  OBVIOUS
<1>2. ASSUME NEW n \in Nat \ {0}, j > Bursts(n)
      PROVE  mg[j - Bursts(n)] + Windows(n) < t
  <2>1. Bursts(n) \in Nat \ {0}
    BY Multiples, Zenon
  <2>2. j - Bursts(n) \in 1..Len(lg)
    BY <1>2, <2>1
  <2>3. lg[j - Bursts(n)] + Windows(n) < t
    BY <1>2 DEF Apart
  <2> HIDE DEF mg
  <2>. QED
    BY <1>1, <2>2, <2>3
<1>. QED
  BY <1>2 DEF Apart

\* A new window.
LEMMA BookNew ==
    ASSUME NEW lg \in Seq(Nat), NEW now \in Nat, Ordered(lg, now), Spread(lg),
           Rested(lg, now)
    PROVE  Book([count |-> 1, window |-> now], Append(lg, now), now)
<1> DEFINE d == [count |-> 1, window |-> now]
           len == Len(lg)
           mg == Append(lg, now)
<1>1. MaxBurst \in Nat \ {0} /\ MinWindow \in Nat /\ len \in Nat
  BY StagesAssumption
<1>2. /\ mg \in Seq(Nat) /\ Len(mg) = len + 1 /\ mg[len + 1] = now
      /\ \A i \in 1..len : mg[i] = lg[i] /\ lg[i] \in Nat
  OBVIOUS
<1>3. d \in Counter
  BY <1>1 DEF Counter
<1>4. Spread(mg)
  <2>1. ASSUME NEW n \in Nat \ {0}, len + 1 > Bursts(n + 1)
        PROVE  lg[(len + 1) - Bursts(n + 1)] + Windows(n) < now
    <3>1. /\ Bursts(n + 1) \in Nat \ {0} /\ Windows(n + 1) = Windows(n) + MinWindow
          /\ Windows(n) \in Nat
      BY Multiples, Zenon
    <3>2. lg[(len + 1) - Bursts(n + 1)] + Windows(n + 1) < now
      <4>1. n + 1 \in Nat \ {0} /\ Apart(lg, len + 1, now)
        BY DEF Rested
      <4>. QED
        BY <2>1, <4>1, Zenon DEF Apart
    <3>3. (len + 1) - Bursts(n + 1) \in 1..len
      BY <1>1, <2>1, <3>1
    <3> DEFINE x == (len + 1) - Bursts(n + 1)
    <3>4. x \in 1..len /\ lg[x] \in Nat /\ lg[x] + Windows(n + 1) < now
      BY <1>2, <3>2, <3>3
    <3> HIDE DEF x
    <3>5. lg[x] + Windows(n) < now
      BY <1>1, <3>1, <3>4
    <3>. QED
      BY <3>5 DEF x
  <2>. QED
    BY <2>1, SpreadAppend
<1>5. Counts(d, mg, now)
  <2>1. d.count = 1 /\ d.window = now
    OBVIOUS
  <2>2. Apart(mg, len + 1, now)
    BY <1>1, ApartAppend DEF Rested
  <2> HIDE DEF d, mg
  <2>3. First(mg, d.count) = len + 1
    BY <1>1, <1>2, <2>1 DEF First
  <2>. QED
    BY <1>1, <1>2, <2>1, <2>2, <2>3 DEF Counts
<1>6. Ordered(mg, now)
  BY OrderedAppend
<1>. QED
  BY <1>2, <1>3, <1>4, <1>5, <1>6, NoneAssumption DEF Book

\* A pass within the window, which began with the pass j and is not full.
LEMMA WithinWindow ==
    ASSUME NEW lg \in Seq(Nat), NEW now \in Nat, Ordered(lg, now), Spread(lg),
           NEW j \in 1..Len(lg), lg[j] <= now, Len(lg) + 1 < j + MaxBurst,
           Apart(lg, j, lg[j])
    PROVE  Spread(Append(lg, now))
<1> DEFINE len == Len(lg)
<1>1. len \in Nat /\ MaxBurst \in Nat \ {0} /\ MinWindow \in Nat
  BY StagesAssumption
<1>2. \A i \in 1..len : lg[i] \in Nat
  OBVIOUS
<1>3. ASSUME NEW n \in Nat \ {0}, len + 1 > Bursts(n + 1)
      PROVE  lg[(len + 1) - Bursts(n + 1)] + Windows(n) < now
  <2> DEFINE p == Bursts(n)
             w == Windows(n)
             far == (len + 1) - Bursts(n + 1)
             near == j - p
  <2>1. /\ p \in Nat \ {0} /\ w \in Nat /\ Bursts(n + 1) = p + MaxBurst
        /\ Bursts(n + 1) \in Nat
    BY Multiples, Zenon
  <2>2. far >= 1 /\ far = (len + 1) - (p + MaxBurst)
    BY <1>1, <1>3, <2>1
  <2>3. len + 1 < j + MaxBurst /\ near = j - p
    OBVIOUS
  <2>4. j > p => lg[near] + w < lg[j]
    BY DEF Apart
  <2> HIDE DEF p, far, near, len
  <2>5. far \in 1..len /\ near \in 1..len /\ far <= near /\ j > p
    <3>1. j \in 1..len
      BY DEF len
    <3>. QED
      BY <1>1, <2>1, <2>2, <2>3, <3>1
  <2>6. lg[near] + w < lg[j] /\ lg[j] \in Nat
    BY <1>2, <2>4, <2>5 DEF len
  <2> HIDE DEF w
  <2>7. lg[far] \in Nat /\ lg[far] + w < lg[j]
    BY <2>1, <2>5, <2>6, Before DEF len
  <2>8. lg[far] + w < now
    BY <2>1, <2>6, <2>7
  <2>. QED
    BY <2>8 DEF far, w, len
<1>. QED
  BY <1>3, SpreadAppend

LEMMA BookMore ==
    ASSUME NEW c \in Counter, NEW lg, NEW now \in Nat, Book(c, lg, now),
           c.count < MaxBurst
    PROVE  LET d == [c EXCEPT !.count = @ + 1] IN
           d \in Counter /\ Book(d, Append(lg, now), now)
<1> DEFINE d == [c EXCEPT !.count = @ + 1]
           m == c.count
           mg == Append(lg, now)
           j == First(lg, m)
<1>1. /\ MaxBurst \in Nat \ {0} /\ lg \in Seq(Nat) /\ Len(lg) \in Nat
      /\ m \in 1..MaxBurst /\ c # None
  BY StagesAssumption, NoneAssumption DEF Book, Counter
<1>2. d \in Counter /\ d.count = m + 1 /\ d.window = c.window
  BY <1>1 DEF Counter
<1>3. /\ c.window <= now /\ m <= Len(lg) /\ lg[j] = c.window
      /\ Apart(lg, j, lg[j])
      /\ Ordered(lg, now) /\ Spread(lg)
  BY <1>1 DEF Book, Counts
<1>4. mg \in Seq(Nat) /\ Len(mg) = Len(lg) + 1 /\ \A i \in 1..Len(lg) : mg[i] = lg[i]
  BY <1>1
<1>5. m < MaxBurst
  OBVIOUS
<1> HIDE DEF d, m, mg
<1>6. j \in 1..Len(lg) /\ Len(lg) + 1 < j + MaxBurst /\ First(mg, m + 1) = j
  BY <1>1, <1>3, <1>4, <1>5 DEF First
<1> HIDE DEF j
<1>7. Spread(mg) /\ mg[j] = lg[j]
  BY <1>1, <1>3, <1>4, <1>6, WithinWindow DEF mg
<1>8. Apart(mg, j, lg[j])
  BY <1>1, <1>3, <1>6, ApartAppend DEF mg
<1>9. Counts(d, mg, now)
  <2>1. First(mg, d.count) = j /\ d.count <= Len(mg)
    BY <1>1, <1>2, <1>3, <1>4, <1>6
  <2>2. d.window <= now /\ mg[j] = d.window /\ lg[j] = d.window
    BY <1>2, <1>3, <1>7
  <2>. QED
    BY <1>8, <2>1, <2>2, Zenon DEF Counts
<1>10. Ordered(mg, now)
  BY <1>1, <1>3, OrderedAppend DEF mg
<1>11. d # None
  BY <1>2, NoneAssumption
<1>. QED
  BY <1>2, <1>4, <1>7, <1>9, <1>10, <1>11 DEF Book, d, mg

-----------------------------------------------------------------------------
(* One step on a key in memory *)

LEMMA LimitsHold ==
    ASSUME TypeOK, NEW h \in Handler
    PROVE  /\ req[h] \in Request /\ req[h].key \in Key
           /\ Limits(h) \in Stage
           /\ Limits(h).burst <= MaxBurst /\ Limits(h).window >= MinWindow
BY StagesAssumption DEF TypeOK, Request, Limits

\* What CountInMemory writes for its key.
LEMMA CountKeepsBook ==
    ASSUME NEW c \in Counter \cup {None}, NEW lg, NEW now \in Nat, Book(c, lg, now),
           NEW st \in Stage, st.burst <= MaxBurst, st.window >= MinWindow
    PROVE  /\ ~(c # None /\ now - c.window <= st.window) =>
                 Book([count |-> 1, window |-> now], Append(lg, now), now)
           /\ c # None /\ ~(c.count >= st.burst) =>
                 /\ [c EXCEPT !.count = @ + 1] \in Counter
                 /\ Book([c EXCEPT !.count = @ + 1], Append(lg, now), now)
<1>1. lg \in Seq(Nat) /\ Ordered(lg, now) /\ Spread(lg)
  BY DEF Book
<1>2. MaxBurst \in Nat /\ MinWindow \in Nat /\ st.burst \in Nat /\ st.window \in Nat
  BY StagesAssumption DEF Stage
<1>3. CASE c = None
  <2>1. Rested(lg, now)
    BY <1>3 DEF Book
  <2>. QED
    BY <1>1, <1>3, <2>1, BookNew
<1>4. CASE c # None
  <2>1. c \in Counter /\ c.window \in Nat /\ c.count \in Nat
    BY <1>4, StagesAssumption DEF Counter
  <2>2. ASSUME ~(now - c.window <= st.window)
        PROVE  Book([count |-> 1, window |-> now], Append(lg, now), now)
    <3>1. now - c.window > MinWindow
      BY <1>2, <2>1, <2>2
    <3>. QED
      BY <1>1, <2>1, <3>1, OverRests, BookNew
  <2>3. ASSUME ~(c.count >= st.burst)
        PROVE  /\ [c EXCEPT !.count = @ + 1] \in Counter
               /\ Book([c EXCEPT !.count = @ + 1], Append(lg, now), now)
    <3>1. c.count < MaxBurst
      BY <1>2, <2>1, <2>3
    <3>. QED
      BY <2>1, <3>1, BookMore
  <2>. QED
    BY <1>4, <2>2, <2>3
<1>. QED
  BY <1>3, <1>4

\* Dropping a stale counter keeps what is needed of it.
LEMMA DropKeepsBook ==
    ASSUME NEW c \in Counter, NEW lg, NEW now \in Nat, Book(c, lg, now),
           now - c.window > CleanupAge
    PROVE  Book(None, lg, now)
<1>1. now - c.window > MinWindow
  BY StagesAssumption, CleanupAssumption DEF Counter
<1>. QED
  BY <1>1, OverRests DEF Book

-----------------------------------------------------------------------------
(* Redis *)

\* Distinct seconds between the oldest that may count and now.
LEMMA RecentFits ==
    ASSUME NEW Z \in SUBSET Nat, NEW u \in Nat, NEW now \in Nat, NEW w \in Nat,
           NEW d \in Nat, now <= u, u - now <= d,
           \A s \in Z : s <= u /\ (s > now - w \/ s >= now - d)
    PROVE  Cardinality(Z) \in Nat
           /\ Cardinality(Z) <= (IF w > d THEN w ELSE d + 1) + d
<1> DEFINE m == IF w > d THEN w ELSE d + 1
           a == now - m + 1
<1>1. m \in Nat /\ m >= w /\ m >= d + 1 /\ a \in Int /\ a <= u
      /\ u - a + 1 <= m + d /\ a <= now - w + 1 /\ a <= now - d
  OBVIOUS
<1> HIDE DEF m, a
<1>2. \A s \in Z : s \in Nat /\ s <= u /\ a <= s
  <2>1. ASSUME NEW s \in Z PROVE s \in Nat /\ s <= u /\ a <= s
    <3>1. s \in Nat /\ s <= u /\ (s > now - w \/ s >= now - d)
      OBVIOUS
    <3>. QED
      BY <1>1, <3>1
  <2>. QED
    BY <2>1
<1>3. Z \subseteq a..u
  BY <1>1, <1>2
<1>4. IsFiniteSet(a..u) /\ Cardinality(a..u) = u - a + 1
  BY <1>1, FS_Interval
<1>5. IsFiniteSet(Z) /\ Cardinality(Z) <= Cardinality(a..u)
  BY <1>3, <1>4, FS_Subset
<1>6. Cardinality(Z) \in Nat /\ Cardinality(a..u) \in Nat
  BY <1>4, <1>5, FS_CardinalityType
<1>7. Cardinality(Z) <= m + d
  BY <1>1, <1>4, <1>5, <1>6
<1>. QED
  BY <1>6, <1>7 DEF m

-----------------------------------------------------------------------------
(* Requests *)

\* The requests stay good while time passes, scores go, and delays grow.
LEMMA GoodLater ==
    ASSUME NEW r \in Request, NEW u \in Nat, NEW v \in Nat, NEW d \in Nat,
           NEW e \in Nat, Good(r, u, d), u <= v, d <= e
    PROVE  Good(r, v, e)
<1> DEFINE st == Stages[r.stage]
<1>1. r.now \in Nat /\ st.burst \in Nat /\ st.seconds \in Nat
  <2>1. r.now \in Nat /\ r.stage \in DOMAIN Stages
    BY DEF Request
  <2>2. st \in Stage
    BY <2>1, StagesAssumption
  <2>. QED
    BY <2>1, <2>2 DEF Stage
<1>2. r.now <= v /\ (r.pc # "idle" => r.reply = "none")
  BY <1>1 DEF Good
<1>3. r.reply = "redis_full" =>
          st.burst <= (IF st.seconds > d THEN st.seconds ELSE d + 1) + d
  BY DEF Good, RefusedLate
<1> HIDE DEF st
<1>4. r.reply = "redis_full" =>
          st.burst <= (IF st.seconds > e THEN st.seconds ELSE e + 1) + e
  BY <1>1, <1>3
<1>. QED
  BY <1>2, <1>4 DEF Good, RefusedLate, st

LEMMA FreshLater ==
    ASSUME NEW r \in Request, NEW Z \in SUBSET Nat, NEW Y \in SUBSET Nat,
           NEW d \in Nat, NEW e \in Nat, Fresh(r, Z, d), Y \subseteq Z, d <= e
    PROVE  Fresh(r, Y, e)
<1>1. r.now \in Nat
  BY DEF Request
<1>2. ASSUME r.pc = "count", NEW s \in Y, ~(s > r.now - Stages[r.stage].seconds)
      PROVE  s >= r.now - e
  <2>1. s \in Nat /\ s >= r.now - d
    BY <1>2 DEF Fresh
  <2>. QED
    BY <1>1, <2>1
<1>. QED
  BY <1>2 DEF Fresh

\* A step of one request, with scores that may have gone and a delay that may
\* have grown.
LEMMA RequestStep ==
    ASSUME Inv, NEW h \in Handler, NEW r \in Request, Step(h, r),
           NEW zs \in [Key -> SUBSET Nat], \A k \in Key : zs[k] \subseteq zset[k],
           NEW e \in Nat, slow <= e,
           Good(r, unix, e), Fresh(r, zs[r.key], e)
    PROVE  req' \in [Handler -> Request] /\ AllGood(req', zs, unix, e)
<1>1. req \in [Handler -> Request] /\ zset \in [Key -> SUBSET Nat]
      /\ unix \in Nat /\ slow \in Nat
  BY DEF Inv, TypeOK
<1>2. req' = [req EXCEPT ![h] = r]
  BY DEF Step
<1>3. ASSUME NEW g \in Handler
      PROVE  Good(req'[g], unix, e) /\ Fresh(req'[g], zs[req'[g].key], e)
  <2>1. CASE g = h
    BY <1>1, <1>2, <2>1
  <2>2. CASE g # h
    <3>1. req'[g] = req[g] /\ req[g] \in Request /\ req[g].key \in Key
      BY <1>1, <1>2, <2>2 DEF Request
    <3>2. Good(req[g], unix, slow) /\ Fresh(req[g], zset[req[g].key], slow)
      BY DEF Inv, AllGood
    <3>3. Good(req[g], unix, e)
      BY <1>1, <3>1, <3>2, GoodLater
    <3>4. Fresh(req[g], zs[req[g].key], e)
      BY <1>1, <3>1, <3>2, FreshLater
    <3>. QED
      BY <3>1, <3>3, <3>4
  <2>. QED
    BY <2>1, <2>2
<1>. QED
  BY <1>1, <1>2, <1>3 DEF AllGood

LEMMA Moved ==
    ASSUME NEW r \in Request, NEW u \in Nat, NEW d, Good(r, u, d), r.pc # "idle",
           NEW p \in {"start", "count", "add", "expire", "local"}
    PROVE  /\ [r EXCEPT !.pc = p] \in Request
           /\ Good([r EXCEPT !.pc = p], u, d)
           /\ [r EXCEPT !.pc = p].pc = p
           /\ [r EXCEPT !.pc = p].key = r.key
           /\ [r EXCEPT !.pc = p].now = r.now
           /\ [r EXCEPT !.pc = p].stage = r.stage
<1> DEFINE n == [r EXCEPT !.pc = p]
<1>1. n \in Request
  BY DEF Request
<1>2. n.now = r.now /\ n.reply = r.reply /\ n.pc = p /\ n.key = r.key
      /\ n.stage = r.stage
  BY DEF Request
<1> HIDE DEF n
<1>3. r.reply = "none"
  BY DEF Good
<1>4. Good(n, u, d)
  BY <1>2, <1>3 DEF Good, RefusedLate
<1>. QED
  BY <1>1, <1>2, <1>4 DEF n

LEMMA Passed ==
    ASSUME Inv, NEW h \in Handler, ~At(h, "idle"), Pass(h)
    PROVE  req' \in [Handler -> Request] /\ AllGood(req', zset, unix, slow)
<1> DEFINE r == req[h]
           next == [r EXCEPT !.pc = "start", !.now = 0, !.stage = @ + 1]
           out == [r EXCEPT !.pc = "idle", !.now = 0, !.stage = 1, !.reply = "passed"]
<1>1. r \in Request /\ r.reply = "none" /\ unix \in Nat /\ slow \in Nat
      /\ zset \in [Key -> SUBSET Nat]
  BY DEF Inv, AllGood, TypeOK, Good, At
<1>2. 1 \in DOMAIN Stages
  BY StagesAssumption
<1>3. \/ r.stage + 1 \in DOMAIN Stages /\ Step(h, next)
      \/ Step(h, out)
  BY DEF Pass
<1> HIDE DEF r
<1>4. CASE r.stage + 1 \in DOMAIN Stages /\ Step(h, next)
  <2>1. next \in Request
    BY <1>1, <1>4 DEF Request
  <2>2. next.now = 0 /\ next.reply = "none" /\ next.pc = "start"
    BY <1>1 DEF Request
  <2> HIDE DEF next
  <2>3. Good(next, unix, slow) /\ Fresh(next, zset[next.key], slow)
    BY <1>1, <2>2 DEF Good, RefusedLate, Fresh
  <2>. QED
    BY <1>1, <1>4, <2>1, <2>3, RequestStep
<1>5. CASE Step(h, out)
  <2>1. out \in Request
    BY <1>1, <1>2 DEF Request
  <2>2. out.now = 0 /\ out.reply = "passed" /\ out.pc = "idle"
    BY <1>1 DEF Request
  <2> HIDE DEF out
  <2>3. Good(out, unix, slow) /\ Fresh(out, zset[out.key], slow)
    BY <1>1, <2>2 DEF Good, RefusedLate, Fresh
  <2>. QED
    BY <1>1, <1>5, <2>1, <2>3, RequestStep
<1>. QED
  BY <1>3, <1>4, <1>5

LEMMA Refused ==
    ASSUME Inv, NEW h \in Handler, NEW why \in {"redis_full", "local_full"},
           Refuse(h, why), NEW e \in Nat, slow <= e,
           why = "redis_full" =>
               Limits(h).burst <=
                   (IF Limits(h).seconds > e THEN Limits(h).seconds ELSE e + 1) + e
    PROVE  req' \in [Handler -> Request] /\ AllGood(req', zset, unix, e)
<1> DEFINE r == req[h]
           out == [r EXCEPT !.pc = "idle", !.now = 0, !.reply = why]
<1>1. r \in Request /\ unix \in Nat /\ Step(h, out) /\ zset \in [Key -> SUBSET Nat]
  BY DEF Inv, TypeOK, Refuse
<1>2. why = "redis_full" =>
          Stages[r.stage].burst <=
              (IF Stages[r.stage].seconds > e THEN Stages[r.stage].seconds ELSE e + 1) + e
  BY DEF Limits
<1> HIDE DEF r
<1>3. out \in Request
  BY <1>1 DEF Request
<1>4. out.now = 0 /\ out.reply = why /\ out.pc = "idle" /\ out.stage = r.stage
  BY <1>1 DEF Request
<1> HIDE DEF out
<1>5. RefusedLate(out, e)
  BY <1>2, <1>4 DEF RefusedLate
<1>6. Good(out, unix, e) /\ Fresh(out, zset[out.key], e)
  BY <1>1, <1>4, <1>5 DEF Good, Fresh
<1>. QED
  BY <1>1, <1>3, <1>6, RequestStep

-----------------------------------------------------------------------------
(* Every step keeps Inv *)

LEMMA BeginStep ==
    ASSUME Inv, NEW h \in Handler, NEW k \in Key, Begin(h, k) PROVE Inv'
<1> DEFINE r == [pc |-> "start", key |-> k, stage |-> 1, now |-> 0, reply |-> "none"]
<1>1. r \in Request /\ r.now = 0 /\ r.pc = "start" /\ r.reply = "none"
  BY StagesAssumption DEF Request
<1>2. Step(h, r) /\ UNCHANGED <<clock, unix, local, zset, ttl, log, slow>>
  BY DEF Begin
<1> HIDE DEF r
<1>3. unix \in Nat /\ slow \in Nat /\ zset \in [Key -> SUBSET Nat]
  BY DEF Inv, TypeOK
<1>4. Good(r, unix, slow) /\ Fresh(r, zset[r.key], slow)
  BY <1>1, <1>3 DEF Good, RefusedLate, Fresh
<1>5. req' \in [Handler -> Request] /\ AllGood(req', zset, unix, slow)
  BY <1>1, <1>2, <1>3, <1>4, RequestStep
<1>. QED
  BY <1>2, <1>5 DEF Inv, TypeOK, NoFuture, AllGood

LEMMA ReadClockStep ==
    ASSUME Inv, NEW h \in Handler, ReadClock(h) PROVE Inv'
<1> DEFINE r == req[h]
           n == [r EXCEPT !.pc = "trim", !.now = unix]
<1>1. r \in Request /\ r.reply = "none" /\ unix \in Nat /\ slow \in Nat
      /\ zset \in [Key -> SUBSET Nat]
  BY DEF Inv, AllGood, TypeOK, Good, ReadClock, At
<1>2. Step(h, n) /\ UNCHANGED <<clock, unix, local, zset, ttl, log, slow>>
  BY DEF ReadClock
<1> HIDE DEF r
<1>3. n \in Request
  BY <1>1 DEF Request
<1>4. n.now = unix /\ n.reply = "none" /\ n.pc = "trim"
  BY <1>1 DEF Request
<1> HIDE DEF n
<1>5. Good(n, unix, slow) /\ Fresh(n, zset[n.key], slow)
  BY <1>1, <1>4 DEF Good, RefusedLate, Fresh
<1>6. req' \in [Handler -> Request] /\ AllGood(req', zset, unix, slow)
  BY <1>1, <1>2, <1>3, <1>5, RequestStep
<1>. QED
  BY <1>2, <1>6 DEF Inv, TypeOK, NoFuture, AllGood

\* A request on its way in Redis.
LEMMA InRedis ==
    ASSUME Inv, NEW h \in Handler, ~At(h, "idle")
    PROVE  /\ req[h] \in Request /\ req[h].key \in Key /\ req[h].now \in Nat
           /\ Limits(h) \in Stage /\ req[h].now <= unix /\ req[h].pc # "idle"
           /\ Good(req[h], unix, slow) /\ Fresh(req[h], zset[req[h].key], slow)
           /\ unix \in Nat /\ slow \in Nat /\ zset \in [Key -> SUBSET Nat]
           /\ ttl \in [Key -> Nat \cup {None}]
BY LimitsHold DEF Inv, AllGood, TypeOK, Request, Good, At

LEMMA TrimInRedisStep ==
    ASSUME Inv, NEW h \in Handler, TrimInRedis(h) PROVE Inv'
<1> DEFINE k == req[h].key
           st == Limits(h)
           recent == {s \in zset[k] : ~Outdated(s, req[h].now, st.seconds)}
           counting == [req[h] EXCEPT !.pc = "count"]
<1>1. /\ req[h] \in Request /\ k \in Key /\ req[h].now \in Nat
      /\ st \in Stage /\ req[h].pc # "idle" /\ Good(req[h], unix, slow)
      /\ unix \in Nat /\ slow \in Nat /\ zset \in [Key -> SUBSET Nat]
      /\ ttl \in [Key -> Nat \cup {None}]
  BY InRedis DEF TrimInRedis, At
<1>2. UNCHANGED <<clock, unix, local, log, slow>>
  BY DEF TrimInRedis
<1>3. \/ /\ zset' = [zset EXCEPT ![k] = recent]
         /\ ttl' = ttl \/ ttl' = [ttl EXCEPT ![k] = None]
         /\ Step(h, counting)
      \/ zset' = zset /\ ttl' = ttl /\ Goto(h, "local")
  BY Zenon DEF TrimInRedis, Goto
<1>4. recent \in SUBSET Nat /\ recent \subseteq zset[k]
  BY <1>1
<1>5. \A s \in recent : ~(s <= req[h].now - st.seconds)
  BY DEF Outdated
<1>6. \A s \in recent : s > req[h].now - st.seconds
  <2>1. st.seconds \in Nat
    BY <1>1 DEF Stage
  <2>2. ASSUME NEW s \in recent PROVE s > req[h].now - st.seconds
    <3>1. s \in Nat /\ ~(s <= req[h].now - st.seconds)
      BY <1>4, <1>5
    <3>. QED
      BY <1>1, <2>1, <3>1
  <2>. QED
    BY <2>2
<1>7. /\ counting \in Request /\ Good(counting, unix, slow) /\ counting.pc = "count"
      /\ counting.key = k /\ counting.now = req[h].now
      /\ counting.stage = req[h].stage
  BY <1>1, Moved
<1>8. st = Stages[req[h].stage]
  BY DEF Limits
<1>9. zset' \in [Key -> SUBSET Nat] /\ \A j \in Key : zset'[j] \subseteq zset[j]
  <2> HIDE DEF recent, k
  <2>. QED
    BY <1>1, <1>3, <1>4
<1>10. ttl' \in [Key -> Nat \cup {None}]
  BY <1>1, <1>3
<1>11. req' \in [Handler -> Request] /\ AllGood(req', zset', unix, slow)
  <2>1. CASE zset' = [zset EXCEPT ![k] = recent] /\ Step(h, counting)
    <3> HIDE DEF recent, counting, st
    <3>1. zset'[counting.key] = recent
      BY <1>1, <1>7, <2>1
    <3>2. Fresh(counting, zset'[counting.key], slow)
      BY <1>6, <1>7, <1>8, <3>1 DEF Fresh
    <3>3. Step(h, counting) /\ slow <= slow
      BY <1>1, <2>1
    <3>. QED
      BY <1>1, <1>7, <1>9, <3>2, <3>3, RequestStep
  <2>2. CASE zset' = zset /\ Goto(h, "local")
    <3> DEFINE n == [req[h] EXCEPT !.pc = "local"]
    <3>1. n \in Request /\ Good(n, unix, slow) /\ n.pc = "local" /\ Step(h, n)
      BY <1>1, <2>2, Moved DEF Goto
    <3> HIDE DEF n
    <3>2. Fresh(n, zset'[n.key], slow)
      BY <3>1 DEF Fresh
    <3>. QED
      BY <1>1, <1>9, <3>1, <3>2, RequestStep
  <2>. QED
    BY <1>3, <2>1, <2>2
<1>12. NoFuture'
  BY <1>2, <1>9 DEF Inv, NoFuture
<1>. QED
  BY <1>2, <1>9, <1>10, <1>11, <1>12 DEF Inv, TypeOK, AllGood

\* The delay noted.
LEMMA Noted ==
    ASSUME NEW h \in Handler, NoteDelay(h), slow \in Nat, unix \in Nat,
           req[h].now \in Nat, req[h].now <= unix
    PROVE  slow' \in Nat /\ slow <= slow' /\ unix - req[h].now <= slow'
BY DEF NoteDelay, Late

LEMMA CountInRedisStep ==
    ASSUME Inv, NEW h \in Handler, CountInRedis(h) PROVE Inv'
<1> DEFINE k == req[h].key
           st == Limits(h)
<1>1. /\ req[h] \in Request /\ k \in Key /\ req[h].now \in Nat
      /\ st \in Stage /\ req[h].pc = "count" /\ req[h].now <= unix
      /\ Good(req[h], unix, slow) /\ Fresh(req[h], zset[k], slow)
      /\ unix \in Nat /\ slow \in Nat /\ zset \in [Key -> SUBSET Nat]
  BY InRedis DEF CountInRedis, At
<1>2. NoteDelay(h) /\ UNCHANGED <<clock, unix, local, zset, ttl, log>>
  BY DEF CountInRedis
<1>3. \/ Cardinality(zset[k]) >= st.burst /\ Refuse(h, "redis_full")
      \/ Goto(h, "add")
      \/ Goto(h, "local")
  BY DEF CountInRedis
<1>4. slow' \in Nat /\ slow <= slow' /\ unix - req[h].now <= slow'
  BY <1>1, <1>2, Noted
<1>5. st.burst \in Nat /\ st.seconds \in Nat /\ st = Stages[req[h].stage]
  BY <1>1 DEF Stage, Limits
<1>6. Cardinality(zset[k]) \in Nat
      /\ Cardinality(zset[k]) <=
            (IF st.seconds > slow' THEN st.seconds ELSE slow' + 1) + slow'
  <2> DEFINE Z == zset[k]
  <2>1. Z \in SUBSET Nat /\ \A s \in Z : s <= unix
    BY <1>1 DEF Inv, NoFuture
  <2>2. \A s \in Z : s > req[h].now - st.seconds \/ s >= req[h].now - slow
    BY <1>1, <1>5 DEF Fresh
  <2> HIDE DEF Z, st
  <2>3. ASSUME NEW s \in Z
        PROVE  s <= unix /\ (s > req[h].now - st.seconds \/ s >= req[h].now - slow')
    <3>1. s \in Nat /\ s <= unix
          /\ (s > req[h].now - st.seconds \/ s >= req[h].now - slow)
      BY <2>1, <2>2
    <3>. QED
      BY <1>1, <1>4, <1>5, <3>1
  <2>. QED
    BY <1>1, <1>4, <1>5, <2>1, <2>3, RecentFits DEF Z
<1> HIDE DEF st
<1>7. req' \in [Handler -> Request] /\ AllGood(req', zset, unix, slow')
  <2>1. CASE Cardinality(zset[k]) >= st.burst /\ Refuse(h, "redis_full")
    <3>1. st.burst <= (IF st.seconds > slow' THEN st.seconds ELSE slow' + 1) + slow'
      BY <1>4, <1>5, <1>6, <2>1
    <3>2. Refuse(h, "redis_full")
      BY <2>1
    <3>3. Limits(h).burst <=
            (IF Limits(h).seconds > slow' THEN Limits(h).seconds ELSE slow' + 1) + slow'
      BY <3>1 DEF st
    <3>. QED
      BY <1>4, <3>2, <3>3, Refused
  <2>2. ASSUME NEW p \in {"add", "local"}, Goto(h, p)
        PROVE  req' \in [Handler -> Request] /\ AllGood(req', zset, unix, slow')
    <3> DEFINE n == [req[h] EXCEPT !.pc = p]
    <3>1. n \in Request /\ Good(n, unix, slow) /\ n.pc = p /\ Step(h, n)
      <4>1. p \in {"start", "count", "add", "expire", "local"} /\ req[h].pc # "idle"
        BY <1>1
      <4>2. Step(h, n)
        BY <2>2 DEF Goto
      <4>3. n \in Request /\ Good(n, unix, slow) /\ n.pc = p
        BY <1>1, <4>1, Moved
      <4>. QED
        BY <4>2, <4>3
    <3> HIDE DEF n
    <3>2. Good(n, unix, slow') /\ Fresh(n, zset[n.key], slow')
      BY <1>1, <1>4, <3>1, GoodLater DEF Fresh
    <3>. QED
      BY <1>1, <1>4, <3>1, <3>2, RequestStep
  <2>. QED
    BY <1>3, <2>1, <2>2
<1>. QED
  BY <1>2, <1>4, <1>7 DEF Inv, TypeOK, NoFuture, AllGood

\* A score added after a request has trimmed is not older than the slowest.
LEMMA AddKeepsFresh ==
    ASSUME NEW r \in Request, NEW Z \in SUBSET Nat, NEW d \in Nat, NEW s \in Nat,
           NEW u \in Nat, Fresh(r, Z, d), r.now <= u, u - s <= d
    PROVE  Fresh(r, Z \cup {s}, d)
<1>1. r.now \in Nat /\ s >= r.now - d
  BY DEF Request
<1>. QED
  BY <1>1 DEF Fresh

LEMMA AddToRedisStep ==
    ASSUME Inv, NEW h \in Handler, AddToRedis(h) PROVE Inv'
<1> DEFINE k == req[h].key
           more == zset[k] \cup {req[h].now}
           n == [req[h] EXCEPT !.pc = "expire"]
<1>1. /\ req[h] \in Request /\ k \in Key /\ req[h].now \in Nat
      /\ req[h].pc = "add" /\ req[h].now <= unix /\ Good(req[h], unix, slow)
      /\ unix \in Nat /\ slow \in Nat /\ zset \in [Key -> SUBSET Nat]
  BY InRedis DEF AddToRedis, At
<1>2. NoteDelay(h) /\ Step(h, n) /\ UNCHANGED <<clock, unix, local, ttl, log>>
  BY DEF AddToRedis, Goto
<1>3. zset' = zset \/ zset' = [zset EXCEPT ![k] = more]
  BY DEF AddToRedis
<1>4. slow' \in Nat /\ slow <= slow' /\ unix - req[h].now <= slow'
  BY <1>1, <1>2, Noted
<1>5. n \in Request /\ Good(n, unix, slow) /\ n.pc = "expire"
  BY <1>1, Moved
<1>6. more \in SUBSET Nat /\ \A s \in more : s <= unix
  BY <1>1 DEF Inv, NoFuture
<1> HIDE DEF n
<1>7. Good(n, unix, slow') /\ Fresh(n, zset[n.key], slow')
  BY <1>1, <1>4, <1>5, GoodLater DEF Fresh
<1>8. req' \in [Handler -> Request] /\ AllGood(req', zset, unix, slow')
  BY <1>1, <1>2, <1>4, <1>5, <1>7, RequestStep
<1>9. \A g \in Handler : Fresh(req'[g], zset'[req'[g].key], slow')
  <2>1. ASSUME NEW g \in Handler
        PROVE  Fresh(req'[g], zset'[req'[g].key], slow')
    <3> DEFINE r == req'[g]
    <3>1. r \in Request /\ r.key \in Key /\ r.now <= unix
          /\ Fresh(r, zset[r.key], slow') /\ zset[r.key] \in SUBSET Nat
      BY <1>1, <1>8 DEF AllGood, Good, Request
    <3> HIDE DEF r
    <3>2. Fresh(r, zset[r.key] \cup {req[h].now}, slow')
      BY <1>1, <1>4, <3>1, AddKeepsFresh
    <3>3. zset'[r.key] = zset[r.key] \/ zset'[r.key] = zset[r.key] \cup {req[h].now}
      BY <1>1, <1>3, <3>1
    <3>4. Fresh(r, zset'[r.key], slow')
      BY <3>1, <3>2, <3>3
    <3>. QED
      BY <3>4 DEF r
  <2>. QED
    BY <2>1
<1> HIDE DEF more, k
<1>10. zset' \in [Key -> SUBSET Nat] /\ NoFuture'
  BY <1>1, <1>2, <1>3, <1>6 DEF Inv, NoFuture
<1>. QED
  BY <1>2, <1>4, <1>8, <1>9, <1>10 DEF Inv, TypeOK, AllGood

LEMMA ExpireInRedisStep ==
    ASSUME Inv, NEW h \in Handler, ExpireInRedis(h) PROVE Inv'
<1> DEFINE k == req[h].key
           until == unix + Limits(h).seconds
<1>1. ttl \in [Key -> Nat \cup {None}] /\ k \in Key /\ until \in Nat
  BY InRedis DEF ExpireInRedis, At, Stage
<1>2. /\ ttl' = ttl \/ ttl' = [ttl EXCEPT ![k] = until]
      /\ Pass(h) /\ ~At(h, "idle")
      /\ UNCHANGED <<clock, unix, local, zset, log, slow>>
  BY DEF ExpireInRedis, At
<1>3. req' \in [Handler -> Request] /\ AllGood(req', zset, unix, slow)
  BY <1>2, Passed
<1> HIDE DEF until, k
<1>4. ttl' \in [Key -> Nat \cup {None}]
  BY <1>1, <1>2
<1>. QED
  BY <1>2, <1>3, <1>4 DEF Inv, TypeOK, NoFuture, AllGood

LEMMA CountInMemoryStep ==
    ASSUME Inv, NEW h \in Handler, CountInMemory(h) PROVE Inv'
<1> DEFINE k == req[h].key
           c == local[k]
           st == Limits(h)
           fresh == [count |-> 1, window |-> clock]
           more == [c EXCEPT !.count = @ + 1]
           lg == log[k]
<1>1. /\ k \in Key /\ c \in Counter \cup {None} /\ lg \in Seq(Nat) /\ clock \in Nat
      /\ st \in Stage /\ st.burst <= MaxBurst /\ st.window >= MinWindow
      /\ Book(c, lg, clock) /\ ~At(h, "idle")
  BY LimitsHold DEF Inv, TypeOK, CountInMemory, At
<1>2. UNCHANGED <<clock, unix, zset, ttl, slow>>
  BY DEF CountInMemory
<1>3. \/ /\ ~(c # None /\ clock - c.window <= st.window)
         /\ local' = [local EXCEPT ![k] = fresh]
         /\ log' = [log EXCEPT ![k] = Append(lg, clock)] /\ Pass(h)
      \/ /\ c # None /\ ~(c.count >= st.burst)
         /\ local' = [local EXCEPT ![k] = more]
         /\ log' = [log EXCEPT ![k] = Append(lg, clock)] /\ Pass(h)
      \/ UNCHANGED <<local, log>> /\ Refuse(h, "local_full")
  BY <1>1 DEF CountInMemory, Running, Full, Counted, Inv, TypeOK
<1>4. fresh \in Counter
  BY <1>1, StagesAssumption DEF Counter
<1>5. req' \in [Handler -> Request] /\ AllGood(req', zset, unix, slow)
  <2>1. slow \in Nat /\ slow <= slow
    BY DEF Inv, TypeOK
  <2>. QED
    BY <1>1, <1>3, <2>1, Passed, Refused
<1> HIDE DEF fresh, more, lg, c, k, st
<1>6. ASSUME NEW d \in Counter, Book(d, Append(lg, clock), clock),
             local' = [local EXCEPT ![k] = d],
             log' = [log EXCEPT ![k] = Append(lg, clock)]
      PROVE  /\ local' \in [Key -> Counter \cup {None}]
             /\ log' \in [Key -> Seq(Nat)]
             /\ \A j \in Key : Book(local'[j], log'[j], clock)
  <2>1. Append(lg, clock) \in Seq(Nat)
    BY <1>1
  <2>. QED
    BY <1>1, <1>6, <2>1 DEF Inv, TypeOK
<1>7. /\ local' \in [Key -> Counter \cup {None}]
      /\ log' \in [Key -> Seq(Nat)]
      /\ \A j \in Key : Book(local'[j], log'[j], clock)
  <2>1. CASE ~(c # None /\ clock - c.window <= st.window)
             /\ local' = [local EXCEPT ![k] = fresh]
             /\ log' = [log EXCEPT ![k] = Append(lg, clock)]
    <3>1. Book(fresh, Append(lg, clock), clock)
      BY <1>1, <2>1, CountKeepsBook DEF fresh
    <3>. QED
      BY <1>4, <1>6, <2>1, <3>1
  <2>2. CASE c # None /\ ~(c.count >= st.burst)
             /\ local' = [local EXCEPT ![k] = more]
             /\ log' = [log EXCEPT ![k] = Append(lg, clock)]
    <3>1. more \in Counter /\ Book(more, Append(lg, clock), clock)
      BY <1>1, <2>2, CountKeepsBook DEF more
    <3>. QED
      BY <1>6, <2>2, <3>1
  <2>3. CASE UNCHANGED <<local, log>>
    BY <2>3 DEF Inv, TypeOK
  <2>. QED
    BY <1>3, <2>1, <2>2, <2>3
<1>. QED
  BY <1>2, <1>5, <1>7 DEF Inv, TypeOK, NoFuture, AllGood

LEMMA ExpireKeyStep ==
    ASSUME Inv, NEW k \in Key, ExpireKey(k) PROVE Inv'
<1>1. /\ zset' = [zset EXCEPT ![k] = {}] /\ ttl' = [ttl EXCEPT ![k] = None]
      /\ UNCHANGED <<clock, unix, local, log, slow, req>>
  BY DEF ExpireKey
<1>2. zset' \in [Key -> SUBSET Nat] /\ ttl' \in [Key -> Nat \cup {None}] /\ NoFuture'
  BY <1>1 DEF Inv, TypeOK, NoFuture
<1>3. AllGood(req, zset', unix, slow)
  <2>1. ASSUME NEW h \in Handler PROVE Fresh(req[h], zset'[req[h].key], slow)
    <3>1. req[h].key \in Key /\ Fresh(req[h], zset[req[h].key], slow)
      BY DEF Inv, TypeOK, AllGood, Request
    <3>2. zset'[req[h].key] \subseteq zset[req[h].key]
      BY <1>1, <3>1 DEF Inv, TypeOK
    <3>. QED
      BY <3>1, <3>2 DEF Fresh
  <2>. QED
    BY <2>1 DEF Inv, AllGood
<1>. QED
  BY <1>1, <1>2, <1>3 DEF Inv, TypeOK, AllGood

LEMMA CleanupStep ==
    ASSUME Inv, Cleanup PROVE Inv'
<1>1. /\ local' = [k \in Key |-> IF Stale(local[k]) THEN None ELSE local[k]]
      /\ UNCHANGED <<clock, unix, zset, ttl, log, slow, req>>
  BY DEF Cleanup
<1>2. ASSUME NEW k \in Key
      PROVE  local'[k] \in Counter \cup {None} /\ Book(local'[k], log[k], clock)
  <2>1. local[k] \in Counter \cup {None} /\ clock \in Nat /\ Book(local[k], log[k], clock)
    BY DEF Inv, TypeOK
  <2>2. CASE Stale(local[k])
    <3>1. local[k] \in Counter /\ clock - local[k].window > CleanupAge
      BY <2>1, <2>2 DEF Stale
    <3>. QED
      BY <1>1, <2>1, <2>2, <3>1, DropKeepsBook
  <2>3. CASE ~Stale(local[k])
    BY <1>1, <2>1, <2>3
  <2>. QED
    BY <2>2, <2>3
<1>3. local' \in [Key -> Counter \cup {None}]
  BY <1>1, <1>2
<1>. QED
  BY <1>1, <1>2, <1>3 DEF Inv, TypeOK, NoFuture, AllGood

LEMMA TickStep ==
    ASSUME Inv, Tick PROVE Inv'
<1>1. clock \in Nat /\ clock' = clock + 1 /\ UNCHANGED <<unix, local, zset, ttl, log, slow, req>>
  BY DEF Inv, TypeOK, Tick
<1>2. ASSUME NEW k \in Key PROVE Book(local[k], log[k], clock + 1)
  BY <1>1, BookLater DEF Inv, TypeOK
<1>3. clock' \in Nat
  BY <1>1
<1>. QED
  BY <1>1, <1>2, <1>3 DEF Inv, TypeOK, NoFuture, AllGood

LEMMA SecondStep ==
    ASSUME Inv, Second PROVE Inv'
<1>1. unix \in Nat /\ unix' = unix + 1 /\ UNCHANGED <<clock, local, zset, ttl, log, slow, req>>
  BY DEF Inv, TypeOK, Second
<1>2. ASSUME NEW h \in Handler PROVE Good(req[h], unix + 1, slow)
  <2>1. req[h] \in Request /\ Good(req[h], unix, slow) /\ slow \in Nat
    BY DEF Inv, TypeOK, AllGood
  <2>2. unix + 1 \in Nat /\ unix <= unix + 1 /\ slow <= slow
    BY <1>1, <2>1
  <2>. QED
    BY <1>1, <2>1, <2>2, GoodLater
<1>3. ASSUME NEW k \in Key, NEW s \in zset[k] PROVE s <= unix + 1
  <2>1. s \in Nat /\ s <= unix
    BY DEF Inv, TypeOK, NoFuture
  <2>. QED
    BY <1>1, <2>1
<1>4. unix' \in Nat
  BY <1>1
<1>. QED
  BY <1>1, <1>2, <1>3, <1>4 DEF Inv, TypeOK, NoFuture, AllGood

\* A process that has just begun.
LEMMA EmptyBook ==
    ASSUME NEW now \in Nat PROVE Book(None, <<>>, now)
<1>1. Len(<<>>) = 0 /\ <<>> \in Seq(Nat) /\ MaxBurst \in Nat \ {0}
  BY StagesAssumption
<1>2. Ordered(<<>>, now) /\ Spread(<<>>)
  BY <1>1 DEF Ordered, Spread
<1>3. Rested(<<>>, now)
  <2>1. \A n \in Nat \ {0} : ~(1 > Bursts(n))
    BY Multiples
  <2>. QED
    BY <1>1, <2>1 DEF Rested, Apart
<1>. QED
  BY <1>1, <1>2, <1>3 DEF Book

LEMMA IdleGood ==
    ASSUME NEW k \in Key, NEW u \in Nat, NEW d, NEW zs,
           NEW rs, rs = [h \in Handler |-> Idle(k)]
    PROVE  rs \in [Handler -> Request] /\ AllGood(rs, zs, u, d)
<1>1. 1 \in DOMAIN Stages
  BY StagesAssumption
<1>2. Idle(k) \in Request /\ Good(Idle(k), u, d)
  BY <1>1 DEF Idle, Request, Good, RefusedLate
<1>3. \A Z : Fresh(Idle(k), Z, d)
  BY DEF Idle, Fresh
<1>. QED
  BY <1>2, <1>3 DEF AllGood

LEMMA RestartStep ==
    ASSUME Inv, Restart PROVE Inv'
<1>1. /\ local' = [k \in Key |-> None] /\ log' = [k \in Key |-> <<>>]
      /\ UNCHANGED <<clock, unix, zset, ttl, slow>> /\ clock \in Nat /\ unix \in Nat
  BY DEF Restart, Inv, TypeOK
<1>2. \A k \in Key : Book(local'[k], log'[k], clock)
  BY <1>1, EmptyBook
<1>3. PICK k \in Key : req' = [h \in Handler |-> Idle(k)]
  BY DEF Restart
<1>4. req' \in [Handler -> Request] /\ AllGood(req', zset, unix, slow)
  BY <1>1, <1>3, IdleGood
<1>5. local' \in [Key -> Counter \cup {None}] /\ log' \in [Key -> Seq(Nat)]
  BY <1>1
<1>. QED
  BY <1>1, <1>2, <1>4, <1>5 DEF Inv, TypeOK, NoFuture, AllGood

LEMMA InitInv ==
    ASSUME Init PROVE Inv
<1>1. /\ clock = 0 /\ unix = 0 /\ slow = 0 /\ local = [k \in Key |-> None]
      /\ zset = [k \in Key |-> {}] /\ ttl = [k \in Key |-> None]
      /\ log = [k \in Key |-> <<>>]
  BY DEF Init
<1>2. \A k \in Key : Book(local[k], log[k], clock)
  BY <1>1, EmptyBook
<1>3. PICK k \in Key : req = [h \in Handler |-> Idle(k)]
  BY DEF Init
<1>4. req \in [Handler -> Request] /\ AllGood(req, zset, unix, slow)
  BY <1>1, <1>3, IdleGood
<1>5. /\ local \in [Key -> Counter \cup {None}] /\ log \in [Key -> Seq(Nat)]
      /\ zset \in [Key -> SUBSET Nat] /\ ttl \in [Key -> Nat \cup {None}]
      /\ NoFuture
  BY <1>1 DEF NoFuture
<1>. QED
  BY <1>1, <1>2, <1>4, <1>5 DEF Inv, TypeOK

LEMMA NextInv ==
    ASSUME Inv, [Next]_vars PROVE Inv'
<1>1. CASE UNCHANGED vars
  BY <1>1 DEF vars, Inv, TypeOK, NoFuture, AllGood
<1>2. ASSUME NEW h \in Handler, Serve(h) PROVE Inv'
  BY <1>2, BeginStep, ReadClockStep, TrimInRedisStep, CountInRedisStep,
     AddToRedisStep, ExpireInRedisStep, CountInMemoryStep DEF Serve
<1>. QED
  BY <1>1, <1>2, ExpireKeyStep, CleanupStep, TickStep, SecondStep, RestartStep DEF Next

\* Inv is inductive: it holds in every state of the limiter.
THEOREM Invariance == Spec => []Inv
<1>. QED
  BY InitInv, NextInv, PTL DEF Spec

-----------------------------------------------------------------------------
(* The properties *)

\* Counters, scores, expiries and requests keep their types; in particular no
\* count in memory exceeds the largest burst (isAllowedLocal).
THEOREM TypeCorrect == Spec => []TypeOK
<1>1. Inv => TypeOK
  BY DEF Inv
<1>. QED
  BY <1>1, Invariance, PTL

\* In any span of n windows the count in memory lets at most n + 1 bursts of a key
\* through: a window's end may double the rate once, never again and again.
BurstPerWindow ==
    \A k \in Key : \A n \in Nat \ {0} : \A i \in DOMAIN log[k] :
        i + (n + 1) * MaxBurst \in DOMAIN log[k] =>
            log[k][i + (n + 1) * MaxBurst] > log[k][i] + n * MinWindow

\* However long the process runs, fixed windows keep the rate that the limits
\* state, but for one burst (isAllowedLocal, cleanupLoop).
THEOREM LongRun == Spec => []BurstPerWindow
<1>1. Inv => BurstPerWindow
  <2>1. ASSUME Inv, NEW k \in Key, NEW n \in Nat \ {0}, NEW i \in DOMAIN log[k],
               i + (n + 1) * MaxBurst \in DOMAIN log[k]
        PROVE  log[k][i + (n + 1) * MaxBurst] > log[k][i] + n * MinWindow
    <3>1. log[k] \in Seq(Nat) /\ Spread(log[k])
      BY <2>1 DEF Inv, Book
    <3>2. DOMAIN log[k] = 1..Len(log[k]) /\ Len(log[k]) \in Nat
      BY <3>1
    <3>3. i \in 1..Len(log[k]) /\ i + (n + 1) * MaxBurst \in 1..Len(log[k])
      BY <2>1, <3>2
    <3>4. i + (n + 1) * MaxBurst <= Len(log[k])
      BY <3>2, <3>3
    <3>. QED
      BY <3>1, <3>3, <3>4 DEF Spread, Bursts, Windows
  <2>. QED
    BY <2>1 DEF BurstPerWindow
<1>. QED
  BY <1>1, Invariance, PTL

\* The count in memory lets at most two bursts of a key through in any span of
\* one window (isAllowedLocal, cleanupLoop), for every list of stages.
THEOREM AtMostTwoBursts == Spec => []TwoBursts
<1>1. BurstPerWindow => TwoBursts
  <2>1. ASSUME BurstPerWindow, NEW k \in Key, NEW i \in DOMAIN log[k],
               i + 2 * MaxBurst \in DOMAIN log[k]
        PROVE  log[k][i + 2 * MaxBurst] > log[k][i] + MinWindow
    <3>1. 1 \in Nat \ {0} /\ (1 + 1) * MaxBurst = 2 * MaxBurst /\ 1 * MinWindow = MinWindow
      BY StagesAssumption
    <3>2. i + (1 + 1) * MaxBurst \in DOMAIN log[k]
            => log[k][i + (1 + 1) * MaxBurst] > log[k][i] + 1 * MinWindow
      BY <2>1, <3>1, Zenon DEF BurstPerWindow
    <3>. QED
      BY <2>1, <3>1, <3>2
  <2>. QED
    BY <2>1 DEF TwoBursts
<1>. QED
  BY <1>1, LongRun, PTL

\* Redis refuses only once some request took, between reading the clock and
\* counting or adding, as long as the burst exceeds the window (isAllowedRedis).
THEOREM RefusedSlow == Spec => []RefusedOnlyIfSlow
<1>1. Inv => RefusedOnlyIfSlow
  BY DEF Inv, AllGood, Good, RefusedLate, RefusedOnlyIfSlow, Limits
<1>. QED
  BY <1>1, Invariance, PTL

-----------------------------------------------------------------------------
\* A full counter that is running has let a burst pass within the window.
LEMMA FullHasPassed ==
    ASSUME NEW c \in Counter, NEW lg, NEW now \in Nat, Book(c, lg, now),
           NEW b \in Nat \ {0}, NEW w \in Nat, c.count >= b, now - c.window <= w
    PROVE  Len(lg) - b + 1 >= 1 /\ lg[Len(lg) - b + 1] >= now - w
<1> DEFINE n == Len(lg)
           m == c.count
           first == First(lg, c.count)
           last == n - b + 1
<1>1. /\ lg \in Seq(Nat) /\ n \in Nat /\ m \in Nat \ {0} /\ c.window \in Nat
      /\ c # None /\ m >= b
  BY StagesAssumption, NoneAssumption DEF Book, Counter
<1>2. m <= n /\ lg[first] = c.window /\ first = n - m + 1
  BY <1>1 DEF Book, Counts, First
<1> HIDE DEF n, m, first
<1>3. first \in 1..n /\ last \in 1..n /\ first <= last
  BY <1>1, <1>2
<1> HIDE DEF first, last
<1>4. lg[first] <= lg[last] /\ lg[last] \in Nat
  BY <1>1, <1>3 DEF Book, Ordered, n
<1>5. lg[last] >= now - w
  BY <1>1, <1>2, <1>4
<1>6. last >= 1
  BY <1>1, <1>3
<1>. QED
  BY <1>5, <1>6 DEF last, n

\* Only the step that refuses in memory answers "local_full".
LEMMA OnlyCountRefuses ==
    ASSUME Inv, Next, NEW h \in Handler, At(h, "local"), req'[h].reply = "local_full"
    PROVE  CountInMemory(h)
<1>1. req[h] \in Request /\ req[h].reply = "none" /\ req[h].pc = "local"
      /\ req \in [Handler -> Request]
  BY DEF Inv, AllGood, TypeOK, Good, At
<1>2. req' # req
  BY <1>1
<1>3. ASSUME NEW g \in Handler, Serve(g), g # h PROVE FALSE
  <2>1. \E r : Step(g, r)
    BY <1>3, Zenon DEF Serve, Begin, ReadClock, TrimInRedis, CountInRedis, AddToRedis,
       ExpireInRedis, CountInMemory, Pass, Refuse, Goto
  <2>. QED
    BY <1>1, <1>3, <2>1 DEF Step
<1>4. ASSUME Restart PROVE FALSE
  BY <1>4 DEF Restart, Idle
<1>5. PICK g \in Handler : Serve(g)
  BY <1>2, <1>4 DEF Next, ExpireKey, Cleanup, Tick, Second
<1>6. Serve(h)
  BY <1>3, <1>5
<1>. QED
  BY <1>1, <1>6 DEF Serve, Begin, ReadClock, TrimInRedis, CountInRedis, AddToRedis,
     ExpireInRedis, At

\* The count in memory refuses only after a whole burst of the key within the
\* window up to now (isAllowedLocal), whatever the other requests, the cleanup
\* and the stages that share the counter do.
THEOREM RefusedFull == Spec => RefusedOnlyWhenFull
<1> DEFINE Ok == \A h \in Handler :
                     At(h, "local") /\ req'[h].reply = "local_full" =>
                         LET passed == log[req[h].key]
                             first == Len(passed) - Limits(h).burst + 1
                         IN first >= 1 /\ passed[first] >= clock - Limits(h).window
<1>1. ASSUME Inv, Next PROVE Ok
  <2>1. ASSUME NEW h \in Handler, At(h, "local"), req'[h].reply = "local_full"
        PROVE  LET passed == log[req[h].key]
                   first == Len(passed) - Limits(h).burst + 1
               IN first >= 1 /\ passed[first] >= clock - Limits(h).window
    <3> DEFINE c == local[req[h].key]
               st == Limits(h)
    <3>1. /\ req[h] \in Request /\ req[h].reply = "none" /\ req[h].key \in Key
          /\ st \in Stage /\ clock \in Nat /\ c \in Counter \cup {None}
          /\ Book(c, log[req[h].key], clock) /\ req \in [Handler -> Request]
      BY <1>1, <2>1, LimitsHold DEF Inv, AllGood, TypeOK, Request, Good, At
    <3>2. CountInMemory(h)
      BY <1>1, <2>1, OnlyCountRefuses
    <3>3. ~Pass(h)
      BY <2>1, <3>1 DEF Pass, Step, Request
    <3>4. Running(c, st.window) /\ Full(c, st.burst)
      BY <3>2, <3>3 DEF CountInMemory
    <3>5. c \in Counter /\ clock - c.window <= st.window /\ c.count >= st.burst
          /\ st.burst \in Nat \ {0} /\ st.window \in Nat
      BY <3>1, <3>4 DEF Running, Full, Stage
    <3> HIDE DEF c, st
    <3>6. Len(log[req[h].key]) - st.burst + 1 >= 1
          /\ log[req[h].key][Len(log[req[h].key]) - st.burst + 1] >= clock - st.window
      BY <3>1, <3>5, FullHasPassed
    <3>. QED
      BY <3>6 DEF st
  <2>. QED
    BY <2>1
<1>2. ASSUME Inv, UNCHANGED vars PROVE Ok
  BY <1>2 DEF Inv, AllGood, Good, At, vars
<1>3. Inv /\ [Next]_vars => [Ok]_vars
  BY <1>1, <1>2
<1>4. [][Ok]_vars => RefusedOnlyWhenFull
  BY DEF RefusedOnlyWhenFull
<1>. QED
  BY <1>3, <1>4, Invariance, PTL DEF Spec
=============================================================================
