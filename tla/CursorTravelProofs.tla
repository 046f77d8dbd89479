------------------------- MODULE CursorTravelProofs -------------------------
(***************************************************************************)
(* Type correctness of CursorTravel, that the pointer of a controller      *)
(* stays, and that a pointer enters in line, for screens of any size, any  *)
(* number of devices of either system and any movements.                   *)
(***************************************************************************)
EXTENDS CursorTravel, SequenceTheorems, TLAPS

-----------------------------------------------------------------------------
(* Arithmetic *)

LEMMA Quotient ==
    ASSUME NEW a \in Nat, NEW b \in Nat \ {0}
    PROVE  /\ a \div b \in Nat
           /\ (a \div b) * b <= a
           /\ a < (a \div b) * b + b
<1>1. a \div b \in Int
  OBVIOUS
<1>2. (a \div b) * b <= a /\ a < (a \div b) * b + b
  OBVIOUS
<1>3. a \div b >= 0
  BY <1>1
<1>4. QED
  BY <1>1, <1>2, <1>3

LEMMA TimesGrows ==
    ASSUME NEW i \in Int, NEW j \in Int, NEW k \in Nat, i <= j
    PROVE  i * k <= j * k
OBVIOUS

LEMMA ClampFacts ==
    ASSUME NEW i \in Int, NEW n \in Nat \ {0}
    PROVE  /\ Clamp(i, n) \in 0 .. n - 1
           /\ i >= 0 => Clamp(i, n) = Least(i, n - 1)
           /\ i <= 0 => Clamp(i, n) = 0
           /\ i >= n => Clamp(i, n) = n - 1
BY DEF Clamp, Least

(***************************************************************************)
(* Where pixel i of m pixels enters n pixels, its position being i of u:   *)
(* u is the last pixel of the m on Windows, and their number on macOS.     *)
(***************************************************************************)
(* Only on a longer edge can the pixel entered be the later one. *)
LEMMA AheadOfSource ==
    ASSUME NEW m \in Nat \ {0}, NEW n \in Nat \ {0}, NEW i \in 0 .. m - 1, NEW q \in Nat,
           q > i, 2 * (q * m) <= 2 * (i * n) + m
    PROVE  n > m /\ q - i <= n - m
<1>1. i \in Int /\ q * m \in Int /\ i * n \in Int /\ i * m \in Int
  OBVIOUS
<1>2. n > m
  <2>1. SUFFICES ASSUME n <= m PROVE FALSE
    BY <1>1
  <2>2. i * n <= i * m /\ (i + 1) * m <= q * m /\ (i + 1) * m = i * m + m
    BY <1>1, <2>1
  <2>3. QED
    BY <1>1, <2>2
<1>3. q - i <= n - m
  <2>1. SUFFICES ASSUME q >= n - m + 1 + i PROVE FALSE
    BY <1>1, <1>2
  <2>2. (n - m + 1 + i) * m <= q * m
    BY <1>1, <2>1, <1>2, TimesGrows
  <2>3. (n - m + 1 + i) * m = (n - m) * m + m + i * m
    BY <1>1, <1>2
  <2>4. i * (n - m) <= (m - 1) * (n - m)
    BY <1>1, <1>2, TimesGrows
  <2>5. i * (n - m) = i * n - i * m /\ (m - 1) * (n - m) = (n - m) * m - (n - m)
    BY <1>1, <1>2
  <2>6. (n - m) * m \in Int
    BY <1>1, <1>2
  <2>7. QED
    BY <1>1, <1>2, <2>2, <2>3, <2>4, <2>5, <2>6
<1>4. QED
  BY <1>2, <1>3

(* macOS truncates i * n / u to q, and keeps q on the screen. *)
LEMMA TruncatedInLine ==
    ASSUME NEW m \in Nat \ {0}, NEW n \in Nat \ {0}, NEW i \in 0 .. m - 1, NEW q \in Nat,
           NEW u \in {m - 1, m}, u >= 1, q * u <= i * n, i * n < q * u + u
    PROVE  /\ - Greatest(m, n) <= i * (n - 1) - Least(q, n - 1) * (m - 1)
           /\ i * (n - 1) - Least(q, n - 1) * (m - 1) <= Greatest(m, n)
<1> DEFINE apart == i * (n - 1) - Least(q, n - 1) * (m - 1)
<1> SUFFICES - Greatest(m, n) <= apart /\ apart <= Greatest(m, n)
  OBVIOUS
<1>1. /\ i \in Int /\ u \in Nat /\ m - 1 \in Nat /\ n - 1 \in Nat
      /\ i * (n - 1) = i * n - i
      /\ i * n <= (m - 1) * n
  BY TimesGrows
<1>2. CASE q <= n - 1
  <2>1. apart = i * n - i - q * (m - 1)
    BY <1>1, <1>2 DEF Least
  <2>2. CASE u = m - 1
    BY <1>1, <2>1, <2>2 DEF Greatest
  <2>3. CASE u = m
    <3>1. apart = (i * n - q * m) + (q - i)
      BY <1>1, <2>1
    <3>2. CASE q <= i
      BY <1>1, <2>3, <3>1, <3>2 DEF Greatest
    <3>3. CASE q > i
      <4>1. 2 * (q * m) <= 2 * (i * n) + m
        BY <1>1, <2>3
      <4>2. n > m /\ q - i <= n - m
        BY <3>3, <4>1, AheadOfSource
      <4>3. QED
        BY <1>1, <2>3, <3>1, <3>3, <4>2 DEF Greatest
    <3>4. QED
      BY <3>2, <3>3
  <2>4. QED
    BY <2>2, <2>3
<1>3. CASE q >= n
  <2>1. n * u <= q * u
    BY <1>1, <1>3, TimesGrows
  <2>2. CASE u = m
    <3>1. (m - 1) * n = n * m - n
      OBVIOUS
    <3>2. QED
      BY <1>1, <2>1, <2>2, <3>1
  <2>3. CASE u = m - 1
    <3>1. i = m - 1
      <4>1. SUFFICES ASSUME i <= m - 2 PROVE FALSE
        BY <1>1
      <4>2. i * n <= (m - 2) * n /\ (m - 2) * n = (m - 1) * n - n /\ (m - 1) * n = n * (m - 1)
        BY <4>1, TimesGrows
      <4>3. QED
        BY <1>1, <2>1, <2>3, <4>2
    <3>2. apart = 0
      BY <1>1, <1>3, <3>1 DEF Least
    <3>3. QED
      BY <3>2 DEF Greatest
  <2>4. QED
    BY <2>2, <2>3
<1>4. QED
  BY <1>2, <1>3

(* Windows rounds i * n / u to q, and keeps q on the screen. *)
LEMMA RoundedInLine ==
    ASSUME NEW m \in Nat \ {0}, NEW n \in Nat \ {0}, NEW i \in 0 .. m - 1, NEW q \in Nat,
           NEW u \in {m - 1, m}, u >= 1,
           2 * (q * u) <= 2 * (i * n) + u, 2 * (i * n) < 2 * (q * u) + u
    PROVE  /\ - 3 * Greatest(m, n) <= 2 * (i * (n - 1) - Least(q, n - 1) * (m - 1))
           /\ 2 * (i * (n - 1) - Least(q, n - 1) * (m - 1)) <= 3 * Greatest(m, n)
<1> DEFINE apart == i * (n - 1) - Least(q, n - 1) * (m - 1)
<1> SUFFICES - 3 * Greatest(m, n) <= 2 * apart /\ 2 * apart <= 3 * Greatest(m, n)
  OBVIOUS
<1>1. /\ i \in Int /\ u \in Nat /\ m - 1 \in Nat /\ n - 1 \in Nat
      /\ i * (n - 1) = i * n - i
      /\ i * n <= (m - 1) * n
  BY TimesGrows
<1>2. CASE q <= n - 1
  <2>1. apart = i * n - i - q * (m - 1)
    BY <1>1, <1>2 DEF Least
  <2>2. CASE u = m - 1
    BY <1>1, <2>1, <2>2 DEF Greatest
  <2>3. CASE u = m
    <3>1. apart = (i * n - q * m) + (q - i)
      BY <1>1, <2>1
    <3>2. CASE q <= i
      BY <1>1, <2>3, <3>1, <3>2 DEF Greatest
    <3>3. CASE q > i
      <4>1. 2 * (q * m) <= 2 * (i * n) + m
        BY <1>1, <2>3
      <4>2. n > m /\ q - i <= n - m
        BY <3>3, <4>1, AheadOfSource
      <4>3. QED
        BY <1>1, <2>3, <3>1, <3>3, <4>2 DEF Greatest
    <3>4. QED
      BY <3>2, <3>3
  <2>4. QED
    BY <2>2, <2>3
<1>3. CASE q >= n
  <2>1. n * u <= q * u
    BY <1>1, <1>3, TimesGrows
  <2>2. apart = - ((m - 1 - i) * (n - 1))
    BY <1>1, <1>3 DEF Least
  <2>3. (m - 1 - i) * (n - 1) >= 0 /\ (m - 1 - i) * (n - 1) <= (m - 1 - i) * n
    BY <1>1
  <2>4. (m - 1 - i) * n = (m - 1) * n - i * n
    BY <1>1
  <2>5. 2 * ((m - 1 - i) * n) <= u
    <3>1. (m - 1) * n <= n * u
      BY <1>1
    <3>2. QED
      BY <1>1, <2>1, <2>4, <3>1
  <2>6. QED
    BY <1>1, <2>2, <2>3, <2>5 DEF Greatest
<1>4. QED
  BY <1>2, <1>3

-----------------------------------------------------------------------------
(* Geometry *)

LEMMA Sizes ==
    ASSUME NEW d \in Device
    PROVE  /\ Width[d] \in Nat \ {0} /\ Height[d] \in Nat \ {0}
           /\ Screen(d) \subseteq Point
           /\ \A at \in Screen(d) :
                 /\ at = <<at[1], at[2]>>
                 /\ at[1] \in 0 .. Width[d] - 1 /\ at[2] \in 0 .. Height[d] - 1
<1>1. Width[d] \in Nat \ {0} /\ Height[d] \in Nat \ {0}
  BY TravelAssumption
<1>2. QED
  BY <1>1 DEF Screen, Point

LEMMA Edges ==
    /\ ScreenEdge = {"Left", "Right", "Top", "Bottom"}
    /\ \A e \in ScreenEdge : /\ Opposite[e] \in ScreenEdge
                             /\ Sideways(Opposite[e]) = Sideways(e)
    /\ NoEdge \notin ScreenEdge
BY TravelAssumption DEF Opposite, Sideways, NoEdge

LEMMA OnScreenTyped ==
    ASSUME NEW d \in Device, NEW x \in Int, NEW y \in Int
    PROVE  /\ OnScreen(d, <<x, y>>) = <<Clamp(x, Width[d]), Clamp(y, Height[d])>>
           /\ OnScreen(d, <<x, y>>) \in Screen(d)
BY Sizes, ClampFacts DEF OnScreen, Screen

LEMMA MovedOnScreen ==
    ASSUME NEW d \in Device, NEW at \in Point, NEW by \in Movement
    PROVE  OnScreen(d, Moved(at, by)) \in Screen(d)
<1>1. at[1] + by[1] \in Int /\ at[2] + by[2] \in Int
  BY TravelAssumption DEF Point
<1>2. QED
  BY <1>1, OnScreenTyped DEF Moved

(* A position is i of u, and u is one of the two ways to count m pixels. *)
LEMMA FractionFacts ==
    ASSUME NEW p \in Device, NEW m \in Nat \ {0}, NEW i \in 0 .. m - 1
    PROVE  LET f == Fraction(i, Extent(p, m))
           IN  /\ f \in Along
               /\ f.over = i
               /\ m > 1 => f.under \in {m - 1, m}
BY DEF Fraction, Extent, Along, Least

LEMMA PositionTyped ==
    ASSUME NEW d \in Device, NEW e \in ScreenEdge, NEW at \in Screen(d)
    PROVE  Position(d, e, at) \in Along
BY Sizes, FractionFacts DEF Position

LEMMA ScaledFacts ==
    ASSUME NEW d \in Device, NEW f \in Along, NEW n \in Nat \ {0}
    PROVE  LET q == Scaled(d, f, n)
           IN  /\ q \in Nat
               /\ d \in Mac => /\ q * f.under <= f.over * n
                             /\ f.over * n < q * f.under + f.under
               /\ d \notin Mac => /\ 2 * (q * f.under) <= 2 * (f.over * n) + f.under
                                /\ 2 * (f.over * n) < 2 * (q * f.under) + f.under
<1> DEFINE i == f.over
           u == f.under
           q == Scaled(d, f, n)
<1>1. i \in Nat /\ u \in Nat \ {0}
  BY DEF Along
<1>2. CASE d \in Mac
  <2>1. q = (i * n) \div u /\ i * n \in Nat
    BY <1>1, <1>2 DEF Scaled
  <2>2. QED
    BY <1>1, <1>2, <2>1, Quotient
<1>3. CASE d \notin Mac
  <2>1. q = (2 * i * n + u) \div (2 * u) /\ 2 * i * n + u \in Nat /\ 2 * u \in Nat \ {0}
    BY <1>1, <1>3 DEF Scaled
  <2>2. q \in Nat /\ q * (2 * u) <= 2 * i * n + u /\ 2 * i * n + u < q * (2 * u) + 2 * u
    BY <2>1, Quotient
  <2>3. q * (2 * u) = 2 * (q * u) /\ 2 * i * n = 2 * (i * n)
    BY <1>1, <2>2
  <2>4. QED
    BY <1>1, <1>3, <2>2, <2>3
<1>4. QED
  BY <1>2, <1>3

LEMMA EntryPointFacts ==
    ASSUME NEW d \in Device, NEW e \in ScreenEdge, NEW f \in Along
    PROVE  /\ EntryPoint(d, e, f) \in Screen(d)
           /\ OnEdge(d, e, EntryPoint(d, e, f))
           /\ Sideways(e) => EntryPoint(d, e, f)[2] = Clamp(Scaled(d, f, Height[d]), Height[d])
           /\ ~ Sideways(e) => EntryPoint(d, e, f)[1] = Clamp(Scaled(d, f, Width[d]), Width[d])
<1>1. Width[d] \in Nat \ {0} /\ Height[d] \in Nat \ {0}
  BY Sizes
<1>2. Scaled(d, f, Height[d]) \in Nat /\ Scaled(d, f, Width[d]) \in Nat
  BY <1>1, ScaledFacts
<1>3. Clamp(0, Width[d]) = 0 /\ Clamp(0, Height[d]) = 0
      /\ Clamp(Width[d], Width[d]) = Width[d] - 1 /\ Clamp(Height[d], Height[d]) = Height[d] - 1
  BY <1>1, ClampFacts
<1>4. CASE e = "Left"
  BY <1>1, <1>2, <1>3, <1>4, OnScreenTyped DEF EntryPoint, OnEdge, Sideways
<1>5. CASE e = "Right"
  BY <1>1, <1>2, <1>3, <1>5, OnScreenTyped DEF EntryPoint, OnEdge, Sideways
<1>6. CASE e = "Top"
  BY <1>1, <1>2, <1>3, <1>6, OnScreenTyped DEF EntryPoint, OnEdge, Sideways
<1>7. CASE e = "Bottom"
  BY <1>1, <1>2, <1>3, <1>7, OnScreenTyped DEF EntryPoint, OnEdge, Sideways
<1>8. QED
  BY <1>4, <1>5, <1>6, <1>7, Edges

(* What is left at pixel i of p's m pixels is entered in line on d's n. *)
LEMMA ScaledInLine ==
    ASSUME NEW d \in Device, NEW p \in Device, NEW m \in Nat \ {0}, NEW n \in Nat \ {0},
           NEW i \in 0 .. m - 1
    PROVE  InLine(i, m, d, Clamp(Scaled(d, Fraction(i, Extent(p, m)), n), n), n)
<1> DEFINE f == Fraction(i, Extent(p, m))
<1>1. f \in Along /\ f.over = i /\ f.under \in Nat \ {0} /\ (m > 1 => f.under \in {m - 1, m})
  BY FractionFacts DEF Along
<1>2. PICK u \in Nat \ {0} : u = f.under
  BY <1>1
<1>3. PICK q \in Nat : q = Scaled(d, f, n)
  BY <1>1, ScaledFacts
<1> DEFINE apart == i * (n - 1) - Least(q, n - 1) * (m - 1)
           slack == (IF d \in Mac THEN 2 ELSE 3) * Greatest(m, n)
<1>4. SUFFICES - slack <= 2 * apart /\ 2 * apart <= slack
  BY <1>3, ClampFacts DEF InLine
<1>5. CASE m = 1
  BY <1>5 DEF Greatest, Least
<1>6. CASE m > 1 /\ d \in Mac
  <2>1. u \in {m - 1, m} /\ u >= 1 /\ q * u <= i * n /\ i * n < q * u + u
    BY <1>1, <1>2, <1>3, <1>6, ScaledFacts
  <2>2. - Greatest(m, n) <= apart /\ apart <= Greatest(m, n)
    BY <2>1, TruncatedInLine, Zenon
  <2>3. apart \in Int /\ Greatest(m, n) \in Int
    BY DEF Least, Greatest
  <2>4. slack = 2 * Greatest(m, n)
    BY <1>6
  <2> HIDE DEF apart, slack
  <2>5. QED
    BY <2>2, <2>3, <2>4
<1>7. CASE m > 1 /\ d \notin Mac
  <2>1. u \in {m - 1, m} /\ u >= 1 /\ 2 * (q * u) <= 2 * (i * n) + u /\ 2 * (i * n) < 2 * (q * u) + u
    BY <1>1, <1>2, <1>3, <1>7, ScaledFacts
  <2>2. - 3 * Greatest(m, n) <= 2 * apart /\ 2 * apart <= 3 * Greatest(m, n)
    BY <2>1, RoundedInLine, Zenon
  <2>3. apart \in Int /\ Greatest(m, n) \in Int
    BY DEF Least, Greatest
  <2>4. slack = 3 * Greatest(m, n)
    BY <1>7
  <2> HIDE DEF apart, slack
  <2>5. QED
    BY <2>2, <2>3, <2>4
<1>8. QED
  BY <1>5, <1>6, <1>7

-----------------------------------------------------------------------------
(* The inductive invariant *)

(***************************************************************************)
(* What an event of d's channel says of where the pointer was: a position  *)
(* is that of the pixel it was taken at, and an EdgeEnter comes from the   *)
(* opposite edge of a device whose layout leads to d from there.           *)
(***************************************************************************)
Honest(d) ==
    {e \in Event :
        /\ e.kind = "LocalCursorAtEdge" =>
               e.from \in Screen(d) /\ e.position = Position(d, e.edge, e.from)
        /\ e.kind = "EdgeEnter" =>
               \E f \in ScreenEdge :
                   /\ Resolve[e.from][f] = d
                   /\ e.edge = Opposite[f]
                   /\ e.left \in Screen(e.from)
                   /\ e.position = Position(e.from, f, e.left)}

Letters(d) == Mail \cap Honest(d)

EventsHonest ==
    /\ \A d \in Device : channel[d] \in Seq(Honest(d))
    /\ \A dp \in Pair : net[dp] \in Seq(Letters(dp[2]))

(* Pass-through is off exactly while Controlling. *)
PassThroughFollows ==
    \A d \in Device : passThrough[d] <=> state[d].role # "Controlling"

Inv == TypeOK /\ EventsHonest /\ PassThroughFollows

LEMMA SeqWithin ==
    ASSUME NEW S, NEW T, S \subseteq T, NEW q \in Seq(S)
    PROVE  q \in Seq(T)
<1>1. \A i \in 1 .. Len(q) : q[i] \in T
  BY ElementOfSeq
<1>2. Len(q) \in Nat /\ q = [i \in 1 .. Len(q) |-> q[i]]
  BY LenProperties
<1>3. QED
  BY <1>1, <1>2, IsASeq

LEMMA PairFacts ==
    ASSUME NEW d \in Device, NEW p \in Device
    PROVE  /\ <<d, p>> \in Pair <=> d # p
           /\ <<d, p>>[1] = d /\ <<d, p>>[2] = p
BY DEF Pair

LEMMA PairTyped ==
    ASSUME NEW dp \in Pair
    PROVE  dp[1] \in Device /\ dp[2] \in Device /\ dp = <<dp[1], dp[2]>>
BY DEF Pair

(* An event of each kind has that kind's fields. *)
LEMMA EventKinds ==
    ASSUME NEW d \in Device, NEW e \in Honest(d)
    PROVE  /\ e.kind = "LocalMouseMove" => e.by \in Movement
           /\ e.kind = "LocalCursorAtEdge" =>
                 /\ e.edge \in ScreenEdge /\ e.position \in Along
                 /\ e.from \in Screen(d) /\ e.position = Position(d, e.edge, e.from)
           /\ e.kind = "EdgeEnter" =>
                 e.from \in Device /\ e.edge \in ScreenEdge /\ e.position \in Along
           /\ e.kind \in {"EdgeRelease", "EdgeEnterRejected"} => e.from \in Device
           /\ e.kind = "Input" => e.from \in Device /\ e.by \in Movement
BY DEF Honest, Event, Mail

-----------------------------------------------------------------------------
(* The capture thread *)

LEMMA DetectEdgeTyped ==
    ASSUME NEW d \in Device, NEW at
    PROVE  DetectEdge(d, at) \in ScreenEdge \cup {NoEdge}
BY Edges DEF DetectEdge

LEMMA ReportsHonest ==
    ASSUME NEW d \in Device, NEW by \in Movement, NEW at \in Screen(d), NEW own \in BOOLEAN,
           NEW q \in Reports(d, by, at, own)
    PROVE  q \in Seq(Honest(d))
<1> DEFINE edge == DetectEdge(d, at)
           mv == MouseMove(by)
           cr == CursorAtEdge(edge, Position(d, edge, at), at, own)
<1>1. mv \in Honest(d)
  BY DEF MouseMove, Honest, Event
<1>2. CASE edge = NoEdge
  <2>1. q = <<mv>>
    BY <1>2 DEF Reports
  <2>2. QED
    BY <1>1, <2>1
<1>3. CASE edge \in ScreenEdge
  <2>1. at \in Point /\ Position(d, edge, at) \in Along
    BY <1>3, Sizes, PositionTyped
  <2>2. cr \in Honest(d)
    BY <1>3, <2>1 DEF CursorAtEdge, Honest, Event
  <2>3. q = <<mv>> \o <<cr>> \/ q = <<cr>> \o <<mv>>
    BY <1>3, Edges DEF Reports
  <2> HIDE DEF mv, cr
  <2>4. <<mv>> \in Seq(Honest(d)) /\ <<cr>> \in Seq(Honest(d))
    BY <1>1, <2>2
  <2>5. QED
    BY <2>3, <2>4, ConcatProperties
<1>4. QED
  BY <1>2, <1>3, DetectEdgeTyped

LEMMA CaptureKeeps ==
    ASSUME Inv, NEW d \in Device, NEW by \in Movement, NEW at \in Screen(d), NEW own \in BOOLEAN,
           Capture(d, by, at, own)
    PROVE  /\ cursor' \in [Device -> Point] /\ \A x \in Device : cursor'[x] \in Screen(x)
           /\ channel' \in [Device -> Seq(Event)]
           /\ EventsHonest'
           /\ PassThroughFollows'
<1>1. PICK q \in Reports(d, by, at, own) : channel' = [channel EXCEPT ![d] = @ \o q]
  BY DEF Capture
<1>2. q \in Seq(Honest(d))
  BY ReportsHonest
<1>3. channel[d] \o q \in Seq(Honest(d))
  BY <1>2, ConcatProperties DEF Inv, EventsHonest
<1>4. \A x \in Device : channel'[x] \in Seq(Honest(x))
  BY <1>1, <1>3 DEF Inv, TypeOK, EventsHonest
<1>5. \A x \in Device : channel'[x] \in Seq(Event)
  BY <1>4, SeqWithin DEF Honest
<1>6. channel' \in [Device -> Seq(Event)]
  BY <1>1, <1>5 DEF Inv, TypeOK
<1>7. at \in Point
  BY Sizes
<1>8. QED
  BY <1>4, <1>6, <1>7 DEF Capture, Inv, TypeOK, EventsHonest, PassThroughFollows

-----------------------------------------------------------------------------
(* The event task *)

LEMMA LocalStateFacts ==
    ASSUME NEW s \in LocalState
    PROVE  /\ s = Idle \/ (s.peer \in Device /\ (s = Controlling(s.peer) \/ s = BeingControlled(s.peer)))
           /\ s.role \in {"Idle", "Controlling", "BeingControlled"}
           /\ s.role = "Idle" => s = Idle
           /\ s.role = "Controlling" => s.peer \in Device
BY DEF LocalState, Idle, Controlling, BeingControlled

(* What the handlers return in state s keeps pass-through in step with it. *)
InStep(s, r) ==
    /\ r.state \in LocalState
    /\ ((r.pass = "enable") \/ (s.role # "Controlling" /\ r.pass # "disable"))
          <=> r.state.role # "Controlling"

LEMMA HandlersInStep ==
    ASSUME NEW s \in LocalState, NEW d \in Device, NEW p \in Device, NEW e \in ScreenEdge
    PROVE  /\ InStep(s, ForwardIfControlling(s))
           /\ InStep(s, OnLocalCursorAtEdge(d, s, e))
           /\ InStep(s, OnPeerEdgeEnter(s, p))
           /\ InStep(s, OnPeerEdgeRelease(s, p))
           /\ InStep(s, OnPeerEdgeEnterRejected(s, p))
           /\ InStep(s, OnPeerInputMessage(s, p))
<1> USE DEF InStep, Outcome, Ignored
<1>1. /\ Idle \in LocalState /\ Idle.role = "Idle"
      /\ \A x \in Device : /\ Controlling(x) \in LocalState /\ Controlling(x).role = "Controlling"
                           /\ BeingControlled(x) \in LocalState
                           /\ BeingControlled(x).role = "BeingControlled"
  BY DEF LocalState, Idle, Controlling, BeingControlled
<1>2. InStep(s, ForwardIfControlling(s))
  BY DEF ForwardIfControlling
<1>3. InStep(s, OnLocalCursorAtEdge(d, s, e))
  <2>1. Resolve[d][e] = NoDevice \/ Resolve[d][e] \in Device
    BY DeviceAssumption
  <2>2. QED
    BY <1>1, <2>1 DEF OnLocalCursorAtEdge
<1>4. InStep(s, OnPeerEdgeEnter(s, p))
  BY <1>1 DEF OnPeerEdgeEnter
<1>5. InStep(s, OnPeerEdgeRelease(s, p)) /\ InStep(s, OnPeerEdgeEnterRejected(s, p))
  BY <1>1 DEF OnPeerEdgeRelease, OnPeerEdgeEnterRejected
<1>6. InStep(s, OnPeerInputMessage(s, p))
  BY DEF OnPeerInputMessage
<1>7. QED
  BY <1>2, <1>3, <1>4, <1>5, <1>6

(* To whom the handlers write, and what. *)
LEMMA HandlersMail ==
    ASSUME NEW s \in LocalState, NEW d \in Device, NEW p \in Device, NEW e \in ScreenEdge
    PROVE  /\ LET r == ForwardIfControlling(s) IN r.mail = NoMail \/ r.mail.to \in Device
           /\ LET r == OnLocalCursorAtEdge(d, s, e)
              IN  \/ r.mail = NoMail
                  \/ /\ r.mail.to = Resolve[d][e] /\ r.mail.to \in Device
                     /\ r.mail.body \in {"EdgeEnter", "EdgeRelease"}
           /\ LET r == OnPeerEdgeEnter(s, p)
              IN  r.mail = NoMail \/ (r.mail.to = p /\ r.mail.body = "EdgeEnterRejected")
           /\ OnPeerEdgeRelease(s, p).mail = NoMail
           /\ OnPeerEdgeEnterRejected(s, p).mail = NoMail
           /\ OnPeerInputMessage(s, p).mail = NoMail
<1> USE DEF Outcome, Ignored, SendMessage
<1>1. LET r == ForwardIfControlling(s) IN r.mail = NoMail \/ r.mail.to \in Device
  BY LocalStateFacts DEF ForwardIfControlling
<1>2. LET r == OnLocalCursorAtEdge(d, s, e)
      IN  \/ r.mail = NoMail
          \/ /\ r.mail.to = Resolve[d][e] /\ r.mail.to \in Device
             /\ r.mail.body \in {"EdgeEnter", "EdgeRelease"}
  <2>1. Resolve[d][e] = NoDevice \/ Resolve[d][e] \in Device
    BY DeviceAssumption
  <2>2. QED
    BY <2>1 DEF OnLocalCursorAtEdge
<1>3. LET r == OnPeerEdgeEnter(s, p)
      IN  r.mail = NoMail \/ (r.mail.to = p /\ r.mail.body = "EdgeEnterRejected")
  BY DEF OnPeerEdgeEnter
<1>4. OnPeerEdgeRelease(s, p).mail = NoMail /\ OnPeerEdgeEnterRejected(s, p).mail = NoMail
  BY DEF OnPeerEdgeRelease, OnPeerEdgeEnterRejected
<1>5. OnPeerInputMessage(s, p).mail = NoMail
  BY DEF OnPeerInputMessage
<1>6. QED
  BY <1>1, <1>2, <1>3, <1>4, <1>5

LEMMA ExecuteKeeps ==
    ASSUME Inv, NEW d \in Device, channel[d] # <<>>, NEW r, InStep(state[d], r), NEW message,
           r.mail # NoMail => r.mail.to \in Device /\ message \in Letters(r.mail.to),
           Execute(d, r, message)
    PROVE  /\ state' \in [Device -> LocalState]
           /\ passThrough' \in [Device -> BOOLEAN]
           /\ channel' \in [Device -> Seq(Event)]
           /\ net' \in [Pair -> Seq(Mail)]
           /\ EventsHonest'
           /\ PassThroughFollows'
<1>1. state' \in [Device -> LocalState] /\ passThrough' \in [Device -> BOOLEAN]
  BY DEF Execute, InStep, Inv, TypeOK
<1>2. PassThroughFollows'
  BY DEF Execute, InStep, Inv, TypeOK, PassThroughFollows
<1>3. \A x \in Device : channel'[x] \in Seq(Honest(x))
  <2>1. Tail(channel[d]) \in Seq(Honest(d))
    BY HeadTailProperties DEF Inv, EventsHonest
  <2>2. QED
    BY <2>1 DEF Execute, Inv, TypeOK, EventsHonest
<1>4. \A x \in Device : channel'[x] \in Seq(Event)
  BY <1>3, SeqWithin DEF Honest
<1>5. channel' \in [Device -> Seq(Event)]
  BY <1>4 DEF Execute, Inv, TypeOK
<1>6. \A dp \in Pair : net'[dp] \in Seq(Letters(dp[2]))
  <2>1. CASE r.mail = NoMail
    BY <2>1 DEF Execute, Inv, EventsHonest
  <2>2. CASE r.mail # NoMail
    <3>1. SUFFICES ASSUME NEW dp \in Pair PROVE net'[dp] \in Seq(Letters(dp[2]))
      OBVIOUS
    <3>2. net' = [net EXCEPT ![<<d, r.mail.to>>] = Append(@, message)] /\ net \in [Pair -> Seq(Mail)]
      BY <2>2 DEF Execute, Inv, TypeOK
    <3>3. net[dp] \in Seq(Letters(dp[2]))
      BY DEF Inv, EventsHonest
    <3>4. CASE dp = <<d, r.mail.to>>
      <4>1. message \in Letters(dp[2])
        BY <2>2, <3>4, PairFacts
      <4>2. Append(net[dp], message) \in Seq(Letters(dp[2]))
        BY <3>3, <4>1, AppendProperties
      <4>3. QED
        BY <3>2, <3>4, <4>2
    <3>5. CASE dp # <<d, r.mail.to>>
      BY <3>2, <3>3, <3>5
    <3>6. QED
      BY <3>4, <3>5
  <2>3. QED
    BY <2>1, <2>2
<1>7. \A dp \in Pair : net'[dp] \in Seq(Mail)
  <2>1. SUFFICES ASSUME NEW dp \in Pair PROVE net'[dp] \in Seq(Mail)
    OBVIOUS
  <2>2. Letters(dp[2]) \subseteq Mail
    BY DEF Letters
  <2>3. QED
    BY <1>6, <2>2, SeqWithin
<1>8. net' \in [Pair -> Seq(Mail)]
  BY <1>7 DEF Execute, Inv, TypeOK
<1>9. QED
  BY <1>1, <1>2, <1>3, <1>5, <1>6, <1>8 DEF EventsHonest

-----------------------------------------------------------------------------
(* One lemma per action *)

LEMMA InitInv == Init => Inv
<1>1. SUFFICES ASSUME Init PROVE Inv
  OBVIOUS
<1>2. ASSUME NEW d \in Device PROVE Start[d] \in Screen(d) /\ Start[d] \in Point
  <2>1. /\ Start[d] \in Nat \X Nat /\ Start[d] = <<Start[d][1], Start[d][2]>>
        /\ Start[d][1] < Width[d] /\ Start[d][2] < Height[d]
    BY TravelAssumption
  <2>2. Start[d][1] \in 0 .. Width[d] - 1 /\ Start[d][2] \in 0 .. Height[d] - 1
    BY <2>1, Sizes
  <2>3. QED
    BY <2>1, <2>2 DEF Screen, Point
<1>3. Idle \in LocalState /\ Idle.role = "Idle"
  BY DEF LocalState, Idle
<1>4. TypeOK
  BY <1>1, <1>2, <1>3, TravelAssumption DEF Init, TypeOK
<1>5. EventsHonest
  BY <1>1, PairTyped DEF Init, EventsHonest
<1>6. PassThroughFollows
  BY <1>1, <1>3 DEF Init, PassThroughFollows
<1>7. QED
  BY <1>4, <1>5, <1>6 DEF Inv

LEMMA MoveMouseKeeps ==
    ASSUME Inv, NEW d \in User, NEW by \in Movement, MoveMouse(d, by)
    PROVE  Inv'
<1>1. d \in Device
  BY TravelAssumption
<1>2. OnScreen(d, Moved(cursor[d], by)) \in Screen(d)
  BY <1>1, MovedOnScreen DEF Inv, TypeOK
<1>3. /\ cursor' \in [Device -> Point] /\ \A x \in Device : cursor'[x] \in Screen(x)
      /\ channel' \in [Device -> Seq(Event)]
      /\ EventsHonest' /\ PassThroughFollows'
      /\ UNCHANGED <<net, state, passThrough>>
  BY <1>1, <1>2, CaptureKeeps DEF MoveMouse, Capture
<1>4. moves' \in 0 .. MaxMoves
  BY TravelAssumption DEF MoveMouse, Inv, TypeOK
<1>5. UNCHANGED <<posted, homing>>
  BY DEF MoveMouse
<1>6. QED
  BY <1>3, <1>4, <1>5 DEF Inv, TypeOK

LEMMA TurnBackKeeps ==
    ASSUME Inv, NEW d \in User, TurnBack(d)
    PROVE  Inv'
BY DEF TurnBack, Inv, TypeOK, EventsHonest, PassThroughFollows

LEMMA CaptureInjectedKeeps ==
    ASSUME Inv, NEW d \in Device, CaptureInjected(d)
    PROVE  Inv'
<1> DEFINE move == Head(posted[d])
           from == IF d \in Mac THEN move.from ELSE cursor[d]
<1>1. posted[d] # <<>> /\ posted[d] \in Seq([by : Movement, from : Point])
  BY DEF CaptureInjected, Inv, TypeOK
<1>2. move \in [by : Movement, from : Point] /\ Tail(posted[d]) \in Seq([by : Movement, from : Point])
  BY <1>1, HeadTailProperties
<1>3. from \in Point /\ move.by \in Movement
  BY <1>2 DEF Inv, TypeOK
<1>4. OnScreen(d, Moved(from, move.by)) \in Screen(d)
  BY <1>3, MovedOnScreen
<1>5. /\ cursor' \in [Device -> Point] /\ \A x \in Device : cursor'[x] \in Screen(x)
      /\ channel' \in [Device -> Seq(Event)]
      /\ EventsHonest' /\ PassThroughFollows'
      /\ UNCHANGED <<net, state, passThrough>>
  BY <1>3, <1>4, CaptureKeeps DEF CaptureInjected, Capture
<1>6. posted' \in [Device -> Seq([by : Movement, from : Point])]
  BY <1>2 DEF CaptureInjected, Inv, TypeOK
<1>7. UNCHANGED <<homing, moves>>
  BY DEF CaptureInjected
<1>8. QED
  BY <1>5, <1>6, <1>7 DEF Inv, TypeOK

LEMMA DeliverKeeps ==
    ASSUME Inv, NEW dp \in Pair, Deliver(dp[1], dp[2])
    PROVE  Inv'
<1> DEFINE d == dp[2]
           m == Head(net[dp])
<1>1. dp = <<dp[1], d>> /\ d \in Device
  BY PairTyped
<1>2. net[dp] # <<>> /\ net[dp] \in Seq(Letters(d))
  BY <1>1 DEF Deliver, Inv, EventsHonest
<1>3. m \in Letters(d) /\ Tail(net[dp]) \in Seq(Letters(d))
  BY <1>2, HeadTailProperties
<1>4. channel' = [channel EXCEPT ![d] = Append(@, m)] /\ net' = [net EXCEPT ![dp] = Tail(@)]
  BY <1>1 DEF Deliver
<1>5. channel[d] \in Seq(Honest(d)) /\ m \in Honest(d)
  BY <1>1, <1>3 DEF Letters, Inv, EventsHonest
<1>6. Append(channel[d], m) \in Seq(Honest(d))
  BY <1>5, AppendProperties
<1>7. \A x \in Device : channel'[x] \in Seq(Honest(x))
  BY <1>1, <1>4, <1>6 DEF Inv, TypeOK, EventsHonest
<1>8. \A x \in Device : channel'[x] \in Seq(Event)
  BY <1>7, SeqWithin DEF Honest
<1>9. channel' \in [Device -> Seq(Event)]
  BY <1>4, <1>8 DEF Inv, TypeOK
<1>10. \A e \in Pair : net'[e] \in Seq(Letters(e[2]))
  BY <1>3, <1>4 DEF Inv, TypeOK, EventsHonest
<1>11. Tail(net[dp]) \in Seq(Mail)
  BY <1>3, SeqWithin DEF Letters
<1>12. net' \in [Pair -> Seq(Mail)]
  BY <1>4, <1>11 DEF Inv, TypeOK
<1>13. UNCHANGED <<cursor, posted, state, passThrough, homing, moves>>
  BY DEF Deliver
<1>14. QED
  BY <1>7, <1>9, <1>10, <1>12, <1>13 DEF Inv, TypeOK, EventsHonest, PassThroughFollows

(* The event a handler takes is an honest one. *)
LEMMA Taken ==
    ASSUME Inv, NEW d \in Device, channel[d] # <<>>
    PROVE  Head(channel[d]) \in Honest(d) /\ state[d] \in LocalState
BY HeadTailProperties DEF Inv, TypeOK, EventsHonest

LEMMA HandleMouseMoveKeeps ==
    ASSUME Inv, NEW d \in Device, HandleMouseMove(d)
    PROVE  Inv'
<1> DEFINE e == Head(channel[d])
           r == ForwardIfControlling(state[d])
<1>1. channel[d] # <<>> /\ e.kind = "LocalMouseMove"
  BY DEF HandleMouseMove, Arrives
<1>2. e.by \in Movement /\ state[d] \in LocalState
  BY <1>1, Taken, EventKinds
<1>3. Input(d, e.by) \in Mail /\ Input(d, e.by).kind = "Input"
  BY <1>2 DEF Input, Mail
<1>4. \A x \in Device : Input(d, e.by) \in Letters(x)
  BY <1>3 DEF Letters, Honest, Event
<1>5. InStep(state[d], r) /\ (r.mail # NoMail => r.mail.to \in Device)
  BY <1>2, HandlersInStep, HandlersMail, Edges
<1>6. Execute(d, r, Input(d, e.by)) /\ UNCHANGED <<cursor, posted>>
  BY DEF HandleMouseMove
<1> HIDE DEF r, e
<1>7. /\ state' \in [Device -> LocalState] /\ passThrough' \in [Device -> BOOLEAN]
      /\ channel' \in [Device -> Seq(Event)] /\ net' \in [Pair -> Seq(Mail)]
      /\ EventsHonest' /\ PassThroughFollows'
  BY <1>1, <1>4, <1>5, <1>6, ExecuteKeeps
<1>8. UNCHANGED <<homing, moves>>
  BY <1>6 DEF Execute
<1>9. QED
  BY <1>6, <1>7, <1>8 DEF Inv, TypeOK

LEMMA HandleCursorAtEdgeKeeps ==
    ASSUME Inv, NEW d \in Device, HandleCursorAtEdge(d)
    PROVE  Inv'
<1> DEFINE e == Head(channel[d])
           r == OnLocalCursorAtEdge(d, state[d], e.edge)
           message == IF r.mail.body = "EdgeEnter"
                      THEN EdgeEnter(d, Opposite[e.edge], e.position, e.from)
                      ELSE Answer(r.mail.body, d)
<1>1. channel[d] # <<>> /\ e.kind = "LocalCursorAtEdge"
  BY DEF HandleCursorAtEdge, Arrives
<1>2. /\ e.edge \in ScreenEdge /\ e.position \in Along
      /\ e.from \in Screen(d) /\ e.position = Position(d, e.edge, e.from)
      /\ state[d] \in LocalState
  BY <1>1, Taken, EventKinds
<1>3. InStep(state[d], r)
  BY <1>2, HandlersInStep
<1>4. \/ r.mail = NoMail
      \/ r.mail.to = Resolve[d][e.edge] /\ r.mail.to \in Device
         /\ r.mail.body \in {"EdgeEnter", "EdgeRelease"}
  BY <1>2, HandlersMail
<1>5. Execute(d, r, message) /\ UNCHANGED <<cursor, posted>>
  BY DEF HandleCursorAtEdge
<1>6. ASSUME r.mail # NoMail PROVE r.mail.to \in Device /\ message \in Letters(r.mail.to)
  <2>1. CASE r.mail.body = "EdgeEnter"
    <3>1. message = EdgeEnter(d, Opposite[e.edge], e.position, e.from)
      BY <2>1
    <3>2. message \in Mail
      BY <1>2, <3>1, Edges, Sizes DEF EdgeEnter, Mail
    <3>3. /\ message.kind = "EdgeEnter" /\ message.from = d /\ message.edge = Opposite[e.edge]
          /\ message.left = e.from /\ message.position = e.position
      BY <3>1 DEF EdgeEnter
    <3> HIDE DEF message, r, e
    <3>4. QED
      BY <1>2, <1>4, <1>6, <3>2, <3>3 DEF Letters, Honest, Event
  <2>2. CASE r.mail.body = "EdgeRelease"
    <3>1. message = Answer("EdgeRelease", d)
      BY <2>2
    <3>2. message \in Mail /\ message.kind = "EdgeRelease"
      BY <3>1 DEF Answer, Mail
    <3> HIDE DEF message, r, e
    <3>3. QED
      BY <1>4, <1>6, <3>2 DEF Letters, Honest, Event
  <2>3. QED
    BY <1>4, <1>6, <2>1, <2>2
<1> HIDE DEF r, message, e
<1>7. /\ state' \in [Device -> LocalState] /\ passThrough' \in [Device -> BOOLEAN]
      /\ channel' \in [Device -> Seq(Event)] /\ net' \in [Pair -> Seq(Mail)]
      /\ EventsHonest' /\ PassThroughFollows'
  BY <1>1, <1>3, <1>5, <1>6, ExecuteKeeps
<1>8. UNCHANGED <<homing, moves>>
  BY <1>5 DEF Execute
<1>9. QED
  BY <1>5, <1>7, <1>8 DEF Inv, TypeOK

LEMMA HandleEdgeEnterKeeps ==
    ASSUME Inv, NEW d \in Device, HandleEdgeEnter(d)
    PROVE  Inv'
<1> DEFINE e == Head(channel[d])
           r == OnPeerEdgeEnter(state[d], e.from)
           at == EntryPoint(d, e.edge, e.position)
<1>1. channel[d] # <<>> /\ e.kind = "EdgeEnter"
  BY DEF HandleEdgeEnter, Arrives
<1>2. e.from \in Device /\ e.edge \in ScreenEdge /\ e.position \in Along /\ state[d] \in LocalState
  BY <1>1, Taken, EventKinds
<1>3. InStep(state[d], r)
  BY <1>2, HandlersInStep
<1>4. r.mail = NoMail \/ (r.mail.to = e.from /\ r.mail.body = "EdgeEnterRejected")
  BY <1>2, HandlersMail, Edges
<1>5. Answer("EdgeEnterRejected", d) \in Mail /\ Answer("EdgeEnterRejected", d).kind = "EdgeEnterRejected"
  BY DEF Answer, Mail
<1>6. \A x \in Device : Answer("EdgeEnterRejected", d) \in Letters(x)
  BY <1>5 DEF Letters, Honest, Event
<1>7. Execute(d, r, Answer(r.mail.body, d)) /\ UNCHANGED posted
      /\ cursor' = IF r.local = "warp" THEN [cursor EXCEPT ![d] = at] ELSE cursor
  BY DEF HandleEdgeEnter
<1>8. at \in Screen(d) /\ at \in Point
  BY <1>2, EntryPointFacts, Sizes
<1> HIDE DEF r, e, at
<1>9. /\ state' \in [Device -> LocalState] /\ passThrough' \in [Device -> BOOLEAN]
      /\ channel' \in [Device -> Seq(Event)] /\ net' \in [Pair -> Seq(Mail)]
      /\ EventsHonest' /\ PassThroughFollows'
  BY <1>1, <1>2, <1>3, <1>4, <1>6, <1>7, ExecuteKeeps
<1>10. cursor' \in [Device -> Point] /\ \A x \in Device : cursor'[x] \in Screen(x)
  BY <1>7, <1>8 DEF Inv, TypeOK
<1>11. UNCHANGED <<homing, moves>>
  BY <1>7 DEF Execute
<1>12. QED
  BY <1>7, <1>9, <1>10, <1>11 DEF Inv, TypeOK

LEMMA HandleAnswerKeeps ==
    ASSUME Inv, NEW d \in Device, HandleAnswer(d)
    PROVE  Inv'
<1> DEFINE from == Head(channel[d]).from
<1>1. PICK r \in {OnPeerEdgeRelease(state[d], from), OnPeerEdgeEnterRejected(state[d], from)} :
          Execute(d, r, {})
  BY DEF HandleAnswer
<1>2. channel[d] # <<>> /\ from \in Device /\ state[d] \in LocalState
  BY Taken, EventKinds DEF HandleAnswer, Arrives
<1>3. InStep(state[d], r) /\ r.mail = NoMail
  BY <1>1, <1>2, HandlersInStep, HandlersMail, Edges
<1>4. /\ state' \in [Device -> LocalState] /\ passThrough' \in [Device -> BOOLEAN]
      /\ channel' \in [Device -> Seq(Event)] /\ net' \in [Pair -> Seq(Mail)]
      /\ EventsHonest' /\ PassThroughFollows'
  BY <1>1, <1>2, <1>3, ExecuteKeeps
<1>5. UNCHANGED <<cursor, posted, homing, moves>>
  BY <1>1 DEF HandleAnswer, Execute
<1>6. QED
  BY <1>4, <1>5 DEF Inv, TypeOK

LEMMA HandleInputKeeps ==
    ASSUME Inv, NEW d \in Device, HandleInput(d)
    PROVE  Inv'
<1> DEFINE e == Head(channel[d])
           r == OnPeerInputMessage(state[d], e.from)
           move == [by |-> e.by, from |-> cursor[d]]
<1>1. channel[d] # <<>> /\ e.kind = "Input"
  BY DEF HandleInput, Arrives
<1>2. e.from \in Device /\ e.by \in Movement /\ state[d] \in LocalState
  BY <1>1, Taken, EventKinds
<1>3. InStep(state[d], r) /\ r.mail = NoMail
  BY <1>2, HandlersInStep, HandlersMail, Edges
<1>4. Execute(d, r, {}) /\ UNCHANGED cursor
      /\ posted' = IF r.local = "inject" THEN [posted EXCEPT ![d] = Append(@, move)] ELSE posted
  BY DEF HandleInput
<1>5. move \in [by : Movement, from : Point]
  BY <1>2 DEF Inv, TypeOK
<1> HIDE DEF r, e, move
<1>6. /\ state' \in [Device -> LocalState] /\ passThrough' \in [Device -> BOOLEAN]
      /\ channel' \in [Device -> Seq(Event)] /\ net' \in [Pair -> Seq(Mail)]
      /\ EventsHonest' /\ PassThroughFollows'
  BY <1>1, <1>3, <1>4, ExecuteKeeps
<1>7. posted' \in [Device -> Seq([by : Movement, from : Point])]
  BY <1>4, <1>5, AppendProperties DEF Inv, TypeOK
<1>8. UNCHANGED <<homing, moves>>
  BY <1>4 DEF Execute
<1>9. QED
  BY <1>4, <1>6, <1>7, <1>8 DEF Inv, TypeOK

LEMMA NextInv == Inv /\ [Next]_vars => Inv'
<1>1. SUFFICES ASSUME Inv, [Next]_vars PROVE Inv'
  OBVIOUS
<1>2. ASSUME NEW d \in User, NEW by \in Movement, MoveMouse(d, by) PROVE Inv'
  BY <1>1, <1>2, MoveMouseKeeps
<1>3. ASSUME NEW d \in User, TurnBack(d) PROVE Inv'
  BY <1>1, <1>3, TurnBackKeeps
<1>4. ASSUME NEW d \in Device, CaptureInjected(d) PROVE Inv'
  BY <1>1, <1>4, CaptureInjectedKeeps
<1>5. ASSUME NEW dp \in Pair, Deliver(dp[1], dp[2]) PROVE Inv'
  BY <1>1, <1>5, DeliverKeeps
<1>6. ASSUME NEW d \in Device, Handle(d) PROVE Inv'
  BY <1>1, <1>6, HandleMouseMoveKeeps, HandleCursorAtEdgeKeeps, HandleEdgeEnterKeeps,
     HandleAnswerKeeps, HandleInputKeeps DEF Handle
<1>7. CASE UNCHANGED vars
  BY <1>1, <1>7 DEF vars, Inv, TypeOK, EventsHonest, PassThroughFollows
<1>8. QED
  BY <1>1, <1>2, <1>3, <1>4, <1>5, <1>6, <1>7 DEF Next

LEMMA Invariance == Spec => []Inv
<1>1. QED
  BY InitInv, NextInv, PTL DEF Spec

-----------------------------------------------------------------------------
(* The properties *)

(* Every value of every variable is of its type, and no pointer is off screen. *)
THEOREM TypeCorrect == Spec => []TypeOK
<1>1. Inv => TypeOK
  BY DEF Inv
<1>2. QED
  BY <1>1, Invariance, PTL

LEMMA StaysInStep ==
    ASSUME Inv, [Next]_vars, NEW d \in Device, state[d].role = "Controlling"
    PROVE  cursor'[d] = cursor[d]
<1>1. ~ passThrough[d] /\ state[d] # Idle /\ cursor \in [Device -> Point]
  BY DEF Inv, TypeOK, PassThroughFollows, Idle
<1>2. ASSUME NEW x \in Device, NEW by, NEW at, NEW own, Capture(x, by, at, own)
      PROVE  cursor'[d] = cursor[d]
  BY <1>1, <1>2 DEF Capture
<1>3. ASSUME NEW x \in User, NEW by \in Movement, MoveMouse(x, by) PROVE cursor'[d] = cursor[d]
  BY <1>2, <1>3, TravelAssumption DEF MoveMouse
<1>4. ASSUME NEW x \in Device, CaptureInjected(x) PROVE cursor'[d] = cursor[d]
  BY <1>2, <1>4 DEF CaptureInjected
<1>5. ASSUME NEW x \in Device, HandleEdgeEnter(x) PROVE cursor'[d] = cursor[d]
  <2>1. CASE x = d
    <3>1. OnPeerEdgeEnter(state[d], Head(channel[d]).from).local # "warp"
      BY <1>1 DEF OnPeerEdgeEnter, Outcome
    <3>2. QED
      BY <1>5, <2>1, <3>1 DEF HandleEdgeEnter
  <2>2. CASE x # d
    BY <1>1, <1>5, <2>2 DEF HandleEdgeEnter
  <2>3. QED
    BY <2>1, <2>2
<1>6. ASSUME NEW x \in Device, Handle(x), ~ HandleEdgeEnter(x) PROVE cursor'[d] = cursor[d]
  BY <1>6 DEF Handle, HandleMouseMove, HandleCursorAtEdge, HandleAnswer, HandleInput
<1>7. ASSUME NEW x \in User, TurnBack(x) PROVE cursor'[d] = cursor[d]
  BY <1>7 DEF TurnBack
<1>8. ASSUME NEW dp \in Pair, Deliver(dp[1], dp[2]) PROVE cursor'[d] = cursor[d]
  BY <1>8 DEF Deliver
<1>9. CASE UNCHANGED vars
  BY <1>9 DEF vars
<1>10. QED
  BY <1>3, <1>4, <1>5, <1>6, <1>7, <1>8, <1>9 DEF Next

(* The pointer of a controller stays where it was left. *)
THEOREM PointerStaysPut == Spec => PointerStays
<1>1. Inv /\ [Next]_vars =>
          [\A d \in Device : state[d].role = "Controlling" => cursor'[d] = cursor[d]]_vars
  BY StaysInStep
<1>2. QED
  BY <1>1, Invariance, PTL DEF Spec, PointerStays

(* Of the handlers, only that of EdgeEnter makes a device BeingControlled. *)
LEMMA OthersDoNotEnter ==
    ASSUME NEW s \in LocalState, NEW d \in Device, NEW q, NEW p, NEW e, s # BeingControlled(p)
    PROVE  /\ ForwardIfControlling(s).state # BeingControlled(p)
           /\ OnLocalCursorAtEdge(d, s, e).state # BeingControlled(p)
           /\ OnPeerEdgeRelease(s, q).state # BeingControlled(p)
           /\ OnPeerEdgeEnterRejected(s, q).state # BeingControlled(p)
           /\ OnPeerInputMessage(s, q).state # BeingControlled(p)
<1>1. Idle # BeingControlled(p) /\ \A x : Controlling(x) # BeingControlled(p)
  BY DEF Idle, Controlling, BeingControlled
<1>2. QED
  BY <1>1 DEF ForwardIfControlling, OnLocalCursorAtEdge, OnPeerEdgeRelease, OnPeerEdgeEnterRejected,
     OnPeerInputMessage, Outcome, Ignored

LEMMA EntersByEdgeEnter ==
    ASSUME Inv, [Next]_vars, NEW d \in Device, NEW p \in Device, Enters(d, p)
    PROVE  HandleEdgeEnter(d)
<1>1. state[d] \in LocalState /\ state \in [Device -> LocalState]
      /\ state[d] # BeingControlled(p) /\ state'[d] = BeingControlled(p)
  BY DEF Inv, TypeOK, Enters
<1>2. ASSUME NEW x \in Device, NEW r, NEW message, Execute(x, r, message)
      PROVE  x = d /\ r.state = BeingControlled(p)
  BY <1>1, <1>2 DEF Execute
<1>3. ASSUME NEW x \in Device, Handle(x), ~ HandleEdgeEnter(x) PROVE FALSE
  <2>1. CASE HandleMouseMove(x)
    BY <1>1, <1>2, <2>1, OthersDoNotEnter DEF HandleMouseMove
  <2>2. CASE HandleCursorAtEdge(x)
    <3>1. PICK e, message : Execute(x, OnLocalCursorAtEdge(x, state[x], e), message)
      BY <2>2 DEF HandleCursorAtEdge
    <3>2. QED
      BY <1>1, <1>2, <3>1, OthersDoNotEnter
  <2>3. CASE HandleAnswer(x)
    BY <1>1, <1>2, <2>3, OthersDoNotEnter DEF HandleAnswer
  <2>4. CASE HandleInput(x)
    BY <1>1, <1>2, <2>4, OthersDoNotEnter DEF HandleInput
  <2>5. QED
    BY <1>3, <2>1, <2>2, <2>3, <2>4 DEF Handle
<1>4. ASSUME NEW x \in Device, HandleEdgeEnter(x) PROVE x = d
  BY <1>2, <1>4 DEF HandleEdgeEnter
<1>5. state' # state
  BY <1>1
<1>6. PICK x \in Device : Handle(x)
  BY <1>5 DEF Next, vars, MoveMouse, TurnBack, CaptureInjected, Capture, Deliver
<1>7. QED
  BY <1>3, <1>4, <1>6

(* Each link has been made on both of its devices. *)
LinksMutual ==
    \A d \in Device : \A e \in ScreenEdge :
        Resolve[d][e] \in Device => Resolve[Resolve[d][e]][Opposite[e]] = d

LEMMA EntersInLineInStep ==
    ASSUME LinksMutual, Inv, [Next]_vars, NEW d \in Device, NEW p \in Device, Enters(d, p)
    PROVE  LET left == Head(channel[d]).left
               at == cursor'[d]
           IN  \E e \in ScreenEdge :
                   /\ Resolve[d][e] = p
                   /\ OnEdge(d, e, at)
                   /\ IF Sideways(e) THEN InLine(left[2], Height[p], d, at[2], Height[d])
                                     ELSE InLine(left[1], Width[p], d, at[1], Width[d])
<1> DEFINE m == Head(channel[d])
           left == m.left
           at == EntryPoint(d, m.edge, m.position)
           r == OnPeerEdgeEnter(state[d], m.from)
<1>1. HandleEdgeEnter(d)
  BY EntersByEdgeEnter
<1>2. channel[d] # <<>> /\ m.kind = "EdgeEnter" /\ Execute(d, r, Answer(r.mail.body, d))
      /\ cursor' = IF r.local = "warp" THEN [cursor EXCEPT ![d] = at] ELSE cursor
  BY <1>1 DEF HandleEdgeEnter, Arrives
<1>3. m \in Honest(d) /\ m.from \in Device /\ m.edge \in ScreenEdge /\ m.position \in Along
  BY <1>2, Taken, EventKinds
<1>4. r.state = BeingControlled(p) /\ state[d] # BeingControlled(p)
  BY <1>2 DEF Execute, Enters, Inv, TypeOK
<1>5. m.from = p /\ r.local = "warp"
  BY <1>4 DEF OnPeerEdgeEnter, Outcome, BeingControlled
<1>6. cursor'[d] = at
  BY <1>2, <1>5 DEF Inv, TypeOK
<1>7. PICK f \in ScreenEdge : /\ Resolve[p][f] = d
                             /\ m.edge = Opposite[f]
                             /\ left \in Screen(p)
                             /\ m.position = Position(p, f, left)
  BY <1>2, <1>3, <1>5 DEF Honest
<1>8. Resolve[d][m.edge] = p
  BY <1>7 DEF LinksMutual
<1>9. /\ OnEdge(d, m.edge, at)
      /\ Sideways(m.edge) => at[2] = Clamp(Scaled(d, m.position, Height[d]), Height[d])
      /\ ~ Sideways(m.edge) => at[1] = Clamp(Scaled(d, m.position, Width[d]), Width[d])
  BY <1>3, EntryPointFacts
<1>10. /\ left[1] \in 0 .. Width[p] - 1 /\ left[2] \in 0 .. Height[p] - 1
       /\ Width[p] \in Nat \ {0} /\ Height[p] \in Nat \ {0}
       /\ Width[d] \in Nat \ {0} /\ Height[d] \in Nat \ {0}
  BY <1>7, Sizes
<1>11. Sideways(f) = Sideways(m.edge)
  BY <1>7, Edges
<1> HIDE DEF m, left, at, r
<1>12. CASE Sideways(m.edge)
  <2>1. m.position = Fraction(left[2], Extent(p, Height[p]))
    BY <1>7, <1>11, <1>12 DEF Position
  <2>2. InLine(left[2], Height[p], d, at[2], Height[d])
    BY <1>9, <1>10, <1>12, <2>1, ScaledInLine
  <2>3. QED
    BY <1>3, <1>6, <1>8, <1>9, <1>12, <2>2 DEF left, m
<1>13. CASE ~ Sideways(m.edge)
  <2>1. m.position = Fraction(left[1], Extent(p, Width[p]))
    BY <1>7, <1>11, <1>13 DEF Position
  <2>2. InLine(left[1], Width[p], d, at[1], Width[d])
    BY <1>9, <1>10, <1>13, <2>1, ScaledInLine
  <2>3. QED
    BY <1>3, <1>6, <1>8, <1>9, <1>13, <2>2 DEF left, m
<1>14. QED
  BY <1>12, <1>13

(***************************************************************************)
(* If both users have made every link, a pointer enters on the edge that   *)
(* leads back, and in line with where it left the other screen.            *)
(***************************************************************************)
THEOREM EntryInLine ==
    ASSUME LinksMutual
    PROVE  Spec => EntersInLine
<1> DEFINE A == \A d, p \in Device :
                    Enters(d, p) =>
                        LET left == Head(channel[d]).left
                            at == cursor'[d]
                        IN  \E e \in ScreenEdge :
                                /\ Resolve[d][e] = p
                                /\ OnEdge(d, e, at)
                                /\ IF Sideways(e)
                                   THEN InLine(left[2], Height[p], d, at[2], Height[d])
                                   ELSE InLine(left[1], Width[p], d, at[1], Width[d])
<1>1. Inv /\ [Next]_vars => [A]_vars
  BY LinksMutual, EntersInLineInStep
<1>2. QED
  BY <1>1, Invariance, PTL DEF Spec, EntersInLine

=============================================================================
