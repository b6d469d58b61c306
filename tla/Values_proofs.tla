-------------------------- MODULE Values_proofs --------------------------
(***************************************************************************)
(* What the library computes from what it reads, proved for every set of   *)
(* threads, clients and engines, every number of samples, every bound and  *)
(* every configuration file.                                               *)
(*                                                                         *)
(* The frame counter (FpsIsCadence): the tracker keeps three numbers of a  *)
(* window, not its presents.  The invariant says that they are enough: the *)
(* window begins at `start', ends at `last', has `intervals' gaps, and     *)
(* none of them is negative or long, however the threads' readings arrive. *)
(*                                                                         *)
(* The sampler (UseIsReference): it keeps counters, slots and marks, not   *)
(* the readings it made.  The invariant says what they are of the readings *)
(* since the last reset.  The code's loops are folds, so the lemmas of the *)
(* second part carry facts along a sequence and add over a set; they rest  *)
(* on induction over a set of numbers, which needs no operator parameter.  *)
(*                                                                         *)
(* The configuration parser (ParserIsReference): its state after k lines   *)
(* says which keys, rules and faults those lines have, with their values;  *)
(* the reference speaks of the file as a whole.                            *)
(***************************************************************************)
EXTENDS MCConfigParse, HudFps, HudMetrics,
        FiniteSetTheorems, WellFoundedInduction, TLAPS

-----------------------------------------------------------------------------
(* The frame counter.                                                      *)
FTypeOK ==
    /\ time \in Nat
    /\ accepted \in [Threads -> Nat]
    /\ DOMAIN tracker =
           {"started", "valid", "start", "last", "intervals", "fps"}
    /\ tracker.started \in BOOLEAN /\ tracker.valid \in BOOLEAN
    /\ tracker.start \in Nat /\ tracker.last \in Nat
    /\ tracker.intervals \in Nat
    /\ window \in Seq(Nat) /\ complete \in Seq(Nat)

\* Readings in order, with no gap beyond the stale time.
Even(s) == \A k \in 1..Len(s) - 1 : s[k + 1] - s[k] \in 0..StaleNs

\* The tracker's numbers are those of the presents recorded in the window.
WindowKnown ==
    tracker.started =>
        /\ Len(window) = tracker.intervals + 1
        /\ window[1] = tracker.start /\ window[Len(window)] = tracker.last
        /\ Even(window)

ValidStarted == tracker.valid => tracker.started /\ complete # <<>>

FInv == FTypeOK /\ WindowKnown /\ ValidStarted /\ FpsIsCadence

-----------------------------------------------------------------------------
\* A reading that is neither early nor late continues a window.
LEMMA EvenAppend ==
    ASSUME NEW s \in Seq(Nat), Len(s) # 0, Even(s), NEW now \in Nat,
           now - s[Len(s)] \in 0..StaleNs
    PROVE  LET w == Append(s, now) IN
           /\ w \in Seq(Nat) /\ Len(w) = Len(s) + 1 /\ Len(w) \in Nat
           /\ w[1] = s[1] /\ w[Len(w)] = now /\ Even(w) /\ w # <<>>
<1> DEFINE w == Append(s, now)
<1>1. Len(s) \in Nat /\ Len(s) >= 1
  OBVIOUS
<1>2. w \in Seq(Nat) /\ Len(w) = Len(s) + 1 /\ w[Len(s) + 1] = now
  OBVIOUS
<1>3. \A k \in 1..Len(s) : w[k] = s[k]
  OBVIOUS
<1> HIDE DEF w
<1>4. ASSUME NEW k \in 1..Len(w) - 1
      PROVE  w[k + 1] - w[k] \in 0..StaleNs
  <2>1. CASE k = Len(s)
    BY <1>1, <1>2, <1>3, <2>1
  <2>2. CASE k # Len(s)
    <3>1. k \in 1..Len(s) - 1 /\ k \in 1..Len(s) /\ k + 1 \in 1..Len(s)
      BY <1>1, <1>2, <2>2
    <3> QED BY <1>3, <3>1 DEF Even
  <2> QED BY <2>1, <2>2
<1>5. w[1] = s[1] /\ w # <<>>
  BY <1>1, <1>2, <1>3
<1>6. Even(w)
  BY <1>4 DEF Even
<1> QED BY <1>1, <1>2, <1>5, <1>6 DEF w

\* A new tracker shows nothing.
LEMMA InitInv == FpsInit => FInv
<1> SUFFICES ASSUME FpsInit PROVE FInv
  OBVIOUS
<1>1. FTypeOK
  BY DEF FpsInit, FTypeOK
<1>2. WindowKnown /\ ValidStarted /\ FpsIsCadence
  BY DEF FpsInit, WindowKnown, ValidStarted, FpsIsCadence
<1> QED BY <1>1, <1>2 DEF FInv

\* A first present, an early reading or a pause: a window of one present, and
\* nothing to show.
LEMMA RestartKeeps ==
    ASSUME FInv, NEW t \in Threads,
           accepted' = [accepted EXCEPT ![t] = 0],
           tracker' = Restarted(accepted[t]), window' = <<accepted[t]>>,
           UNCHANGED <<complete, time>>
    PROVE  FInv'
<1>1. accepted[t] \in Nat
  BY DEF FInv, FTypeOK
<1>2. /\ tracker'.started /\ ~tracker'.valid /\ tracker'.start = accepted[t]
      /\ tracker'.last = accepted[t] /\ tracker'.intervals = 0
      /\ tracker'.started \in BOOLEAN /\ tracker'.valid \in BOOLEAN
      /\ DOMAIN tracker' =
             {"started", "valid", "start", "last", "intervals", "fps"}
  BY DEF Restarted
<1>3. /\ window' \in Seq(Nat) /\ Len(window') = 1 /\ window'[1] = accepted[t]
  BY <1>1
<1>4. FTypeOK'
  BY <1>1, <1>2, <1>3 DEF FInv, FTypeOK
<1>5. Even(window')
  BY <1>3 DEF Even
<1>6. WindowKnown'
  BY <1>2, <1>3, <1>5 DEF WindowKnown, Even
<1>7. ValidStarted' /\ FpsIsCadence'
  BY <1>2 DEF ValidStarted, FpsIsCadence
<1> QED BY <1>4, <1>6, <1>7 DEF FInv

\* What a reading that does not restart the window finds.
LEMMA Continues ==
    ASSUME FInv, NEW t \in Threads, ~Restart(accepted[t])
    PROVE  LET w == Append(window, accepted[t]) IN
           /\ tracker.started
           /\ accepted[t] \in Nat
           /\ w \in Seq(Nat) /\ Len(w) = tracker.intervals + 2
           /\ w[1] = tracker.start /\ w[Len(w)] = accepted[t]
           /\ Even(w) /\ w # <<>>
           /\ window[1] = tracker.start
<1>1. /\ accepted[t] \in Nat /\ tracker.last \in Nat /\ window \in Seq(Nat)
      /\ tracker.intervals \in Nat
  BY DEF FInv, FTypeOK
<1>2. /\ tracker.started /\ accepted[t] - tracker.last \in 0..StaleNs
  BY <1>1, FpsAssumption DEF Restart
<1>3. /\ Len(window) = tracker.intervals + 1 /\ Even(window)
      /\ window[Len(window)] = tracker.last /\ window[1] = tracker.start
  BY <1>2 DEF FInv, WindowKnown
<1> DEFINE w == Append(window, accepted[t])
<1>4. Len(window) # 0 /\ accepted[t] - window[Len(window)] \in 0..StaleNs
  BY <1>1, <1>2, <1>3
<1>5. /\ w \in Seq(Nat) /\ Len(w) = Len(window) + 1
      /\ w[1] = window[1] /\ w[Len(w)] = accepted[t] /\ Even(w) /\ w # <<>>
  <2> HIDE DEF w
  <2> DEFINE now == accepted[t]
  <2>1. now \in Nat /\ now - window[Len(window)] \in 0..StaleNs
    BY <1>1, <1>4
  <2>2. w = Append(window, now)
    BY DEF w
  <2> HIDE DEF now
  <2>3. /\ w \in Seq(Nat) /\ Len(w) = Len(window) + 1
        /\ w[1] = window[1] /\ w[Len(w)] = now /\ Even(w) /\ w # <<>>
    BY <1>1, <1>3, <1>4, <2>1, <2>2, EvenAppend
  <2> QED BY <2>3 DEF now
<1> HIDE DEF w
<1>6. Len(w) = tracker.intervals + 2
  BY <1>1, <1>3, <1>5
<1>7. w[1] = tracker.start /\ window[1] = tracker.start
  BY <1>3, <1>5
<1> QED BY <1>1, <1>2, <1>5, <1>6, <1>7 DEF w

\* A present within the window.
LEMMA CountKeeps ==
    ASSUME FInv, NEW t \in Threads, ~Restart(accepted[t]),
           accepted' = [accepted EXCEPT ![t] = 0],
           tracker' = [tracker EXCEPT !.last = accepted[t],
                                      !.intervals = tracker.intervals + 1],
           window' = Append(window, accepted[t]),
           UNCHANGED <<complete, time>>
    PROVE  FInv'
<1> DEFINE w == Append(window, accepted[t])
<1>1. /\ tracker.started /\ accepted[t] \in Nat
      /\ w \in Seq(Nat) /\ Len(w) = tracker.intervals + 2
      /\ w[1] = tracker.start /\ w[Len(w)] = accepted[t] /\ Even(w)
      /\ window[1] = tracker.start
  BY Continues
<1> HIDE DEF w
<1>2. window' = w
  BY DEF w
<1>3. /\ DOMAIN tracker' = DOMAIN tracker
      /\ tracker'.started = tracker.started /\ tracker'.valid = tracker.valid
      /\ tracker'.start = tracker.start /\ tracker'.fps = tracker.fps
      /\ tracker'.last = accepted[t]
      /\ tracker'.intervals = tracker.intervals + 1
  BY DEF FInv, FTypeOK
<1>4. FTypeOK'
  <2>1. /\ tracker.started \in BOOLEAN /\ tracker.valid \in BOOLEAN
        /\ tracker.start \in Nat /\ tracker.intervals \in Nat
        /\ tracker.intervals + 1 \in Nat
    BY DEF FInv, FTypeOK
  <2>2. accepted' \in [Threads -> Nat] /\ window' \in Seq(Nat)
    BY <1>1, <1>2 DEF FInv, FTypeOK
  <2>3. time' \in Nat /\ complete' \in Seq(Nat)
    BY DEF FInv, FTypeOK
  <2>4. DOMAIN tracker' =
            {"started", "valid", "start", "last", "intervals", "fps"}
    BY <1>3 DEF FInv, FTypeOK
  <2> QED BY <1>1, <1>3, <2>1, <2>2, <2>3, <2>4, Zenon DEF FTypeOK
<1>5. WindowKnown'
  <2>1. Even(window')
    BY <1>1, <1>2
  <2>2. Len(window') = tracker'.intervals + 1
    BY <1>1, <1>2, <1>3 DEF FInv, FTypeOK
  <2> QED BY <1>1, <1>2, <1>3, <2>1, <2>2 DEF WindowKnown, Even
<1>6. ValidStarted'
  BY <1>1, <1>3 DEF FInv, ValidStarted
<1>7. FpsIsCadence'
  <2>1. window'[1] = window[1] /\ complete' = complete
    BY <1>1, <1>2
  <2> QED BY <1>3, <2>1, Zenon DEF FInv, FpsIsCadence
<1> QED BY <1>4, <1>5, <1>6, <1>7 DEF FInv

\* The present that completes a window: what is shown is the rate over it.
LEMMA SampleKeeps ==
    ASSUME FInv, NEW t \in Threads, ~Restart(accepted[t]),
           accepted[t] - tracker.start >= SampleNs,
           accepted' = [accepted EXCEPT ![t] = 0],
           tracker' = [started |-> TRUE, valid |-> TRUE, start |-> accepted[t],
                       last |-> accepted[t], intervals |-> 0,
                       fps |-> Rate(tracker.intervals + 1,
                                    accepted[t] - tracker.start)],
           complete' = Append(window, accepted[t]), window' = <<accepted[t]>>,
           UNCHANGED time
    PROVE  FInv'
<1> DEFINE w == Append(window, accepted[t])
<1>1. /\ tracker.started /\ accepted[t] \in Nat
      /\ w \in Seq(Nat) /\ Len(w) = tracker.intervals + 2
      /\ w[1] = tracker.start /\ w[Len(w)] = accepted[t] /\ Even(w)
      /\ w # <<>>
  BY Continues
<1> HIDE DEF w
<1>2. complete' = w
  BY DEF w
<1>3. /\ DOMAIN tracker' =
             {"started", "valid", "start", "last", "intervals", "fps"}
      /\ tracker'.started = TRUE /\ tracker'.valid = TRUE
      /\ tracker'.start = accepted[t] /\ tracker'.last = accepted[t]
      /\ tracker'.intervals = 0
      /\ tracker'.fps = Rate(tracker.intervals + 1,
                             accepted[t] - tracker.start)
  OBVIOUS
<1>4. window' \in Seq(Nat) /\ Len(window') = 1 /\ window'[1] = accepted[t]
  BY <1>1
<1>5. FTypeOK'
  BY <1>1, <1>2, <1>3, <1>4 DEF FInv, FTypeOK
<1>6. WindowKnown'
  BY <1>3, <1>4 DEF WindowKnown, Even
<1>7. ValidStarted'
  BY <1>1, <1>2, <1>3 DEF ValidStarted
<1>8. FpsIsCadence'
  <2>1. tracker.intervals \in Nat /\ Len(w) - 1 = tracker.intervals + 1
    BY <1>1 DEF FInv, FTypeOK
  <2>2. w[Len(w)] - w[1] >= SampleNs
    BY <1>1
  <2>3. tracker'.fps = Rate(Len(w) - 1, w[Len(w)] - w[1])
    BY <1>1, <1>3, <2>1
  <2>4. window'[1] = w[Len(w)]
    BY <1>1, <1>4
  <2> QED BY <1>1, <1>2, <2>2, <2>3, <2>4, Zenon DEF FpsIsCadence, Even
<1> QED BY <1>5, <1>6, <1>7, <1>8 DEF FInv

\* Every step keeps the invariant.
LEMMA StepInv == ASSUME FInv, [FpsNext]_fvars PROVE FInv'
<1>1. CASE UNCHANGED fvars
  BY <1>1 DEF fvars, FInv, FTypeOK, WindowKnown, ValidStarted, FpsIsCadence,
              Even
<1>2. CASE Tick
  <2>1. FTypeOK'
    BY <1>2 DEF Tick, FInv, FTypeOK
  <2>2. WindowKnown' /\ ValidStarted' /\ FpsIsCadence'
    BY <1>2, Zenon DEF Tick, FInv, WindowKnown, ValidStarted, FpsIsCadence, Even
  <2> QED BY <2>1, <2>2 DEF FInv
<1>3. ASSUME NEW t \in Threads, Accepted(t)
      PROVE  FInv'
  <2>1. FTypeOK'
    BY <1>3 DEF Accepted, FInv, FTypeOK
  <2>2. WindowKnown' /\ ValidStarted' /\ FpsIsCadence'
    BY <1>3, Zenon DEF Accepted, FInv, WindowKnown, ValidStarted, FpsIsCadence,
                       Even
  <2> QED BY <2>1, <2>2 DEF FInv
<1>4. ASSUME NEW t \in Threads, Record(t)
      PROVE  FInv'
  BY <1>4, RestartKeeps, CountKeeps, SampleKeeps DEF Record
<1> QED BY <1>1, <1>2, <1>3, <1>4 DEF FpsNext

\* hud_fps.c:21-61: for any number of threads whose readings arrive in any
\* order, a rate the HUD may show is that of consecutive presents over at
\* least the sample time, with no pause among them.
THEOREM RateIsCadence == FpsSpec => []FpsIsCadence
<1>1. FpsInit => FInv
  BY InitInv
<1>2. FInv /\ [FpsNext]_fvars => FInv'
  BY StepInv
<1>3. FInv => FpsIsCadence
  BY DEF FInv
<1> QED BY <1>1, <1>2, <1>3, PTL DEF FpsSpec

-----------------------------------------------------------------------------
(* Induction, folds and sums.                                              *)

\* Every set of naturals has a least member.
LEMMA HasLeast ==
    ASSUME NEW T \in SUBSET Nat, T # {}
    PROVE  \E n \in T : \A m \in T : n <= m
<1> DEFINE R == {p \in Nat \X Nat : p[1] < p[2]}
<1>1. IsWellFoundedOn(R, Nat)
  BY NatLessThanWellFounded DEF OpToRel
<1> HIDE DEF R
<1>2. PICK n \in T : \A m \in T : ~(<<m, n>> \in R)
  BY <1>1, WFMin
<1>3. \A m, k \in Nat : <<m, k>> \in R <=> m < k
  BY DEF R
<1>4. \A m \in T : ~(m < n) /\ m \in Nat /\ n \in Nat
  BY <1>2, <1>3
<1>5. \A m \in T : n <= m
  BY <1>4
<1> QED BY <1>5

\* Induction up to n, over the set of those for which something holds.
LEMMA Induct ==
    ASSUME NEW n \in Nat, NEW G, 0 \in G,
           \A m \in 0..n - 1 : m \in G => m + 1 \in G
    PROVE  \A m \in 0..n : m \in G
<1> SUFFICES ASSUME NEW k \in 0..n, k \notin G
             PROVE  FALSE
  OBVIOUS
<1> DEFINE T == {m \in 0..n : m \notin G}
<1>1. T \in SUBSET Nat /\ T # {}
  OBVIOUS
<1>2. PICK l \in T : \A m \in T : l <= m
  BY <1>1, HasLeast
<1>3. l \in 0..n /\ l # 0
  BY <1>2
<1>4. l - 1 \in 0..n - 1 /\ (l - 1) + 1 = l
  BY <1>3
<1>5. l - 1 \in G
  BY <1>2, <1>3, <1>4
<1> QED BY <1>2, <1>4, <1>5

\* The largest number of a set.
LEMMA MaxIs ==
    ASSUME NEW S \in SUBSET Int, NEW x \in S, \A y \in S : y <= x
    PROVE  Max(S) = x
<1>1. Max(S) \in S /\ \A y \in S : Max(S) >= y
  BY DEF Max
<1> DEFINE z == Max(S)
<1>2. z \in Int /\ x \in Int /\ z >= x /\ z <= x
  BY <1>1
<1> HIDE DEF z
<1>3. z = x
  BY <1>2
<1> QED BY <1>3 DEF z

-----------------------------------------------------------------------------
\* A fold of a sequence by a function.
Folds(F, b, s, h) ==
    \A X \in SUBSET (DOMAIN s) :
        h[X] = IF X = {} THEN b
               ELSE F[<<h[X \ {Max(X)}], s[Max(X)]>>]

LEMMA FoldExists ==
    ASSUME NEW A, NEW D, NEW F \in [A \X D -> A], NEW b \in A,
           NEW s \in Seq(D)
    PROVE  \E h \in [SUBSET (DOMAIN s) -> A] :
             Folds(F, b, s, h)
<1> DEFINE n == Len(s)
           Is(m, h) == \A X \in SUBSET (1..m) :
                         h[X] = IF X = {} THEN b
                                ELSE F[<<h[X \ {Max(X)}], s[Max(X)]>>]
           G == {m \in 0..n : \E h \in [SUBSET (1..m) -> A] : Is(m, h)}
<1>1. n \in Nat /\ DOMAIN s = 1..n
  OBVIOUS
<1>2. 0 \in G
  <2> DEFINE h == [X \in SUBSET (1..0) |-> b]
  <2>1. h \in [SUBSET (1..0) -> A]
    OBVIOUS
  <2>2. \A X \in SUBSET (1..0) : X = {}
    OBVIOUS
  <2>3. Is(0, h)
    BY <2>2
  <2>4. 0 \in 0..n
    BY <1>1
  <2> HIDE DEF h, Is
  <2> QED BY <2>1, <2>3, <2>4
<1>3. ASSUME NEW m \in 0..n - 1, m \in G
      PROVE  m + 1 \in G
  <2>1. PICK g \in [SUBSET (1..m) -> A] : Is(m, g)
    BY <1>3
  <2>2. m + 1 \in 0..n /\ m + 1 \in 1..n /\ m \in Nat
    BY <1>1, <1>3
  <2> DEFINE k == m + 1
             h == [X \in SUBSET (1..k) |->
                     IF k \in X THEN F[<<g[X \ {k}], s[k]>>] ELSE g[X]]
  <2>3. \A X \in SUBSET (1..k) : k \notin X => X \in SUBSET (1..m)
    BY <2>2
  <2>4. \A X \in SUBSET (1..k) : X \ {k} \in SUBSET (1..m)
    BY <2>2
  <2>5. s[k] \in D
    BY <1>1, <2>2
  <2>6. h \in [SUBSET (1..k) -> A]
    BY <2>1, <2>3, <2>4, <2>5
  <2>7. \A X \in SUBSET (1..k) : k \in X => Max(X) = k
    BY <2>2, MaxIs
  <2>8. \A X \in SUBSET (1..m) : h[X] = g[X]
    BY <2>2
  <2>9. ASSUME NEW X \in SUBSET (1..k)
        PROVE  h[X] = IF X = {} THEN b
                      ELSE F[<<h[X \ {Max(X)}], s[Max(X)]>>]
    <3>1. CASE k \in X
      BY <2>4, <2>7, <2>8, <3>1
    <3>2. CASE k \notin X
      <4>1. X \in SUBSET (1..m) /\ X \ {Max(X)} \in SUBSET (1..m)
        BY <2>3, <3>2
      <4>2. g[X] = IF X = {} THEN b
                   ELSE F[<<g[X \ {Max(X)}], s[Max(X)]>>]
        BY <2>1, <4>1
      <4> HIDE DEF h
      <4> QED BY <2>8, <4>1, <4>2
    <3> QED BY <3>1, <3>2
  <2> HIDE DEF h
  <2>10. Is(k, h)
    BY <2>6, <2>9
  <2> QED BY <2>2, <2>6, <2>10
<1>4. \A m \in 0..n : m \in G
  <2> HIDE DEF G, n
  <2> QED BY <1>1, <1>2, <1>3, Induct
<1>5. n \in G
  <2> HIDE DEF G, n
  <2>1. n \in 0..n
    BY <1>1
  <2> QED BY <1>4, <2>1
<1> QED BY <1>1, <1>5 DEF Folds

\* A set of naturals up to n has a largest member.
LEMMA MaxUpTo ==
    ASSUME NEW n \in Nat, NEW X \in SUBSET (1..n), X # {}
    PROVE  Max(X) \in X
<1> DEFINE T == {n - x : x \in X}
<1>0. \A x \in X : n - x \in Nat
  OBVIOUS
<1>1. T \in SUBSET Nat /\ T # {}
  BY <1>0
<1>2. PICK l \in T : \A m \in T : l <= m
  <2> HIDE DEF T
  <2> QED BY <1>1, HasLeast
<1>3. PICK x \in X : l = n - x
  BY <1>2
<1>4. \A y \in X : n - x <= n - y /\ y \in 1..n
  BY <1>2, <1>3
<1>5. \A y \in X : y <= x
  BY <1>4
<1>6. X \in SUBSET Int
  OBVIOUS
<1> QED BY <1>5, <1>6, MaxIs

\* The same of a function that is known to be in A only step by step.
FoldsIn(A, F, b, s, h) ==
    \A X \in SUBSET (DOMAIN s) :
        IF X = {} THEN h[X] = b
        ELSE h[X \ {Max(X)}] \in A
               => h[X] = F[<<h[X \ {Max(X)}], s[Max(X)]>>]

\* a is the sequence of values a fold of s passes through, from b to z.
Passes(A, F, b, s, z, a) ==
    /\ a \in [0..Len(s) -> A] /\ a[0] = b /\ a[Len(s)] = z
    /\ \A m \in 1..Len(s) : a[m] = F[<<a[m - 1], s[m]>>]

LEMMA FoldPasses ==
    ASSUME NEW A, NEW D, NEW F \in [A \X D -> A], NEW b \in A,
           NEW s \in Seq(D), NEW h, FoldsIn(A, F, b, s, h)
    PROVE  \E a : Passes(A, F, b, s, h[DOMAIN s], a)
<1> DEFINE n == Len(s)
           K == DOMAIN s
           a == [m \in 0..n |-> h[1..m]]
<1>1. n \in Nat /\ K = 1..n
  OBVIOUS
<1>2. a[0] = b /\ a[n] = h[K]
  <2>1. 1..0 = {} /\ {} \in SUBSET K
    OBVIOUS
  <2>2. h[{}] = b
    BY <2>1 DEF FoldsIn
  <2> QED BY <1>1, <2>1, <2>2
<1>3. ASSUME NEW m \in 1..n, a[m - 1] \in A
      PROVE  a[m] = F[<<a[m - 1], s[m]>>]
  <2>0. m \in Nat /\ 1 <= m /\ m <= n
    BY <1>1
  <2>1. /\ 1..m \in SUBSET K /\ 1..m # {} /\ (1..m) \ {m} = 1..(m - 1)
        /\ m - 1 \in 0..n /\ m \in 0..n
    <3> HIDE DEF n, K, a
    <3>1. \A k : k \in (1..m) \ {m} <=> k \in 1..(m - 1)
      BY <2>0
    <3>2. \A k \in 1..m : k \in 1..n
      BY <1>1, <2>0
    <3>3. (1..m) \ {m} = 1..(m - 1)
      BY <3>1
    <3>4. m - 1 \in 0..n /\ m \in 0..n /\ m \in 1..m
      BY <1>1, <2>0
    <3> QED BY <1>1, <3>2, <3>3, <3>4
  <2>2. Max(1..m) = m
    <3>1. 1..m \in SUBSET Int /\ m \in 1..m /\ \A y \in 1..m : y <= m
      BY <1>1
    <3> QED BY <3>1, MaxIs
  <2>3. h[(1..m) \ {m}] \in A
    BY <1>3, <2>1
  <2>4. h[1..m] = F[<<h[(1..m) \ {m}], s[m]>>]
    BY <2>1, <2>2, <2>3 DEF FoldsIn
  <2> QED BY <2>1, <2>4
<1>4. \A m \in 0..n : a[m] \in A
  <2> DEFINE T == {m \in 0..n : a[m] \in A}
  <2>1. 0 \in T
    BY <1>1, <1>2
  <2>2. ASSUME NEW m \in 0..n - 1, m \in T PROVE m + 1 \in T
    <3>1. m + 1 \in 1..n /\ (m + 1) - 1 = m /\ m + 1 \in 0..n
      BY <1>1
    <3>2. s[m + 1] \in D
      BY <1>1, <3>1
    <3> HIDE DEF a
    <3>3. a[m] \in A
      BY <2>2
    <3>4. a[m + 1] = F[<<a[m], s[m + 1]>>]
      BY <1>3, <3>1, <3>3
    <3> QED BY <3>1, <3>2, <3>3, <3>4
  <2> HIDE DEF T, a
  <2>3. \A m \in 0..n : m \in T
    BY <1>1, <2>1, <2>2, Induct
  <2> QED BY <2>3 DEF T
<1>5. a \in [0..n -> A]
  BY <1>4
<1>6. \A m \in 1..n : a[m] = F[<<a[m - 1], s[m]>>]
  <2> HIDE DEF a, n
  <2>1. \A m \in 1..n : m - 1 \in 0..n
    BY <1>1
  <2> QED BY <1>3, <1>4, <2>1
<1> HIDE DEF a
<1> QED BY <1>1, <1>2, <1>5, <1>6 DEF Passes

\* What a descriptor adds stays within A: the clients merged are.
LEMMA MergedIn ==
    ASSUME NEW A, NEW D, Empty \in A,
           \A a \in A, d \in D : merge_client(a, d) \in A,
           NEW s \in Seq(D)
    PROVE  Merged(s) \in A
<1> DEFINE F == [p \in A \X D |-> merge_client(p[1], p[2])]
           K == DOMAIN s
           G(h) == [X \in SUBSET K |->
                      IF X = {} THEN Empty
                      ELSE LET x == Max(X) IN merge_client(h[X \ {x}], s[x])]
           acc == CHOOSE h : h = G(h)
<1>1. F \in [A \X D -> A] /\ \A a \in A, d \in D : F[<<a, d>>] = merge_client(a, d)
  OBVIOUS
<1>2. K = 1..Len(s) /\ Len(s) \in Nat /\ \A k \in K : s[k] \in D
  OBVIOUS
<1>3. \A X \in SUBSET K : X # {} => Max(X) \in K /\ X \ {Max(X)} \in SUBSET K
  BY <1>2, MaxUpTo
<1> HIDE DEF F
<1>4. PICK h \in [SUBSET K -> A] : Folds(F, Empty, s, h)
  BY <1>1, FoldExists
<1>5. h = G(h)
  <2>1. ASSUME NEW X \in SUBSET K
        PROVE  h[X] = IF X = {} THEN Empty
                      ELSE merge_client(h[X \ {Max(X)}], s[Max(X)])
    <3> DEFINE x == Max(X)
    <3>1. CASE X = {}
      BY <1>4, <3>1 DEF Folds
    <3>2. CASE X # {}
      <4>1. x \in K /\ X \ {x} \in SUBSET K
        BY <1>3, <3>2
      <4>2. h[X] = F[<<h[X \ {x}], s[x]>>]
        BY <1>4, <3>2 DEF Folds
      <4> HIDE DEF x
      <4>3. s[x] \in D /\ h[X \ {x}] \in A
        BY <1>2, <1>4, <4>1
      <4>4. h[X] = merge_client(h[X \ {x}], s[x])
        BY <1>1, <4>2, <4>3
      <4> QED BY <3>2, <4>4 DEF x
    <3> QED BY <3>1, <3>2
  <2> QED BY <1>4, <2>1
<1>6. acc = G(acc)
  <2> HIDE DEF G
  <2> QED BY <1>5
<1>7. Merged(s) = acc[K]
  BY DEF Merged, FoldLeft, MapThenFoldSet
<1> HIDE DEF acc
<1>8. FoldsIn(A, F, Empty, s, acc)
  <2>1. ASSUME NEW X \in SUBSET K, X # {}, acc[X \ {Max(X)}] \in A
        PROVE  acc[X] = F[<<acc[X \ {Max(X)}], s[Max(X)]>>]
    <3> DEFINE x == Max(X)
    <3>1. x \in K /\ acc[X] = merge_client(acc[X \ {x}], s[x])
      BY <1>3, <1>6, <2>1
    <3>2. acc[X \ {x}] \in A
      BY <2>1
    <3> HIDE DEF x
    <3>3. acc[X] = F[<<acc[X \ {x}], s[x]>>]
      BY <1>1, <1>2, <3>1, <3>2
    <3> QED BY <3>3 DEF x
  <2>2. acc[{}] = Empty
    BY <1>6
  <2> QED BY <2>1, <2>2 DEF FoldsIn
<1>9. PICK a : Passes(A, F, Empty, s, acc[K], a)
  BY <1>1, <1>8, FoldPasses
<1>10. Len(s) \in 0..Len(s)
  BY <1>2
<1> QED BY <1>7, <1>9, <1>10 DEF Passes

-----------------------------------------------------------------------------
\* The smaller and the larger of two numbers.
LEMMA MinOfTwo ==
    ASSUME NEW x \in Int, NEW y \in Int
    PROVE  Min({x, y}) = IF x <= y THEN x ELSE y
<1> DEFINE z == Min({x, y})
<1>1. z \in {x, y} /\ \A v \in {x, y} : z <= v
  <2>1. (IF x <= y THEN x ELSE y) \in {x, y}
        /\ \A v \in {x, y} : (IF x <= y THEN x ELSE y) <= v
    OBVIOUS
  <2> QED BY <2>1 DEF Min
<1> HIDE DEF z
<1>2. z = IF x <= y THEN x ELSE y
  BY <1>1
<1> QED BY <1>2 DEF z

LEMMA MaxOfTwo ==
    ASSUME NEW x \in Int, NEW y \in Int
    PROVE  Max({x, y}) = IF x <= y THEN y ELSE x
<1> DEFINE z == IF x <= y THEN y ELSE x
<1>1. {x, y} \in SUBSET Int /\ z \in {x, y} /\ \A v \in {x, y} : v <= z
  OBVIOUS
<1> HIDE DEF z
<1>2. Max({x, y}) = z
  BY <1>1, MaxIs
<1> QED BY <1>2 DEF z

\* Quotients.
LEMMA Quotient ==
    ASSUME NEW a \in Nat, NEW b \in Nat \ {0}
    PROVE  /\ a \div b \in Nat
           /\ (a \div b) * b <= a
           /\ a < (a \div b) * b + b
  BY SMT

\* The threshold's two hundredths.
LEMMA Hundredths ==
    ASSUME NEW a \in Nat
    PROVE  /\ a \div 200 \in Nat /\ a % 200 \in 0..199
           /\ a = (a \div 200) * 200 + (a % 200)
  BY SMT

\* The code's threshold, which never multiplies the elapsed time, is the least
\* engine time with 200 * delta >= (2 * c - 1) * elapsed.
LEMMA ThresholdIs ==
    ASSUME NEW delta \in Nat, NEW elapsed \in Nat \ {0}, NEW c \in 1..100
    PROVE  delta >= Threshold(elapsed, c)
             <=> (2 * c - 1) * elapsed <= 200 * delta
<1> DEFINE n == 2 * c - 1
           q == elapsed \div 200
           r == elapsed % 200
           t == (r * n + 199) \div 200
           u == (r * n + 199) % 200
<1>1. n \in Nat /\ q \in Nat /\ r \in Nat /\ elapsed = q * 200 + r
  BY Hundredths
<1>2. Threshold(elapsed, c) = q * n + t
  BY DEF Threshold
<1> HIDE DEF n, q, r
<1>3. r * n \in Nat /\ q * n \in Nat
  BY <1>1
<1>4. t \in Nat /\ u \in 0..199 /\ r * n + 199 = t * 200 + u
  <2> DEFINE p == r * n + 199
  <2>1. p \in Nat
    BY <1>3
  <2> HIDE DEF p
  <2>2. /\ p \div 200 \in Nat /\ p % 200 \in 0..199
        /\ p = (p \div 200) * 200 + (p % 200)
    BY <2>1, Hundredths
  <2> QED BY <2>2 DEF p
<1> HIDE DEF t, u
<1>5. n * elapsed = 200 * (q * n) + r * n
  BY <1>1
<1> DEFINE x == q * n
           y == r * n
<1>6. x \in Nat /\ y \in Nat /\ y + 199 = t * 200 + u /\ n * elapsed = 200 * x + y
  BY <1>3, <1>4, <1>5
<1> HIDE DEF x, y
<1>7. delta >= x + t <=> 200 * x + y <= 200 * delta
  BY <1>4, <1>6
<1> QED BY <1>2, <1>6, <1>7 DEF n, x

\* frame_pacer_drm_fdinfo_utilisation rounds to the nearest percent, and shows
\* no more than 100.
LEMMA UtilisationIsRounded ==
    ASSUME NEW delta \in Nat, NEW elapsed \in Nat \ {0}
    PROVE  utilisation(delta, elapsed) = Rounded(delta, elapsed)
<1> DEFINE a == 200 * delta + elapsed
           b == 2 * elapsed
           q == a \div b
           k == IF 100 <= q THEN 100 ELSE q
<1>1. a \in Nat /\ b \in Nat \ {0}
  OBVIOUS
<1>2. q \in Nat /\ q * b <= a /\ a < q * b + b
  <2> HIDE DEF a, b
  <2> QED BY <1>1, Quotient
<1>3. ASSUME NEW c \in 1..100
      PROVE  c <= q <=> c * b <= a
  <2> HIDE DEF a, b, q
  <2>1. CASE c <= q
    <3>1. c * b <= q * b
      BY <1>1, <1>2, <2>1
    <3> QED BY <1>1, <1>2, <2>1, <3>1
  <2>2. CASE ~(c <= q)
    <3>1. (q + 1) * b <= c * b
      BY <1>1, <1>2, <2>2
    <3>2. (q + 1) * b = q * b + b
      BY <1>1, <1>2
    <3> QED BY <1>1, <1>2, <2>2, <3>1, <3>2
  <2> QED BY <2>1, <2>2
<1>4. ASSUME NEW c \in 1..100
      PROVE  c * b <= a <=> (2 * c - 1) * elapsed <= 200 * delta
  <2> DEFINE p == c * elapsed
  <2>1. p \in Nat /\ c * b = 2 * p /\ (2 * c - 1) * elapsed = 2 * p - elapsed
    OBVIOUS
  <2> HIDE DEF p
  <2> QED BY <2>1
<1>5. {c \in 1..100 : delta >= Threshold(elapsed, c)} = 1..k
  <2> HIDE DEF a, b, q
  <2>1. \A c \in 1..100 : delta >= Threshold(elapsed, c) <=> c <= q
    BY <1>3, <1>4, ThresholdIs
  <2>2. \A c : c \in 1..k <=> c \in 1..100 /\ c <= q
    BY <1>2
  <2> QED BY <2>1, <2>2
<1>6. k \in Nat
  BY <1>2
<1>7. Cardinality(1..k) = k
  <2> HIDE DEF k
  <2> QED BY <1>6, FS_Interval
<1>8. Rounded(delta, elapsed) = k
  BY <1>2, MinOfTwo DEF Rounded
<1> QED BY <1>5, <1>7, <1>8 DEF utilisation
-----------------------------------------------------------------------------
\* What is chosen from a set.
One(X) == CHOOSE x \in X : TRUE

\* h[X] is the sum of w over X, for every subset X of S.
SumsUp(w, S, h) ==
    \A X \in SUBSET S :
        h[X] = IF X = {} THEN 0 ELSE w[One(X)] + h[X \ {One(X)}]

\* A member less, and one less in number.
LEMMA OneLess ==
    ASSUME NEW S, IsFiniteSet(S), NEW X \in SUBSET S, X # {}
    PROVE  /\ One(X) \in X /\ X \ {One(X)} \in SUBSET S
           /\ Cardinality(X) \in Nat /\ Cardinality(X \ {One(X)}) \in Nat
           /\ Cardinality(X \ {One(X)}) + 1 = Cardinality(X)
<1>1. One(X) \in X /\ X \ {One(X)} \in SUBSET S
  BY DEF One
<1>2. IsFiniteSet(X)
  BY FS_Subset
<1>3. /\ Cardinality(X) \in Nat /\ IsFiniteSet(X \ {One(X)})
      /\ Cardinality(X \ {One(X)}) = Cardinality(X) - 1
  BY <1>1, <1>2, FS_CardinalityType, FS_RemoveElement
<1>4. Cardinality(X \ {One(X)}) \in Nat
  BY <1>3, FS_CardinalityType
<1> QED BY <1>1, <1>3, <1>4

\* Sums exist.
LEMMA SumExists ==
    ASSUME NEW S, IsFiniteSet(S), NEW w \in [S -> Nat]
    PROVE  \E h \in [SUBSET S -> Nat] : SumsUp(w, S, h)
<1> DEFINE n == Cardinality(S)
           Small(m) == {X \in SUBSET S : Cardinality(X) <= m}
           Is(m, h) == \A X \in Small(m) :
              h[X] = IF X = {} THEN 0 ELSE w[One(X)] + h[X \ {One(X)}]
           G == {m \in 0..n : \E h \in [SUBSET S -> Nat] : Is(m, h)}
<1>1. n \in Nat /\ \A X \in SUBSET S : Cardinality(X) \in 0..n
  <2>1. \A X \in SUBSET S : /\ IsFiniteSet(X) /\ Cardinality(X) \in Nat
                            /\ Cardinality(X) <= Cardinality(S)
    BY FS_Subset, FS_CardinalityType
  <2> QED BY <2>1, FS_CardinalityType
<1>2. 0 \in G
  <2> DEFINE h == [X \in SUBSET S |-> 0]
  <2>1. h \in [SUBSET S -> Nat]
    OBVIOUS
  <2>2. ASSUME NEW X \in Small(0) PROVE X = {}
    <3>1. IsFiniteSet(X) /\ Cardinality(X) = 0
      BY <1>1, FS_Subset
    <3> QED BY <3>1, FS_EmptySet
  <2>3. Is(0, h)
    BY <2>2
  <2>4. 0 \in 0..n
    BY <1>1
  <2> HIDE DEF h, Is
  <2> QED BY <2>1, <2>3, <2>4
<1>3. ASSUME NEW m \in 0..n - 1, m \in G
      PROVE  m + 1 \in G
  <2>1. PICK g \in [SUBSET S -> Nat] : Is(m, g)
    BY <1>3
  <2>2. m \in Nat /\ m + 1 \in 0..n
    BY <1>1
  <2> DEFINE h == [X \in SUBSET S |->
                     IF X = {} THEN 0 ELSE w[One(X)] + g[X \ {One(X)}]]
  <2>3. h \in [SUBSET S -> Nat]
    <3>1. ASSUME NEW X \in SUBSET S, X # {}
          PROVE  w[One(X)] + g[X \ {One(X)}] \in Nat
      <4>1. One(X) \in S /\ X \ {One(X)} \in SUBSET S
        BY <3>1, OneLess
      <4>2. w[One(X)] \in Nat /\ g[X \ {One(X)}] \in Nat
        BY <2>1, <4>1
      <4> QED BY <4>2
    <3> QED BY <3>1
  <2>4. \A X \in Small(m) : h[X] = g[X]
    BY <2>1
  <2>5. ASSUME NEW X \in Small(m + 1)
        PROVE  h[X] = IF X = {} THEN 0 ELSE w[One(X)] + h[X \ {One(X)}]
    <3>1. CASE X = {}
      BY <3>1
    <3>2. CASE X # {}
      <4> DEFINE Y == X \ {One(X)}
      <4>1. Y \in SUBSET S /\ Cardinality(Y) + 1 = Cardinality(X)
            /\ Cardinality(Y) \in Nat /\ Cardinality(X) <= m + 1
        BY <3>2, OneLess
      <4>2. Y \in Small(m)
        <5> HIDE DEF Y
        <5> QED BY <2>2, <4>1
      <4>3. h[Y] = g[Y]
        BY <2>4, <4>2
      <4>4. h[X] = w[One(X)] + g[Y]
        BY <3>2
      <4> HIDE DEF h
      <4> QED BY <3>2, <4>3, <4>4
    <3> QED BY <3>1, <3>2
  <2>6. Is(m + 1, h)
    <3> HIDE DEF h, Small
    <3> QED BY <2>5
  <2> HIDE DEF h, Is
  <2> QED BY <2>2, <2>3, <2>6
<1>4. n \in G
  <2> HIDE DEF G, n
  <2>1. n \in 0..n
    BY <1>1
  <2> QED BY <1>1, <1>2, <1>3, <2>1, Induct
<1>5. PICK h \in [SUBSET S -> Nat] : Is(n, h)
  BY <1>4
<1>6. \A X \in SUBSET S : X \in Small(n)
  BY <1>1
<1>7. SumsUp(w, S, h)
  <2> HIDE DEF Small, n
  <2> QED BY <1>5, <1>6 DEF SumsUp
<1> QED BY <1>7

\* And are unique.
LEMMA SumUnique ==
    ASSUME NEW S, IsFiniteSet(S), NEW w \in [S -> Nat], NEW h, NEW g,
           SumsUp(w, S, h), SumsUp(w, S, g)
    PROVE  h[S] = g[S]
<1> DEFINE n == Cardinality(S)
           G == {m \in 0..n :
                   \A X \in SUBSET S : Cardinality(X) = m => h[X] = g[X]}
<1>1. n \in Nat
  BY FS_CardinalityType
<1>2. 0 \in G
  <2>1. ASSUME NEW X \in SUBSET S, Cardinality(X) = 0
        PROVE  h[X] = g[X]
    <3>1. X = {}
      BY <2>1, FS_Subset, FS_EmptySet
    <3> QED BY <3>1 DEF SumsUp
  <2>2. 0 \in 0..n
    BY <1>1
  <2> HIDE DEF n
  <2> QED BY <2>1, <2>2
<1>3. ASSUME NEW m \in 0..n - 1, m \in G
      PROVE  m + 1 \in G
  <2>1. m \in Nat /\ m + 1 \in 0..n
    BY <1>1
  <2>2. ASSUME NEW X \in SUBSET S, Cardinality(X) = m + 1
        PROVE  h[X] = g[X]
    <3> DEFINE Y == X \ {One(X)}
    <3>1. X # {}
      <4>1. Cardinality({}) = 0 /\ m + 1 # 0
        BY <2>1, FS_EmptySet
      <4> QED BY <2>2, <4>1
    <3>2. Y \in SUBSET S /\ Cardinality(Y) + 1 = Cardinality(X)
          /\ Cardinality(Y) \in Nat
      BY <3>1, OneLess
    <3>3. h[X] = w[One(X)] + h[Y] /\ g[X] = w[One(X)] + g[Y]
      BY <3>1 DEF SumsUp
    <3> HIDE DEF Y
    <3>4. Cardinality(Y) = m
      BY <2>1, <2>2, <3>2
    <3>5. h[Y] = g[Y]
      BY <1>3, <3>2, <3>4
    <3> QED BY <3>3, <3>5
  <2> HIDE DEF n
  <2> QED BY <2>1, <2>2
<1>4. n \in G
  <2> HIDE DEF G, n
  <2>1. n \in 0..n
    BY <1>1
  <2> QED BY <1>1, <1>2, <1>3, <2>1, Induct
<1>5. S \in SUBSET S
  OBVIOUS
<1> QED BY <1>4, <1>5

\* The sum of w over S.
Total(w, S) == (CHOOSE h \in [SUBSET S -> Nat] : SumsUp(w, S, h))[S]

LEMMA TotalIs ==
    ASSUME NEW S, IsFiniteSet(S), NEW w \in [S -> Nat]
    PROVE  /\ Total(w, S) \in Nat
           /\ \A h : SumsUp(w, S, h) => h[S] = Total(w, S)
<1> DEFINE g == CHOOSE h \in [SUBSET S -> Nat] : SumsUp(w, S, h)
<1>1. g \in [SUBSET S -> Nat] /\ SumsUp(w, S, g)
  BY SumExists
<1>2. Total(w, S) = g[S]
  BY DEF Total
<1> HIDE DEF g
<1>3. S \in SUBSET S
  OBVIOUS
<1>4. g[S] \in Nat
  BY <1>1, <1>3
<1>5. \A h : SumsUp(w, S, h) => h[S] = g[S]
  BY <1>1, SumUnique
<1> QED BY <1>2, <1>4, <1>5

-----------------------------------------------------------------------------
\* Sums of the GPU's increases are sums of a function.
Increase(drm, clients, e, S) ==
    [c \in S |-> Max({0, clients[c][e] - drm.clients[c][e]})]

LEMMA DeltaIsTotal ==
    ASSUME NEW drm, NEW clients, NEW e,
           NEW S, S = {c \in DOMAIN clients : Comparable(drm, clients, c, e)},
           IsFiniteSet(S), Increase(drm, clients, e, S) \in [S -> Nat]
    PROVE  Delta(drm, clients, e) = Total(Increase(drm, clients, e, S), S)
<1> DEFINE f(c) == Max({0, clients[c][e] - drm.clients[c][e]})
           w == Increase(drm, clients, e, S)
           G(h) == [X \in SUBSET S |->
                      IF X = {} THEN 0
                      ELSE LET x == CHOOSE x \in X : TRUE
                           IN  f(x) + h[X \ {x}]]
           acc == CHOOSE h : h = G(h)
<1>1. \A c \in S : w[c] = f(c)
  BY DEF Increase
<1>2. PICK h \in [SUBSET S -> Nat] : SumsUp(w, S, h)
  <2> HIDE DEF w
  <2> QED BY SumExists DEF w
<1>3. \A X \in SUBSET S : X # {} => One(X) \in S
  BY DEF One
<1> HIDE DEF f, w
<1>4. h = G(h)
  <2>1. ASSUME NEW X \in SUBSET S
        PROVE  h[X] = IF X = {} THEN 0 ELSE f(One(X)) + h[X \ {One(X)}]
    BY <1>1, <1>2, <1>3 DEF SumsUp
  <2>2. h = [X \in SUBSET S |->
               IF X = {} THEN 0 ELSE f(One(X)) + h[X \ {One(X)}]]
    BY <1>2, <2>1
  <2> QED BY <2>2 DEF One
<1>5. acc = G(acc)
  <2> HIDE DEF G
  <2> QED BY <1>4
<1>6. Delta(drm, clients, e) = acc[S]
  BY DEF Delta, MapThenSumSet, MapThenFoldSet, f
<1> HIDE DEF acc
<1>7. SumsUp(w, S, acc)
  <2>1. ASSUME NEW X \in SUBSET S
        PROVE  acc[X] = IF X = {} THEN 0 ELSE w[One(X)] + acc[X \ {One(X)}]
    <3>1. acc[X] = IF X = {} THEN 0 ELSE f(One(X)) + acc[X \ {One(X)}]
      <4>1. G(acc)[X] = IF X = {} THEN 0 ELSE f(One(X)) + acc[X \ {One(X)}]
        BY DEF One
      <4> HIDE DEF G
      <4> QED BY <1>5, <4>1
    <3>2. X # {} => w[One(X)] = f(One(X))
      BY <1>1, <1>3
    <3> QED BY <3>1, <3>2
  <2> QED BY <2>1 DEF SumsUp
<1> QED BY <1>6, <1>7, TotalIs DEF w

-----------------------------------------------------------------------------
(* What a sample does to each of the three sources.                        *)

\* The parts of the sampler's state.
Shape ==
    metrics = [cpu |-> metrics.cpu, slots |-> metrics.slots,
               thread |-> metrics.thread, drm |-> metrics.drm,
               gpu |-> metrics.gpu]

\* A sample after which the processor was read: from `cpu' and the readings
\* `read' since the last reset.
CpuStep(cpu, read, o) ==
    /\ metrics'.cpu = sample_cpu(cpu, o.cpu).cpu
    /\ shown'.cpu = sample_cpu(cpu, o.cpu).percent
    /\ past'.cpu = IF o.cpu = NoCpu THEN read ELSE Append(read, o.cpu)

\* The fold of a pass over the children.
Passed(slots, now, children) ==
    FoldLeft(LAMBDA a, e : sample_child(a, e, now),
             [slots |-> slots, reset |-> FALSE, available |-> FALSE,
              peak |-> 0], children)

\* What a pass leaves.
PassStep(slots, thread, read, now, children) ==
    LET acc == Passed(slots, now, children)
        ok == acc.available /\ ~acc.reset
    IN  /\ metrics'.slots = prune_thread_cpu_slots(acc.slots, now)
        /\ metrics'.thread = [sample_ns |-> now, available |-> ok,
                              percent |-> IF ok THEN acc.peak
                                          ELSE thread.percent]
        /\ past'.threads = Append(read, [at |-> now, children |-> children])

ThreadStep(slots, thread, read, now, o) ==
    /\ \/ /\ metrics'.slots = slots /\ metrics'.thread = thread
          /\ past'.threads = read
       \/ /\ metrics'.slots = Empty /\ metrics'.thread = NoThread
          /\ past'.threads = <<>>
       \/ /\ now # 0
          /\ \/ thread.sample_ns = 0
             \/ now < thread.sample_ns
             \/ now - thread.sample_ns >= Interval
          /\ PassStep(slots, thread, read, now, o.threads.children)
    /\ shown'.thread = IF metrics'.thread.available
                       THEN metrics'.thread.percent ELSE NoValue

DrmStep(drm, read, now, o) ==
    \/ /\ metrics'.drm = drm /\ past'.drm = read
       /\ shown'.source = "nvml" \/ shown'.gpu = NoValue
    \/ LET r == commit_sample(drm, Merged(o.drm.fds), now)
       IN  /\ now # 0 /\ metrics'.drm = r.drm /\ shown'.gpu = r.percent
           /\ past'.drm = IF r.drm # drm
                          THEN Append(read, [at |-> now,
                                             clients |-> Merged(o.drm.fds)])
                          ELSE read

\* A sample begins with what there is, or with nothing after a reset.
Samples(cpu, slots, thread, drm, read, now, o) ==
    /\ CpuStep(cpu, read.cpu, o)
    /\ ThreadStep(slots, thread, read.threads, now, o)
    /\ DrmStep(drm, read.drm, now, o)

\* The sampler's record with a new GPU and new processor counters.
LEMMA GpuAndCpu ==
    ASSUME NEW y, NEW g, NEW x, NEW z, z = [y EXCEPT !.gpu = g, !.cpu = x],
           y = [cpu |-> y.cpu, slots |-> y.slots, thread |-> y.thread,
                drm |-> y.drm, gpu |-> y.gpu]
    PROVE  /\ z = [cpu |-> z.cpu, slots |-> z.slots, thread |-> z.thread,
                   drm |-> z.drm, gpu |-> z.gpu]
           /\ z.cpu = x /\ z.slots = y.slots /\ z.thread = y.thread
           /\ z.drm = y.drm
  OBVIOUS

LEMMA SampleEffect ==
    ASSUME Shape, NEW reset \in BOOLEAN, NEW step, NEW o,
           Sample(reset, step, o)
    PROVE  /\ Shape' /\ monotonic' = monotonic + step
           /\ monotonic' <= CounterMax
           /\ \E now \in {0, monotonic'} :
                \/ Samples(metrics.cpu, metrics.slots, metrics.thread,
                           metrics.drm, past, now, o)
                \/ Samples(NoCpu, Empty, NoThread, NoDrm, NoReadings, now, o)
<1> DEFINE m0 == IF reset THEN reset_utilization(metrics) ELSE metrics
           read == IF reset THEN NoReadings ELSE past
           now == IF o.clock THEN monotonic + step ELSE 0
           gpu == IF now = 0 THEN m0.gpu
                  ELSE refresh_gpu_provider(m0.gpu, now, o)
           cpu == sample_cpu(m0.cpu, o.cpu)
           m1 == [m0 EXCEPT !.gpu = gpu, !.cpu = cpu.cpu]
           m == sample_thread_cpu(m1, now, o.threads)
           nvml == NvmlUse(gpu, o)
           useDrm == nvml = NoValue /\ gpu.node # "none" /\ now # 0
           drm == IF useDrm THEN sample_drm(m.drm, now, o.drm)
                  ELSE [drm |-> m.drm, percent |-> NoValue]
           pass == now # 0 /\ o.threads.ok /\ PassDue(m0, now)
           Fields(x) == x = [cpu |-> x.cpu, slots |-> x.slots,
                             thread |-> x.thread, drm |-> x.drm,
                             gpu |-> x.gpu]
<1>1. /\ monotonic' = monotonic + step /\ monotonic + step <= CounterMax
      /\ metrics' = [m EXCEPT !.drm = drm.drm]
      /\ shown'.cpu = cpu.percent
      /\ shown'.thread = IF m.thread.available THEN m.thread.percent
                         ELSE NoValue
      /\ shown'.gpu = IF nvml # NoValue THEN nvml ELSE drm.percent
      /\ shown'.source = IF nvml # NoValue THEN "nvml" ELSE "drm"
      /\ past'.cpu = IF o.cpu = NoCpu THEN read.cpu ELSE Append(read.cpu, o.cpu)
      /\ past'.threads = IF now # 0 /\ ~o.threads.ok THEN <<>>
                         ELSE IF pass
                         THEN Append(read.threads,
                                     [at |-> now, children |-> o.threads.children])
                         ELSE read.threads
      /\ past'.drm = IF useDrm /\ drm.drm # m.drm
                     THEN Append(read.drm, [at |-> now,
                                            clients |-> Merged(o.drm.fds)])
                     ELSE read.drm
  <2> HIDE DEF cpu, gpu, m, drm, nvml
  <2> QED BY DEF Sample, cpu, gpu, m, drm, nvml
<1>2. /\ Fields(m0)
      /\ \/ /\ m0.cpu = metrics.cpu /\ m0.slots = metrics.slots
            /\ m0.thread = metrics.thread /\ m0.drm = metrics.drm
            /\ read = past
         \/ /\ m0.cpu = NoCpu /\ m0.slots = Empty
            /\ m0.thread = NoThread /\ m0.drm = NoDrm
            /\ read = NoReadings
  BY DEF Shape, reset_utilization
<1>3. now \in {0, monotonic'}
  BY <1>1
<1> HIDE DEF m0, read, now, gpu, cpu
<1>4. /\ Fields(m1) /\ m1.cpu = cpu.cpu /\ m1.slots = m0.slots
      /\ m1.thread = m0.thread /\ m1.drm = m0.drm
  <2> DEFINE x == cpu.cpu
  <2>1. Fields(m0) /\ m1 = [m0 EXCEPT !.gpu = gpu, !.cpu = x]
    BY <1>2
  <2> HIDE DEF x, m1
  <2>2. /\ Fields(m1) /\ m1.cpu = x /\ m1.slots = m0.slots
        /\ m1.thread = m0.thread /\ m1.drm = m0.drm
    BY <2>1, GpuAndCpu
  <2> QED BY <2>2 DEF x
<1> HIDE DEF m1
<1>5. /\ Fields(m) /\ m.cpu = m1.cpu /\ m.drm = m1.drm
      /\ \/ /\ now = 0 \/ (o.threads.ok /\ ~PassDue(m1, now))
            /\ m.slots = m1.slots /\ m.thread = m1.thread
         \/ /\ now # 0 /\ ~o.threads.ok
            /\ m.slots = Empty /\ m.thread = NoThread
         \/ /\ now # 0 /\ o.threads.ok /\ PassDue(m1, now)
            /\ LET acc == Passed(m1.slots, now, o.threads.children)
                   ok == acc.available /\ ~acc.reset
               IN  /\ m.slots = prune_thread_cpu_slots(acc.slots, now)
                   /\ m.thread = [sample_ns |-> now, available |-> ok,
                                  percent |-> IF ok THEN acc.peak
                                              ELSE m1.thread.percent]
  <2>1. CASE now = 0
    BY <1>4, <2>1 DEF sample_thread_cpu
  <2>2. CASE now # 0 /\ ~o.threads.ok
    BY <1>4, <2>2 DEF sample_thread_cpu
  <2>3. CASE now # 0 /\ o.threads.ok /\ ~PassDue(m1, now)
    BY <1>4, <2>3 DEF sample_thread_cpu
  <2>4. CASE now # 0 /\ o.threads.ok /\ PassDue(m1, now)
    <3> DEFINE acc == Passed(m1.slots, now, o.threads.children)
               ok == acc.available /\ ~acc.reset
    <3>1. m = thread_pass(m1, now, o.threads.children)
      BY <2>4 DEF sample_thread_cpu
    <3>2. thread_pass(m1, now, o.threads.children) =
             [m1 EXCEPT !.slots = prune_thread_cpu_slots(acc.slots, now),
                        !.thread = [sample_ns |-> now, available |-> ok,
                                    percent |-> IF ok THEN acc.peak
                                                ELSE @.percent]]
      BY DEF thread_pass, Passed
    <3> HIDE DEF m
    <3>3. m = [m1 EXCEPT !.slots = prune_thread_cpu_slots(acc.slots, now),
                         !.thread = [sample_ns |-> now, available |-> ok,
                                     percent |-> IF ok THEN acc.peak
                                                 ELSE m1.thread.percent]]
      BY <3>1, <3>2
    <3> HIDE DEF acc
    <3>4. /\ Fields(m) /\ m.cpu = m1.cpu /\ m.drm = m1.drm
          /\ m.slots = prune_thread_cpu_slots(acc.slots, now)
          /\ m.thread = [sample_ns |-> now, available |-> ok,
                         percent |-> IF ok THEN acc.peak
                                     ELSE m1.thread.percent]
      BY <1>4, <3>3
    <3> QED BY <2>4, <3>4 DEF acc
  <2> HIDE DEF m
  <2> QED BY <2>1, <2>2, <2>3, <2>4
<1> HIDE DEF m
<1>6. /\ Shape' /\ metrics'.cpu = m.cpu /\ metrics'.slots = m.slots
      /\ metrics'.thread = m.thread /\ metrics'.drm = drm.drm
  <2> HIDE DEF drm
  <2> QED BY <1>1, <1>5 DEF Shape
<1>7. CpuStep(m0.cpu, read.cpu, o)
  BY <1>1, <1>4, <1>5, <1>6 DEF CpuStep, cpu
<1>8. ThreadStep(m0.slots, m0.thread, read.threads, now, o)
  <2>0. pass <=> now # 0 /\ o.threads.ok /\ PassDue(m1, now)
    BY <1>4 DEF PassDue
  <2>9. shown'.thread = IF metrics'.thread.available
                       THEN metrics'.thread.percent ELSE NoValue
    BY <1>1, <1>6
  <2> HIDE DEF pass, useDrm, drm
  <2>1. CASE now = 0 \/ (o.threads.ok /\ ~PassDue(m1, now))
    BY <1>1, <1>4, <1>5, <1>6, <2>0, <2>1, <2>9 DEF ThreadStep
  <2>2. CASE now # 0 /\ ~o.threads.ok
    BY <1>1, <1>4, <1>5, <1>6, <2>0, <2>2, <2>9 DEF ThreadStep
  <2>3. CASE now # 0 /\ o.threads.ok /\ PassDue(m1, now)
    <3>1. PassStep(m0.slots, m0.thread, read.threads, now, o.threads.children)
      BY <1>1, <1>4, <1>5, <1>6, <2>0, <2>3 DEF PassStep
    <3> QED BY <1>4, <2>3, <2>9, <3>1 DEF ThreadStep, PassDue
  <2> QED BY <2>1, <2>2, <2>3
<1>9. DrmStep(m0.drm, read.drm, now, o)
  <2> DEFINE c == Merged(o.drm.fds)
             r == commit_sample(m.drm, c, now)
  <2>1. m.drm = m0.drm
    BY <1>4, <1>5
  <2>2. CASE ~useDrm
    <3>1. drm = [drm |-> m.drm, percent |-> NoValue]
      BY <2>2
    <3>2. drm.drm = m.drm /\ drm.percent = NoValue
      BY <3>1
    <3> HIDE DEF drm, useDrm
    <3> QED BY <1>1, <1>6, <2>1, <2>2, <3>2 DEF DrmStep
  <2>3. CASE useDrm /\ ~DrmValid(o.drm)
    <3>1. drm = [drm |-> m.drm, percent |-> NoValue]
      BY <2>3 DEF sample_drm
    <3>2. drm.drm = m.drm /\ drm.percent = NoValue
      BY <3>1
    <3> HIDE DEF drm, useDrm
    <3> QED BY <1>1, <1>6, <2>1, <3>2 DEF DrmStep
  <2>4. CASE useDrm /\ DrmValid(o.drm)
    <3>1. drm = r
      BY <2>4 DEF sample_drm
    <3>2. now # 0 /\ nvml = NoValue
      BY <2>4
    <3> HIDE DEF drm, useDrm, nvml, c, r
    <3>3. /\ metrics'.drm = r.drm /\ shown'.gpu = r.percent
          /\ past'.drm = IF r.drm # m.drm
                         THEN Append(read.drm, [at |-> now, clients |-> c])
                         ELSE read.drm
      BY <1>1, <1>6, <2>4, <3>1, <3>2 DEF c
    <3> QED BY <2>1, <3>2, <3>3 DEF DrmStep, r, c
  <2> QED BY <2>2, <2>3, <2>4
<1>10. Samples(m0.cpu, m0.slots, m0.thread, m0.drm, read, now, o)
  BY <1>7, <1>8, <1>9 DEF Samples
<1> QED BY <1>1, <1>2, <1>3, <1>6, <1>10
-----------------------------------------------------------------------------
(* The processor.                                                          *)

Reading == [total : Nat, idle : Nat]

\* The counters kept are those read last.
CpuKept(cpu, read) ==
    /\ read \in Seq(Reading)
    /\ cpu = IF read = <<>> THEN NoCpu ELSE read[Len(read)]

CpuInv == CpuKept(metrics.cpu, past.cpu) /\ CpuUseIsReference

\* Two readings and the use between them.
LEMMA CpuUse ==
    ASSUME NEW total \in Nat \ {0}, NEW idle \in Nat
    PROVE  utilisation(total - Min({idle, total}), total)
             = Rounded(Max({0, total - idle}), total)
<1> DEFINE d == IF idle <= total THEN total - idle ELSE 0
<1>1. total - Min({idle, total}) = d /\ Max({0, total - idle}) = d /\ d \in Nat
  <2>1. Min({idle, total}) = IF idle <= total THEN idle ELSE total
    BY MinOfTwo
  <2>2. Max({0, total - idle}) = IF 0 <= total - idle THEN total - idle ELSE 0
    <3> DEFINE z == total - idle
    <3>1. z \in Int
      OBVIOUS
    <3> HIDE DEF z
    <3>2. Max({0, z}) = IF 0 <= z THEN z ELSE 0
      BY <3>1, MaxOfTwo
    <3> QED BY <3>2 DEF z
  <2> QED BY <2>1, <2>2
<1> HIDE DEF d
<1> QED BY <1>1, UtilisationIsRounded

LEMMA CpuStays ==
    ASSUME NEW cpu, NEW read, NEW o, CpuKept(cpu, read),
           o.cpu = NoCpu \/ o.cpu \in Reading,
           CpuStep(cpu, read, o)
    PROVE  CpuInv'
<1> DEFINE n == Len(read)
<1>1. n \in Nat /\ (read # <<>> => n # 0 /\ read[n] \in Reading)
  BY DEF CpuKept
<1>2. \A r \in Reading : r # NoCpu /\ r.total \in Nat /\ r.idle \in Nat
  BY DEF Reading, NoCpu, NoValue
<1>3. CASE o.cpu = NoCpu
  <2>1. metrics'.cpu = cpu /\ past'.cpu = read /\ shown'.cpu = NoValue
    BY <1>3 DEF CpuStep, sample_cpu
  <2> QED BY <2>1 DEF CpuInv, CpuKept, CpuUseIsReference
<1>4. CASE o.cpu \in Reading
  <2> DEFINE total == o.cpu.total - cpu.total
             idle == o.cpu.idle - cpu.idle
             p == Append(read, o.cpu)
  <2>1. /\ metrics'.cpu = o.cpu /\ past'.cpu = p
        /\ shown'.cpu = IF cpu # NoCpu /\ total > 0 /\ idle >= 0
                        THEN utilisation(total - Min({idle, total}), total)
                        ELSE NoValue
    BY <1>2, <1>4 DEF CpuStep, sample_cpu
  <2>2. p \in Seq(Reading) /\ Len(p) = n + 1 /\ p[n + 1] = o.cpu
        /\ \A i \in 1..n : p[i] = read[i]
    BY <1>4 DEF CpuKept
  <2>3. CpuKept(metrics'.cpu, past'.cpu)
    <3>1. p # <<>>
      BY <1>1, <2>2
    <3> HIDE DEF p
    <3> QED BY <2>1, <2>2, <3>1 DEF CpuKept
  <2>4. ASSUME shown'.cpu # NoValue
        PROVE  LET k == Len(past'.cpu)
                   t == past'.cpu[k].total - past'.cpu[k - 1].total
                   i == past'.cpu[k].idle - past'.cpu[k - 1].idle
               IN  /\ k >= 2 /\ t > 0 /\ i >= 0
                   /\ shown'.cpu = Rounded(Max({0, t - i}), t)
    <3>1. cpu # NoCpu /\ total > 0 /\ idle >= 0
          /\ shown'.cpu = utilisation(total - Min({idle, total}), total)
      BY <2>1, <2>4
    <3>2. read # <<>> /\ cpu = read[n] /\ cpu \in Reading /\ n # 0
      BY <1>1, <3>1 DEF CpuKept
    <3>3. total \in Nat \ {0} /\ idle \in Nat
      BY <1>2, <1>4, <3>1, <3>2
    <3>4. Len(p) - 1 = n /\ p[n] = cpu /\ Len(p) >= 2
      BY <1>1, <2>2, <3>2
    <3> HIDE DEF p, n
    <3>5. p[Len(p)] = o.cpu /\ p[Len(p) - 1] = cpu
      BY <2>2, <3>4
    <3> HIDE DEF total, idle
    <3>6. shown'.cpu = Rounded(Max({0, total - idle}), total)
      BY <3>1, <3>3, CpuUse
    <3> QED BY <2>1, <3>1, <3>4, <3>5, <3>6 DEF total, idle
  <2>5. CpuUseIsReference'
    BY <2>4 DEF CpuUseIsReference
  <2> QED BY <2>3, <2>5 DEF CpuInv
<1> QED BY <1>3, <1>4

-----------------------------------------------------------------------------
(* The GPU's counters.                                                     *)

\* An engine's value.
Value == Nat \cup {NoValue}

Descriptor == [id : Nat, engines : [Engines -> Value]]

\* The clients of a sample, each with its engines' values.
Clientele ==
    UNION {[X -> [Engines -> Value]] : X \in {X \in SUBSET Nat : IsFiniteSet(X)}}

GpuReading == [at : Nat, clients : Clientele]

LEMMA IsClientele ==
    ASSUME NEW c
    PROVE  c \in Clientele
             <=> /\ c = [x \in DOMAIN c |-> c[x]]
                 /\ DOMAIN c \in SUBSET Nat /\ IsFiniteSet(DOMAIN c)
                 /\ \A x \in DOMAIN c : c[x] \in [Engines -> Value]
  BY DEF Clientele

LEMMA MergeStays ==
    ASSUME NEW c \in Clientele, NEW d \in Descriptor
    PROVE  merge_client(c, d) \in Clientele
<1> DEFINE id == d.id
           u == IF id \in DOMAIN c
                THEN [e \in Engines |-> Max({c[id][e], d.engines[e]})]
                ELSE d.engines
           m == Put(c, id, u)
<1>1. id \in Nat /\ d.engines \in [Engines -> Value]
  BY DEF Descriptor
<1>2. \A x, y \in Value : Max({x, y}) \in Value
  <2>1. Value \in SUBSET Int
    BY DEF Value, NoValue
  <2> QED BY <2>1, MaxOfTwo
<1>3. /\ DOMAIN c \in SUBSET Nat /\ IsFiniteSet(DOMAIN c)
      /\ \A x \in DOMAIN c : c[x] \in [Engines -> Value]
  BY IsClientele
<1>4. u \in [Engines -> Value]
  BY <1>1, <1>2, <1>3
<1>5. merge_client(c, d) = m
  BY DEF merge_client
<1> HIDE DEF u, id
<1>6. DOMAIN m = DOMAIN c \cup {id}
      /\ m = [x \in DOMAIN m |-> m[x]]
      /\ \A x \in DOMAIN m : m[x] = IF x = id THEN u ELSE c[x]
  BY DEF Put
<1>7. DOMAIN m \in SUBSET Nat /\ IsFiniteSet(DOMAIN m)
  BY <1>1, <1>3, <1>6, FS_AddElement
<1>8. \A x \in DOMAIN m : m[x] \in [Engines -> Value]
  BY <1>3, <1>4, <1>6
<1> HIDE DEF m
<1>9. m \in Clientele
  BY <1>6, <1>7, <1>8, IsClientele
<1> QED BY <1>5, <1>9

LEMMA MergedIsClientele ==
    ASSUME NEW s \in Seq(Descriptor)
    PROVE  Merged(s) \in Clientele
<1>1. Empty \in Clientele
  <2>1. IsFiniteSet({})
    BY FS_EmptySet
  <2> QED BY <2>1 DEF Clientele, Empty
<1>2. \A c \in Clientele, d \in Descriptor : merge_client(c, d) \in Clientele
  BY MergeStays
<1> QED BY <1>1, <1>2, MergedIn

\* v is the largest of the marks S.
Largest(v, S) == v \in S /\ \A u \in S : u <= v

LEMMA MarksIn ==
    ASSUME NEW s \in Seq(GpuReading), NEW k \in 0..Len(s), NEW c, NEW e \in Engines
    PROVE  Marks(s, k, c, e) \in SUBSET Value /\ NoValue \in Marks(s, k, c, e)
<1>1. ASSUME NEW i \in 1..k, c \in DOMAIN s[i].clients
      PROVE  s[i].clients[c][e] \in Value
  <2>1. s[i] \in GpuReading
    OBVIOUS
  <2>2. s[i].clients \in Clientele
    BY <2>1 DEF GpuReading
  <2> QED BY <1>1, <2>2, IsClientele
<1>2. NoValue \in Value
  BY DEF Value
<1>3. ASSUME NEW v \in Marks(s, k, c, e) PROVE v \in Value
  <2>1. CASE v = NoValue
    BY <1>2, <2>1
  <2>2. CASE v # NoValue
    <3>1. PICK i \in 1..k : /\ v = s[i].clients[c][e]
                            /\ \A j \in i..k : c \in DOMAIN s[j].clients
      BY <2>2 DEF Marks
    <3>2. i \in i..k
      BY <3>1
    <3> QED BY <1>1, <3>1, <3>2
  <2> QED BY <2>1, <2>2
<1> QED BY <1>3 DEF Marks

\* A client or engine that was not there has no mark.
LEMMA MarksNone ==
    ASSUME NEW s, NEW k \in Nat, NEW c, NEW e,
           k = 0 \/ c \notin DOMAIN s[k].clients \/ s[k].clients[c][e] = NoValue
    PROVE  Marks(s, k, c, e) = {NoValue}
<1>1. \A i \in 1..k : k \in i..k /\ k # 0
  OBVIOUS
<1> QED BY <1>1 DEF Marks

\* t is s, of length k, with r added.
Grown(t, s, k, r) == (\A i \in 1..k : t[i] = s[i]) /\ t[k + 1] = r

\* Marks do not change when a sample is added, and the sample adds its value.
LEMMA MarksGrow ==
    ASSUME NEW s, NEW r, NEW t, NEW k \in Nat, Grown(t, s, k, r),
           NEW c, NEW e
    PROVE  /\ Marks(t, k, c, e) = Marks(s, k, c, e)
           /\ c \in DOMAIN r.clients /\ r.clients[c][e] # NoValue
                => Marks(t, k + 1, c, e)
                     = Marks(s, k, c, e) \cup {r.clients[c][e]}
<1>1. /\ \A i \in 1..k : t[i] = s[i]
      /\ t[k + 1] = r
  BY DEF Grown
<1>2. Marks(t, k, c, e) = Marks(s, k, c, e)
  <2>1. \A i \in 1..k : \A j \in i..k : t[j] = s[j]
    BY <1>1
  <2> QED BY <1>1, <2>1 DEF Marks
<1>3. ASSUME c \in DOMAIN r.clients, r.clients[c][e] # NoValue
      PROVE  Marks(t, k + 1, c, e) = Marks(s, k, c, e) \cup {r.clients[c][e]}
  <2> DEFINE There(q, j) == c \in DOMAIN q[j].clients /\ q[j].clients[c][e] # NoValue
             Val(q, j) == q[j].clients[c][e]
  <2>1. There(t, k + 1) /\ Val(t, k + 1) = r.clients[c][e]
    BY <1>1, <1>3
  <2>2. \A i \in 1..k : There(t, i) = There(s, i) /\ Val(t, i) = Val(s, i)
    BY <1>1
  <2>3. \A q, m, v : v \in Marks(q, m, c, e)
          <=> v = NoValue \/ \E i \in 1..m : v = Val(q, i) /\ \A j \in i..m : There(q, j)
    BY DEF Marks
  <2> HIDE DEF There, Val
  <2>4. ASSUME NEW v
        PROVE  (\E i \in 1..k + 1 : v = Val(t, i) /\ \A j \in i..k + 1 : There(t, j))
               <=> \/ v = r.clients[c][e]
                   \/ \E i \in 1..k : v = Val(s, i) /\ \A j \in i..k : There(s, j)
    <3>1. ASSUME NEW i \in 1..k + 1, v = Val(t, i), \A j \in i..k + 1 : There(t, j)
          PROVE  \/ v = r.clients[c][e]
                 \/ \E ii \in 1..k : v = Val(s, ii) /\ \A j \in ii..k : There(s, j)
      <4>1. CASE i = k + 1
        BY <2>1, <3>1, <4>1
      <4>2. CASE i # k + 1
        <5>1. i \in 1..k /\ \A j \in i..k : j \in 1..k /\ j \in i..k + 1
          BY <4>2
        <5> QED BY <2>2, <3>1, <5>1
      <4> QED BY <4>1, <4>2
    <3>2. ASSUME v = r.clients[c][e]
          PROVE  \E i \in 1..k + 1 : v = Val(t, i) /\ \A j \in i..k + 1 : There(t, j)
      <4>1. k + 1 \in 1..k + 1 /\ \A j \in k + 1..k + 1 : j = k + 1
        OBVIOUS
      <4> QED BY <2>1, <3>2, <4>1
    <3>3. ASSUME NEW i \in 1..k, v = Val(s, i), \A j \in i..k : There(s, j)
          PROVE  \E ii \in 1..k + 1 : v = Val(t, ii) /\ \A j \in ii..k + 1 : There(t, j)
      <4>1. i \in 1..k + 1 /\ \A j \in i..k + 1 : j = k + 1 \/ (j \in i..k /\ j \in 1..k)
        OBVIOUS
      <4> QED BY <2>1, <2>2, <3>3, <4>1
    <3> QED BY <3>1, <3>2, <3>3
  <2> DEFINE P == Marks(t, k + 1, c, e)
             Q == Marks(s, k, c, e) \cup {r.clients[c][e]}
  <2>5. \A v : v \in P <=> v \in Q
    <3>1. \A v : v \in P <=> v = NoValue
            \/ \E i \in 1..k + 1 : v = Val(t, i) /\ \A j \in i..k + 1 : There(t, j)
      BY <2>3
    <3>2. \A v : v \in Marks(s, k, c, e) <=> v = NoValue
            \/ \E i \in 1..k : v = Val(s, i) /\ \A j \in i..k : There(s, j)
      BY <2>3
    <3> QED BY <2>4, <3>1, <3>2
  <2> HIDE DEF P, Q
  <2>6. P = Q
    BY <2>5
  <2> QED BY <2>6 DEF P, Q
<1> QED BY <1>2, <1>3

\* What is kept are the marks of the readings since the last reset.
DrmKept(d, s) ==
    /\ s \in Seq(GpuReading)
    /\ d.started = (s # <<>>)
    /\ s # <<>> => /\ d.at = s[Len(s)].at
                   /\ DOMAIN d.clients = DOMAIN s[Len(s)].clients
                   /\ \A c \in DOMAIN d.clients, e \in Engines :
                        Largest(d.clients[c][e], Marks(s, Len(s), c, e))

\* An engine of a client can be compared if it has a mark, and the mark is kept.
LEMMA ComparableIs ==
    ASSUME NEW d, NEW s, DrmKept(d, s), NEW clients, NEW c \in DOMAIN clients,
           NEW e \in Engines, NEW n \in Nat, n = Len(s)
    PROVE  /\ Comparable(d, clients, c, e)
                <=> clients[c][e] # NoValue /\ Max(Marks(s, n, c, e)) # NoValue
           /\ Comparable(d, clients, c, e)
                => /\ Max(Marks(s, n, c, e)) = d.clients[c][e]
                   /\ Largest(d.clients[c][e], Marks(s, n, c, e))
                   /\ d.clients[c][e] \in Nat
           /\ ~Comparable(d, clients, c, e) /\ clients[c][e] # NoValue
                => Marks(s, n, c, e) = {NoValue}
<1> DEFINE M == Marks(s, n, c, e)
<1>1. s \in Seq(GpuReading) /\ (n = 0 <=> s = <<>>) /\ n \in 0..Len(s)
  BY DEF DrmKept
<1>2. M \in SUBSET Value /\ M \in SUBSET Int /\ NoValue \in M
  <2>1. Value \in SUBSET Int
    BY DEF Value, NoValue
  <2> QED BY <1>1, <2>1, MarksIn
<1>3. M = {NoValue} => Max(M) = NoValue
  <2>1. ASSUME M = {NoValue} PROVE \A u \in M : u <= NoValue
    BY <2>1 DEF NoValue
  <2> HIDE DEF M
  <2> QED BY <1>2, <2>1, MaxIs
<1>4. CASE n = 0
  <2>1. M = {NoValue} /\ ~d.started
    BY <1>1, <1>4, MarksNone DEF DrmKept
  <2> QED BY <1>3, <2>1 DEF Comparable
<1>5. CASE n # 0 /\ c \notin DOMAIN d.clients
  <2>1. c \notin DOMAIN s[n].clients
    BY <1>1, <1>5 DEF DrmKept
  <2>2. M = {NoValue}
    BY <2>1, MarksNone
  <2> QED BY <1>3, <1>5, <2>2 DEF Comparable
<1>6. CASE n # 0 /\ c \in DOMAIN d.clients
  <2> DEFINE v == d.clients[c][e]
  <2>1. Largest(v, M) /\ d.started
    BY <1>1, <1>6 DEF DrmKept
  <2>2. Max(M) = v /\ v \in Value
    <3>1. v \in M /\ \A u \in M : u <= v
      BY <2>1 DEF Largest
    <3> HIDE DEF M, v
    <3> QED BY <1>2, <3>1, MaxIs
  <2>3. v = NoValue => M = {NoValue}
    <3>1. \A u \in M : u <= v /\ u \in Value
      BY <1>2, <2>1 DEF Largest
    <3> HIDE DEF M, v
    <3>2. ASSUME v = NoValue, NEW u \in M PROVE u = NoValue
      <4>1. u <= NoValue /\ u \in Value
        BY <3>1, <3>2
      <4> QED BY <4>1 DEF Value, NoValue
    <3> QED BY <1>2, <3>2
  <2>4. v # NoValue => v \in Nat
    BY <2>2 DEF Value
  <2>5. Comparable(d, clients, c, e) <=> clients[c][e] # NoValue /\ v # NoValue
    BY <1>6, <2>1 DEF Comparable
  <2> HIDE DEF M
  <2> QED BY <2>1, <2>2, <2>3, <2>4, <2>5 DEF M
<1> QED BY <1>4, <1>5, <1>6

\* What a sample that succeeds keeps.
Committed(d, clients, now) ==
    [started |-> TRUE, at |-> now,
     clients |-> [c \in DOMAIN clients |->
                    [e \in Engines |-> HighWater(d, clients, c, e)]]]

\* The mark kept with a sample.
LEMMA MarkKept ==
    ASSUME NEW d, NEW s, DrmKept(d, s), NEW clients \in Clientele,
           NEW n \in Nat, n = Len(s), NEW t, NEW r, Grown(t, s, n, r),
           r.clients = clients,
           NEW c \in DOMAIN clients, NEW e \in Engines
    PROVE  Largest(HighWater(d, clients, c, e), Marks(t, n + 1, c, e))
<1> DEFINE v == clients[c][e]
           M == Marks(s, n, c, e)
<1>0. s \in Seq(GpuReading) /\ n \in 0..Len(s)
  BY DEF DrmKept
<1>1. v \in Value /\ M \in SUBSET Value
  <2>1. clients[c] \in [Engines -> Value]
    BY IsClientele
  <2> QED BY <1>0, <2>1, MarksIn
<1>2. v # NoValue => Marks(t, n + 1, c, e) = M \cup {v}
  <2>1. c \in DOMAIN r.clients /\ r.clients[c][e] # NoValue
           => Marks(t, n + 1, c, e)
                = Marks(s, n, c, e) \cup {r.clients[c][e]}
    BY ONLY n \in Nat, Grown(t, s, n, r), MarksGrow
  <2> QED BY <2>1
<1>3. CASE v = NoValue
  <2>1. Marks(t, n + 1, c, e) = {NoValue}
    <3>1. n + 1 \in Nat /\ t[n + 1].clients[c][e] = NoValue
      BY <1>3 DEF Grown
    <3> QED BY <3>1, MarksNone
  <2>2. HighWater(d, clients, c, e) = NoValue
    BY <1>3 DEF HighWater, Comparable
  <2> QED BY <2>1, <2>2 DEF Largest, NoValue
<1>4. CASE v # NoValue /\ Comparable(d, clients, c, e)
  <2> DEFINE u == d.clients[c][e]
  <2>1. Largest(u, M) /\ u \in Nat
    BY <1>4, ComparableIs
  <2>2. v \in Nat
    BY <1>1, <1>4 DEF Value
  <2>3. HighWater(d, clients, c, e) = IF v <= u THEN u ELSE v
    <3>1. Max({v, u}) = IF v <= u THEN u ELSE v
      <4> HIDE DEF u, v
      <4> QED BY <2>1, <2>2, MaxOfTwo
    <3> QED BY <1>4, <3>1 DEF HighWater
  <2>4. \A z \in M : z \in Int
    BY <1>1 DEF Value, NoValue
  <2> HIDE DEF u, v, M
  <2>5. Largest(IF v <= u THEN u ELSE v, M \cup {v})
    BY <2>1, <2>2, <2>4 DEF Largest
  <2> QED BY <1>2, <1>4, <2>3, <2>5
<1>5. CASE v # NoValue /\ ~Comparable(d, clients, c, e)
  <2>1. M = {NoValue}
    BY <1>5, ComparableIs
  <2>2. HighWater(d, clients, c, e) = v
    BY <1>5 DEF HighWater
  <2> HIDE DEF M, v
  <2>3. Largest(v, M \cup {v})
    BY <1>1, <1>5, <2>1 DEF Largest, Value, NoValue
  <2> QED BY <1>2, <1>5, <2>2, <2>3
<1> QED BY <1>3, <1>4, <1>5

LEMMA CommitKeeps ==
    ASSUME NEW d, NEW s, DrmKept(d, s), NEW clients \in Clientele,
           NEW now \in Nat, NEW t,
           t = Append(s, [at |-> now, clients |-> clients])
    PROVE  DrmKept(Committed(d, clients, now), t)
<1> DEFINE n == Len(s)
           r == [at |-> now, clients |-> clients]
           w == Committed(d, clients, now)
<1>1. s \in Seq(GpuReading) /\ n \in Nat /\ r \in GpuReading
  BY DEF DrmKept, GpuReading
<1>2. /\ t \in Seq(GpuReading) /\ t # <<>> /\ Len(t) = n + 1
      /\ t[n + 1] = r
  BY <1>1
<1>3. /\ w.started = TRUE /\ w.at = now /\ DOMAIN w.clients = DOMAIN clients
      /\ \A c \in DOMAIN clients, e \in Engines :
           w.clients[c][e] = HighWater(d, clients, c, e)
  BY DEF Committed
<1>4. \A c \in DOMAIN clients, e \in Engines :
         Largest(HighWater(d, clients, c, e), Marks(t, n + 1, c, e))
  <2>1. Grown(t, s, n, r) /\ r.clients = clients
    BY <1>1, <1>2 DEF Grown
  <2> HIDE DEF r, n
  <2> QED BY <1>1, <2>1, MarkKept DEF n
<1> HIDE DEF w, n, r
<1>5. \A c \in DOMAIN w.clients, e \in Engines :
         Largest(w.clients[c][e], Marks(t, n + 1, c, e))
  BY <1>3, <1>4
<1>6. w.at = t[n + 1].at /\ DOMAIN w.clients = DOMAIN t[n + 1].clients
  BY <1>2, <1>3 DEF r
<1>7. DrmKept(w, t)
  BY <1>2, <1>3, <1>5, <1>6 DEF DrmKept
<1> QED BY <1>7 DEF w

\* The reference's sums.
Uses(w, read, k, now, e, S) ==
    \A c \in S : w[c] = Max({0, now[c][e] - Max(Marks(read, k, c, e))})

LEMMA UseIsTotal ==
    ASSUME NEW read, NEW k, NEW now, NEW e, NEW S, IsFiniteSet(S),
           NEW w \in [S -> Nat], Uses(w, read, k, now, e, S)
    PROVE  Use(read, k, now, e, S) = Total(w, S)
<1> DEFINE f(c) == Max({0, now[c][e] - Max(Marks(read, k, c, e))})
           G(h) == [X \in SUBSET S |->
                      IF X = {} THEN 0
                      ELSE LET x == CHOOSE x \in X : TRUE
                           IN  f(x) + h[X \ {x}]]
           acc == CHOOSE h : h = G(h)
<1>1. \A c \in S : w[c] = f(c)
  BY DEF Uses
<1>2. PICK h \in [SUBSET S -> Nat] : SumsUp(w, S, h)
  BY SumExists
<1>3. \A X \in SUBSET S : X # {} => One(X) \in S
  BY DEF One
<1> HIDE DEF f
<1>4. h = G(h)
  <2>1. ASSUME NEW X \in SUBSET S
        PROVE  h[X] = IF X = {} THEN 0 ELSE f(One(X)) + h[X \ {One(X)}]
    BY <1>1, <1>2, <1>3 DEF SumsUp
  <2>2. h = [X \in SUBSET S |->
               IF X = {} THEN 0 ELSE f(One(X)) + h[X \ {One(X)}]]
    BY <1>2, <2>1
  <2> QED BY <2>2 DEF One
<1>5. acc = G(acc)
  <2> HIDE DEF G
  <2> QED BY <1>4
<1>6. Use(read, k, now, e, S) = acc[S]
  BY DEF Use, MapThenSumSet, MapThenFoldSet, f
<1> HIDE DEF acc
<1>7. SumsUp(w, S, acc)
  <2>1. ASSUME NEW X \in SUBSET S
        PROVE  acc[X] = IF X = {} THEN 0 ELSE w[One(X)] + acc[X \ {One(X)}]
    BY <1>1, <1>3, <1>5 DEF One
  <2> QED BY <2>1 DEF SumsUp
<1> QED BY <1>6, <1>7, TotalIs

\* The clients whose use of the engine the reference counts.
Counted(t, n, clients, e) ==
    {c \in DOMAIN clients : clients[c][e] # NoValue
                            /\ Max(Marks(t, n, c, e)) # NoValue}

\* The use of an engine is the reference's.
LEMMA EngineUse ==
    ASSUME NEW d, NEW s, DrmKept(d, s), NEW clients \in Clientele,
           NEW n \in Nat, n = Len(s), NEW t, NEW r, Grown(t, s, n, r),
           NEW e \in Engines, NEW S,
           S = Counted(t, n, clients, e)
    PROVE  /\ \A c \in DOMAIN clients : Comparable(d, clients, c, e) <=> c \in S
           /\ Delta(d, clients, e) \in Nat
           /\ Delta(d, clients, e) = Use(t, n, clients, e, S)
<1> DEFINE w == Increase(d, clients, e, S)
<1>1. \A c : Marks(t, n, c, e) = Marks(s, n, c, e)
  BY ONLY n \in Nat, Grown(t, s, n, r), MarksGrow
<1>2. \A c \in DOMAIN clients : Comparable(d, clients, c, e) <=> c \in S
  BY <1>1, ComparableIs DEF Counted
<1>3. S = {c \in DOMAIN clients : Comparable(d, clients, c, e)}
  BY <1>2 DEF Counted
<1>4. IsFiniteSet(S)
  <2>1. S \in SUBSET DOMAIN clients /\ IsFiniteSet(DOMAIN clients)
    BY <1>3, IsClientele
  <2> QED BY <2>1, FS_Subset
<1>5. ASSUME NEW c \in S
      PROVE  /\ w[c] \in Nat
             /\ w[c] = Max({0, clients[c][e] - Max(Marks(t, n, c, e))})
  <2> DEFINE u == d.clients[c][e]
             v == clients[c][e]
             x == v - u
  <2>0. c \in DOMAIN clients /\ v # NoValue
    BY <1>5 DEF Counted
  <2>1. u \in Nat /\ Max(Marks(t, n, c, e)) = u
    BY <1>1, <1>2, <2>0, ComparableIs
  <2>2. v \in Value
    <3>1. clients[c] \in [Engines -> Value]
      BY <2>0, IsClientele
    <3> QED BY <3>1
  <2>3. x \in Int
    <3> HIDE DEF u, v
    <3> QED BY <2>0, <2>1, <2>2 DEF Value
  <2>4. w[c] = Max({0, x})
    BY DEF Increase
  <2>5. Max({0, x}) \in Nat
    <3> HIDE DEF x
    <3>1. Max({0, x}) = IF 0 <= x THEN x ELSE 0
      BY <2>3, MaxOfTwo
    <3> QED BY <2>3, <3>1
  <2> HIDE DEF w
  <2> QED BY <2>1, <2>4, <2>5
<1>6. w \in [S -> Nat]
  BY <1>5 DEF Increase
<1> HIDE DEF w
<1>7. Delta(d, clients, e) = Total(w, S)
  BY <1>3, <1>4, <1>6, DeltaIsTotal DEF w
<1>8. Total(w, S) \in Nat
  BY <1>4, <1>6, TotalIs
<1>9. Use(t, n, clients, e, S) = Total(w, S)
  <2>1. Uses(w, t, n, clients, e, S)
    BY <1>5 DEF Uses
  <2> QED BY ONLY <1>4, <1>6, <2>1, UseIsTotal
<1> QED BY <1>2, <1>7, <1>8, <1>9

\* What a sample that succeeds shows.
Busy(d, clients) ==
    {e \in Engines : \E c \in DOMAIN clients : Comparable(d, clients, c, e)}

Shows(d, clients, now) ==
    Max({NoValue} \cup {utilisation(Delta(d, clients, e), now - d.at) :
                            e \in Busy(d, clients)})

\* The largest of nothing but NoValue.
LEMMA MaxNone ==
    Max({NoValue} \cup {}) = NoValue
<1>1. \A y \in {NoValue} \cup {} : y <= NoValue
  BY DEF NoValue
<1>2. {NoValue} \cup {} \in SUBSET Int /\ NoValue \in {NoValue} \cup {}
  BY DEF NoValue
<1> QED BY <1>1, <1>2, MaxIs

LEMMA CommitShows ==
    ASSUME NEW d, NEW s, DrmKept(d, s), NEW clients \in Clientele,
           NEW now \in Nat, ~(d.started /\ now <= d.at), NEW t,
           t = Append(s, [at |-> now, clients |-> clients])
    PROVE  Shows(d, clients, now) \in {NoValue, ReferenceGpu(t)}
<1> DEFINE n == Len(s)
           r == [at |-> now, clients |-> clients]
<1>1. s \in Seq(GpuReading) /\ n \in Nat /\ r \in GpuReading
      /\ (s = <<>> <=> n = 0)
  BY DEF DrmKept, GpuReading
<1>2. /\ Len(t) = n + 1 /\ Grown(t, s, n, r)
      /\ t[n + 1] = r /\ t[n + 1].at = now /\ t[n + 1].clients = clients
      /\ r.clients = clients
  BY <1>1 DEF Grown
<1>3. CASE s = <<>>
  <2>1. ~d.started
    BY <1>3 DEF DrmKept
  <2>2. {utilisation(Delta(d, clients, e), now - d.at) : e \in Busy(d, clients)} = {}
    BY <2>1 DEF Busy, Comparable
  <2> QED BY <2>2, MaxNone DEF Shows
<1>4. CASE s # <<>>
  <2> DEFINE elapsed == now - d.at
             S(e) == Counted(t, n, clients, e)
  <2>1. n # 0 /\ d.started /\ d.at = s[n].at /\ t[n] = s[n] /\ s[n] \in GpuReading
    <3>1. n # 0 /\ d.started /\ d.at = s[n].at
      BY <1>1, <1>4 DEF DrmKept
    <3>2. n \in 1..n
      BY <1>1, <3>1
    <3>3. t[n] = s[n]
      BY <1>2, <3>2 DEF Grown
    <3> QED BY <1>1, <3>1, <3>2, <3>3
  <2>2. elapsed \in Nat \ {0}
    <3>1. d.at \in Nat
      BY <2>1 DEF GpuReading
    <3>2. ~(now <= d.at)
      BY <2>1
    <3> QED BY <3>1, <3>2
  <2>3. elapsed = t[n + 1].at - t[n].at
    BY <1>2, <2>1
  <2> HIDE DEF elapsed, n, r
  <2>4. ASSUME NEW e \in Engines
        PROVE  /\ \A c \in DOMAIN clients : Comparable(d, clients, c, e) <=> c \in S(e)
               /\ Delta(d, clients, e) \in Nat
               /\ Delta(d, clients, e) = Use(t, n, clients, e, S(e))
    <3> DEFINE Q == S(e)
    <3>1. Q = Counted(t, n, clients, e)
      OBVIOUS
    <3>2. n = Len(s)
      BY DEF n
    <3> HIDE DEF Q
    <3>3. /\ \A c \in DOMAIN clients : Comparable(d, clients, c, e) <=> c \in Q
          /\ Delta(d, clients, e) \in Nat
          /\ Delta(d, clients, e) = Use(t, n, clients, e, Q)
      <4>1. n \in Nat /\ Grown(t, s, n, r) /\ r.clients = clients
        BY <1>1, <1>2
      <4> QED BY ONLY DrmKept(d, s), clients \in Clientele, e \in Engines,
                      <3>1, <3>2, <4>1, EngineUse
    <3> QED BY <3>3 DEF Q
  <2>5. Busy(d, clients) = {x \in Engines : S(x) # {}}
    <3>1. \A e \in Engines : (\E c \in DOMAIN clients : Comparable(d, clients, c, e))
                             <=> S(e) # {}
      <4>1. \A e \in Engines : \A c \in S(e) : c \in DOMAIN clients
        BY DEF Counted
      <4> HIDE DEF S
      <4> QED BY <2>4, <4>1
    <3> HIDE DEF S
    <3> QED BY <3>1 DEF Busy
  <2>6. \A e \in Engines : utilisation(Delta(d, clients, e), elapsed)
                           = Rounded(Use(t, n, clients, e, S(e)), elapsed)
    <3> HIDE DEF S
    <3> QED BY <2>2, <2>4, UtilisationIsRounded
  <2>7. ReferenceGpu(t)
          = Max({NoValue} \cup {Rounded(Use(t, n, clients, e, S(e)), elapsed) :
                                    e \in {x \in Engines : S(x) # {}}})
    <3>1. Len(t) = n + 1 /\ (n + 1) - 1 = n /\ ~(n + 1 < 2)
      BY <1>1, <1>2, <2>1
    <3> DEFINE Ref(k, j, cl, el) ==
                 IF k < 2 THEN NoValue
                 ELSE Max({NoValue} \cup
                        {Rounded(Use(t, j, cl, e, Counted(t, j, cl, e)), el) :
                            e \in {x \in Engines : Counted(t, j, cl, x) # {}}})
               k == Len(t)
    <3>2. ReferenceGpu(t) = Ref(k, k - 1, t[k].clients, t[k].at - t[k - 1].at)
      BY DEF ReferenceGpu, Counted
    <3>3. Ref(n + 1, n, clients, elapsed)
            = Max({NoValue} \cup {Rounded(Use(t, n, clients, e, S(e)), elapsed) :
                                      e \in {x \in Engines : S(x) # {}}})
      BY <3>1
    <3> HIDE DEF Ref, k, S
    <3>4. k = n + 1 /\ k - 1 = n
      BY <3>1 DEF k
    <3>5. t[k].clients = clients /\ t[k].at - t[k - 1].at = elapsed
      BY <1>2, <2>3, <3>4
    <3> QED BY <3>2, <3>3, <3>4, <3>5
  <2>8. {utilisation(Delta(d, clients, e), elapsed) : e \in Busy(d, clients)}
          = {Rounded(Use(t, n, clients, e, S(e)), elapsed) :
                e \in {x \in Engines : S(x) # {}}}
    <3> HIDE DEF S
    <3> QED BY <2>5, <2>6
  <2>9. Shows(d, clients, now)
          = Max({NoValue} \cup {utilisation(Delta(d, clients, e), elapsed) :
                                    e \in Busy(d, clients)})
    BY DEF Shows, elapsed
  <2> HIDE DEF S
  <2>10. Shows(d, clients, now) = ReferenceGpu(t)
    BY <2>7, <2>8, <2>9
  <2> QED BY <2>10
<1> QED BY <1>3, <1>4

DrmInv == DrmKept(metrics.drm, past.drm) /\ GpuUseIsReference

LEMMA DrmStays ==
    ASSUME NEW d, NEW s, DrmKept(d, s), NEW o, o.drm.fds \in Seq(Descriptor),
           NEW now \in Nat, DrmStep(d, s, now, o)
    PROVE  DrmInv'
<1> DEFINE clients == Merged(o.drm.fds)
           c == commit_sample(d, clients, now)
           r == [at |-> now, clients |-> clients]
<1>1. clients \in Clientele
  BY MergedIsClientele
<1>2. CASE /\ metrics'.drm = d /\ past'.drm = s
           /\ shown'.source = "nvml" \/ shown'.gpu = NoValue
  BY <1>2 DEF DrmInv, GpuUseIsReference
<1>3. CASE /\ now # 0 /\ metrics'.drm = c.drm /\ shown'.gpu = c.percent
           /\ past'.drm = IF c.drm # d THEN Append(s, r) ELSE s
  <2> HIDE DEF clients
  <2> DEFINE fails == \/ d.started /\ now <= d.at
                      \/ \E e \in Busy(d, clients) : Delta(d, clients, e) > CounterMax
  <2>1. c = IF fails THEN [drm |-> d, percent |-> NoValue]
            ELSE [drm |-> Committed(d, clients, now), percent |-> Shows(d, clients, now)]
    BY DEF commit_sample, Busy, Committed, Shows
  <2>2. CASE fails
    <3>1. c.drm = d /\ c.percent = NoValue
      BY <2>1, <2>2
    <3> HIDE DEF c
    <3> QED BY <1>3, <3>1 DEF DrmInv, GpuUseIsReference
  <2>3. CASE ~fails
    <3>1. c.drm = Committed(d, clients, now) /\ c.percent = Shows(d, clients, now)
      BY <2>1, <2>3
    <3>2. ~(d.started /\ now <= d.at)
      BY <2>3
    <3> HIDE DEF c, fails
    <3>3. c.drm # d
      <4>1. c.drm.started = TRUE /\ c.drm.at = now
        BY <3>1 DEF Committed
      <4>2. ASSUME d.started = TRUE PROVE d.at # now
        <5>1. s # <<>> /\ d.at = s[Len(s)].at /\ s \in Seq(GpuReading)
          BY <4>2 DEF DrmKept
        <5>2. s[Len(s)] \in GpuReading
          BY <5>1
        <5>3. d.at \in Nat
          BY <5>1, <5>2 DEF GpuReading
        <5> QED BY <3>2, <4>2, <5>3
      <4> QED BY <4>1, <4>2
    <3>4. past'.drm = Append(s, r)
      BY <1>3, <3>3
    <3>5. DrmKept(metrics'.drm, past'.drm)
      BY <1>1, <1>3, <3>1, <3>4, CommitKeeps
    <3>6. shown'.gpu \in {NoValue, ReferenceGpu(past'.drm)}
      BY <1>1, <1>3, <3>1, <3>2, <3>4, CommitShows
    <3> QED BY <3>5, <3>6 DEF DrmInv, GpuUseIsReference
  <2> QED BY <2>2, <2>3
<1> QED BY <1>2, <1>3 DEF DrmStep
-----------------------------------------------------------------------------
(* The threads.                                                            *)

\* The slots in use.
Slot == [usage : Nat, sample_ns : Nat]

Table == UNION {[X -> Slot] : X \in {X \in SUBSET Nat : IsFiniteSet(X)}}

\* What a pass collects, from one child to the next.
Account == [slots : Table, reset : BOOLEAN, available : BOOLEAN, peak : Nat]

Child == Nat \X Nat

LEMMA IsTable ==
    ASSUME NEW c
    PROVE  c \in Table
             <=> /\ c = [x \in DOMAIN c |-> c[x]]
                 /\ DOMAIN c \in SUBSET Nat /\ IsFiniteSet(DOMAIN c)
                 /\ \A x \in DOMAIN c : c[x] \in Slot
  BY DEF Table

\* Percentages are numbers.
LEMMA UtilisationType ==
    ASSUME NEW delta, NEW elapsed
    PROVE  utilisation(delta, elapsed) \in Nat
<1> DEFINE X == {c \in 1..100 : delta >= Threshold(elapsed, c)}
<1>1. IsFiniteSet(1..100) /\ X \in SUBSET (1..100)
  <2>1. 1 \in Int /\ 100 \in Int /\ X \in SUBSET (1..100)
    OBVIOUS
  <2> HIDE DEF X
  <2> QED BY <2>1, FS_Interval
<1> HIDE DEF X
<1>2. Cardinality(X) \in Nat
  BY <1>1, FS_Subset, FS_CardinalityType
<1> QED BY <1>2 DEF utilisation, X

\* The fields of an account with all four replaced.
LEMMA AccountFields ==
    ASSUME NEW x, NEW p, NEW q, NEW v, NEW u, NEW y,
           y = [x EXCEPT !.slots = p, !.reset = q, !.available = v, !.peak = u],
           x = [slots |-> x.slots, reset |-> x.reset,
                available |-> x.available, peak |-> x.peak]
    PROVE  /\ y = [slots |-> p, reset |-> q, available |-> v, peak |-> u]
           /\ y.slots = p /\ y.reset = q /\ y.available = v /\ y.peak = u
  OBVIOUS

\* What a child does when its thread has a slot.
ChildKnown(slots, tid, now) == tid \in DOMAIN slots /\ now > slots[tid].sample_ns

ChildDelta(slots, e) == e[2] - slots[e[1]].usage

ChildPercent(slots, e, now) ==
    IF ChildDelta(slots, e) > CounterMax \div Micro THEN 100
    ELSE utilisation(ChildDelta(slots, e) * Micro,
                     now - slots[e[1]].sample_ns)

Effect(x, e, now, y) ==
    /\ y = [slots |-> y.slots, reset |-> y.reset,
            available |-> y.available, peak |-> y.peak]
    /\ y.slots = Put(x.slots, e[1], [usage |-> e[2], sample_ns |-> now])
    /\ y.reset = (x.reset \/ (ChildKnown(x.slots, e[1], now)
                              /\ ChildDelta(x.slots, e) < 0))
    /\ y.available = (x.available \/ (ChildKnown(x.slots, e[1], now)
                                      /\ ChildDelta(x.slots, e) >= 0))
    /\ y.peak = IF /\ ChildKnown(x.slots, e[1], now)
                   /\ ChildDelta(x.slots, e) >= 0
                THEN Max({x.peak, ChildPercent(x.slots, e, now)})
                ELSE x.peak

LEMMA ChildEffect ==
    ASSUME NEW x \in Account, NEW e, NEW now, HasSlot(x.slots, e[1])
    PROVE  Effect(x, e, now, sample_child(x, e, now))
<1> DEFINE y == sample_child(x, e, now)
           known == ChildKnown(x.slots, e[1], now)
           delta == ChildDelta(x.slots, e)
           slots == Put(x.slots, e[1], [usage |-> e[2], sample_ns |-> now])
           reset == x.reset \/ (known /\ delta < 0)
           available == x.available \/ (known /\ delta >= 0)
           peak == IF known /\ delta >= 0
                   THEN Max({x.peak, ChildPercent(x.slots, e, now)})
                   ELSE x.peak
<1>1. y = [x EXCEPT !.slots = slots, !.reset = reset,
                    !.available = available, !.peak = peak]
  BY DEF sample_child, ChildKnown, ChildPercent, ChildDelta
<1>2. x = [slots |-> x.slots, reset |-> x.reset,
           available |-> x.available, peak |-> x.peak]
  BY DEF Account
<1> HIDE DEF y, slots, reset, available, peak
<1>3. /\ y = [slots |-> slots, reset |-> reset,
              available |-> available, peak |-> peak]
      /\ y.slots = slots /\ y.reset = reset
      /\ y.available = available /\ y.peak = peak
  BY <1>1, <1>2, AccountFields
<1>4. Effect(x, e, now, y)
  BY <1>3 DEF Effect, slots, reset, available, peak
<1> QED BY <1>4 DEF y

LEMMA ChildType ==
    ASSUME NEW x \in Account, NEW e \in Child, NEW now \in Nat
    PROVE  sample_child(x, e, now) \in Account
<1>1. CASE ~HasSlot(x.slots, e[1])
  BY <1>1 DEF sample_child
<1>2. CASE HasSlot(x.slots, e[1])
  <2> DEFINE known == ChildKnown(x.slots, e[1], now)
             delta == ChildDelta(x.slots, e)
             slots == Put(x.slots, e[1], [usage |-> e[2], sample_ns |-> now])
             reset == x.reset \/ (known /\ delta < 0)
             available == x.available \/ (known /\ delta >= 0)
             pc == ChildPercent(x.slots, e, now)
             peak == IF known /\ delta >= 0 THEN Max({x.peak, pc}) ELSE x.peak
             y == sample_child(x, e, now)
  <2>1. y = [slots |-> slots, reset |-> reset,
             available |-> available, peak |-> peak]
    <3>1. /\ y = [slots |-> y.slots, reset |-> y.reset,
                  available |-> y.available, peak |-> y.peak]
          /\ y.slots = slots /\ y.reset = reset
          /\ y.available = available /\ y.peak = peak
      BY <1>2, ChildEffect DEF Effect
    <3> HIDE DEF y, slots, reset, available, peak
    <3> QED BY <3>1
  <2>2. x.slots \in Table /\ x.reset \in BOOLEAN /\ x.available \in BOOLEAN
        /\ x.peak \in Nat /\ e[1] \in Nat /\ e[2] \in Nat
    BY DEF Account, Child
  <2>3. pc \in Nat
    BY UtilisationType DEF ChildPercent
  <2>4. peak \in Nat
    <3> HIDE DEF pc
    <3>1. Max({x.peak, pc}) \in Nat
      BY <2>2, <2>3, MaxOfTwo
    <3> QED BY <2>2, <3>1
  <2>5. slots \in Table
    <3> DEFINE v == [usage |-> e[2], sample_ns |-> now]
    <3>1. v \in Slot
      BY <2>2 DEF Slot
    <3> HIDE DEF v
    <3>2. DOMAIN slots = DOMAIN x.slots \cup {e[1]}
          /\ slots = [t \in DOMAIN slots |-> slots[t]]
          /\ \A t \in DOMAIN slots : slots[t] = IF t = e[1] THEN v ELSE x.slots[t]
      BY DEF Put, v
    <3>3. /\ DOMAIN x.slots \in SUBSET Nat /\ IsFiniteSet(DOMAIN x.slots)
          /\ \A t \in DOMAIN x.slots : x.slots[t] \in Slot
      BY <2>2, IsTable
    <3> HIDE DEF slots
    <3>4. DOMAIN slots \in SUBSET Nat /\ IsFiniteSet(DOMAIN slots)
      BY <2>2, <3>2, <3>3, FS_AddElement
    <3>5. \A t \in DOMAIN slots : slots[t] \in Slot
      BY <3>1, <3>2, <3>3
    <3> QED BY <3>2, <3>4, <3>5, IsTable
  <2>6. reset \in BOOLEAN /\ available \in BOOLEAN
    BY <2>2
  <2> HIDE DEF slots, reset, available, peak, y
  <2>7. y \in Account
    BY <2>1, <2>4, <2>5, <2>6 DEF Account
  <2> QED BY <2>7 DEF y
<1> QED BY <1>1, <1>2

\* A pass goes from account to account, child by child.
NoAccount(slots) ==
    [slots |-> slots, reset |-> FALSE, available |-> FALSE, peak |-> 0]

Accounts(a, slots, now, s, z) ==
    /\ a[0] = NoAccount(slots) /\ a[Len(s)] = z
    /\ \A m \in 0..Len(s) : a[m] \in Account
    /\ \A m \in 1..Len(s) : a[m] = sample_child(a[m - 1], s[m], now)

LEMMA PassAccounts ==
    ASSUME NEW slots \in Table, NEW now \in Nat, NEW s \in Seq(Child)
    PROVE  \E a : Accounts(a, slots, now, s, Passed(slots, now, s))
<1> DEFINE F == [p \in Account \X Child |-> sample_child(p[1], p[2], now)]
           b == NoAccount(slots)
           K == DOMAIN s
           G(h) == [X \in SUBSET K |->
                      IF X = {} THEN b
                      ELSE LET x == Max(X)
                           IN  sample_child(h[X \ {x}], s[x], now)]
           acc == CHOOSE h : h = G(h)
<1>0. b \in Account
  BY DEF NoAccount, Account
<1>1. /\ F \in [Account \X Child -> Account]
      /\ \A a \in Account, d \in Child : F[<<a, d>>] = sample_child(a, d, now)
  <2>1. \A a \in Account, d \in Child : sample_child(a, d, now) \in Account
    BY ChildType
  <2> QED BY <2>1
<1>2. K = 1..Len(s) /\ Len(s) \in Nat /\ \A k \in K : s[k] \in Child
  OBVIOUS
<1>3. \A X \in SUBSET K : X # {} => Max(X) \in K /\ X \ {Max(X)} \in SUBSET K
  BY <1>2, MaxUpTo
<1> HIDE DEF F, b
<1>4. PICK h \in [SUBSET K -> Account] : Folds(F, b, s, h)
  BY <1>0, <1>1, FoldExists
<1>5. h = G(h)
  <2>1. ASSUME NEW X \in SUBSET K
        PROVE  h[X] = IF X = {} THEN b
                      ELSE sample_child(h[X \ {Max(X)}], s[Max(X)], now)
    <3> DEFINE x == Max(X)
    <3>1. CASE X = {}
      BY <1>4, <3>1 DEF Folds
    <3>2. CASE X # {}
      <4>1. x \in K /\ X \ {x} \in SUBSET K
        BY <1>3, <3>2
      <4>2. h[X] = F[<<h[X \ {x}], s[x]>>]
        BY <1>4, <3>2 DEF Folds
      <4> HIDE DEF x
      <4>3. s[x] \in Child /\ h[X \ {x}] \in Account
        BY <1>2, <1>4, <4>1
      <4>4. h[X] = sample_child(h[X \ {x}], s[x], now)
        BY <1>1, <4>2, <4>3
      <4> QED BY <3>2, <4>4 DEF x
    <3> QED BY <3>1, <3>2
  <2> QED BY <1>4, <2>1
<1>6. acc = G(acc)
  <2> HIDE DEF G
  <2> QED BY <1>5
<1>7. Passed(slots, now, s) = acc[K]
  BY DEF Passed, FoldLeft, MapThenFoldSet, b, NoAccount
<1> HIDE DEF acc
<1>8. FoldsIn(Account, F, b, s, acc)
  <2>1. ASSUME NEW X \in SUBSET K, X # {}, acc[X \ {Max(X)}] \in Account
        PROVE  acc[X] = F[<<acc[X \ {Max(X)}], s[Max(X)]>>]
    <3> DEFINE x == Max(X)
    <3>1. x \in K /\ acc[X] = sample_child(acc[X \ {x}], s[x], now)
      BY <1>3, <1>6, <2>1
    <3>2. acc[X \ {x}] \in Account
      BY <2>1
    <3> HIDE DEF x
    <3>3. acc[X] = F[<<acc[X \ {x}], s[x]>>]
      BY <1>1, <1>2, <3>1, <3>2
    <3> QED BY <3>3 DEF x
  <2>2. acc[{}] = b
    BY <1>6
  <2> QED BY <2>1, <2>2 DEF FoldsIn
<1>9. PICK a : Passes(Account, F, b, s, acc[K], a)
  BY <1>0, <1>1, <1>8, FoldPasses
<1>10. ASSUME NEW m \in 1..Len(s)
       PROVE  a[m] = sample_child(a[m - 1], s[m], now)
  <2>1. a[m] = F[<<a[m - 1], s[m]>>]
    BY <1>9 DEF Passes
  <2>2. m - 1 \in 0..Len(s) /\ m \in K
    BY <1>2
  <2>3. a[m - 1] \in Account /\ s[m] \in Child
    BY <1>2, <1>9, <2>2 DEF Passes
  <2> QED BY <1>1, <2>1, <2>3
<1>11. /\ a[0] = b /\ a[Len(s)] = acc[K]
       /\ \A m \in 0..Len(s) : a[m] \in Account
  BY <1>9 DEF Passes
<1>12. Accounts(a, slots, now, s, Passed(slots, now, s))
  BY <1>7, <1>10, <1>11 DEF Accounts, b
<1> QED BY <1>12

\* What a pass finds: slots, no more than there are, all filled before now.
Filled(slots, now) ==
    /\ slots \in Table /\ now \in Nat
    /\ Cardinality(DOMAIN slots) <= Slots
    /\ \A t \in DOMAIN slots : slots[t].sample_ns < now

\* And children, no two with the same name.
Children == {s \in Seq(Child) : \A i, j \in DOMAIN s : s[i][1] = s[j][1] => i = j}

Seen(s, k) == {s[j][1] : j \in 1..k}

\* The slots after k children.
SlotsSoFar(slots, now, s, x, k) ==
    /\ DOMAIN slots \in SUBSET DOMAIN x.slots
    /\ DOMAIN x.slots \in SUBSET (DOMAIN slots \cup Seen(s, k))
    /\ Cardinality(DOMAIN x.slots) <= Slots
    /\ \A t \in DOMAIN x.slots : t \notin Seen(s, k) => x.slots[t] = slots[t]
    /\ \A j \in 1..k : s[j][1] \in DOMAIN x.slots =>
         x.slots[s[j][1]] = [usage |-> s[j][2], sample_ns |-> now]
    /\ Cardinality(DOMAIN slots \cup Seen(s, Len(s))) <= Slots
         => Seen(s, k) \in SUBSET DOMAIN x.slots

\* Children whose counters went back, and those whose counters did not.
Back(slots, s, j) ==
    s[j][1] \in DOMAIN slots /\ ChildDelta(slots, s[j]) < 0

Forward(slots, s, j) ==
    s[j][1] \in DOMAIN slots /\ ChildDelta(slots, s[j]) >= 0

UseSoFar(slots, now, s, x, k) ==
    /\ x.reset <=> \E j \in 1..k : Back(slots, s, j)
    /\ x.available <=> \E j \in 1..k : Forward(slots, s, j)
    /\ \A j \in 1..k : Forward(slots, s, j) =>
         ChildPercent(slots, s[j], now) <= x.peak
    /\ \/ x.peak = 0
       \/ \E j \in 1..k : Forward(slots, s, j)
                          /\ x.peak = ChildPercent(slots, s[j], now)

LEMMA SeenNext ==
    ASSUME NEW s \in Children, NEW k \in 1..Len(s)
    PROVE  /\ Seen(s, k) = Seen(s, k - 1) \cup {s[k][1]}
           /\ s[k][1] \notin Seen(s, k - 1)
           /\ s[k][1] \in Seen(s, Len(s)) /\ s[k] \in Child
           /\ Seen(s, k - 1) \in SUBSET Seen(s, Len(s))
           /\ IsFiniteSet(Seen(s, Len(s))) /\ Seen(s, Len(s)) \in SUBSET Nat
<1>1. /\ s \in Seq(Child) /\ Len(s) \in Nat /\ DOMAIN s = 1..Len(s)
      /\ k \in Nat /\ 1 <= k /\ k <= Len(s)
      /\ \A i, j \in DOMAIN s : s[i][1] = s[j][1] => i = j
  BY DEF Children
<1> DEFINE n == Len(s)
<1> HIDE DEF n
<1>2. \A j : j \in 1..k <=> j \in 1..k - 1 \/ j = k
  BY <1>1
<1>3. \A j \in 1..k : j \in 1..n
  BY <1>1 DEF n
<1>4. \A j \in 1..k - 1 : j # k /\ j \in 1..n
  BY <1>1 DEF n
<1>5. Seen(s, k) = Seen(s, k - 1) \cup {s[k][1]}
  <2>1. \A t : t \in Seen(s, k) <=> t \in Seen(s, k - 1) \/ t = s[k][1]
    BY <1>2 DEF Seen
  <2> QED BY <2>1
<1>6. s[k][1] \notin Seen(s, k - 1)
  BY <1>1, <1>4 DEF Seen, n
<1>7. s[k][1] \in Seen(s, n) /\ Seen(s, k - 1) \in SUBSET Seen(s, n)
  BY <1>1, <1>4 DEF Seen, n
<1>8. s[k] \in Child
  BY <1>1
<1>9. IsFiniteSet(Seen(s, n))
  <2>1. n \in Int /\ 1 \in Int
    BY <1>1 DEF n
  <2>2. IsFiniteSet(1..n)
    BY <2>1, FS_Interval
  <2> DEFINE T == Seen(s, n)
             f == [j \in 1..n |-> s[j][1]]
  <2>3. f \in Surjection(1..n, T)
    BY DEF Surjection, Seen
  <2> HIDE DEF T, f
  <2>4. IsFiniteSet(T)
    BY <2>2, <2>3, FS_Surjection
  <2> QED BY <2>4 DEF T
<1>10. Seen(s, n) \in SUBSET Nat
  <2>1. \A j \in 1..n : s[j] \in Child
    BY <1>1 DEF n
  <2> QED BY <2>1 DEF Seen, Child
<1> QED BY <1>5, <1>6, <1>7, <1>8, <1>9, <1>10 DEF n

\* A child whose thread has no slot had none before, and none is free.
LEMMA NoSlot ==
    ASSUME Slots \in Nat, NEW slots, NEW now, Filled(slots, now),
           NEW s \in Children, NEW k \in 1..Len(s), NEW x \in Account,
           SlotsSoFar(slots, now, s, x, k - 1), ~HasSlot(x.slots, s[k][1])
    PROVE  /\ s[k][1] \notin DOMAIN x.slots /\ s[k][1] \notin DOMAIN slots
           /\ ~(Cardinality(DOMAIN slots \cup Seen(s, Len(s))) <= Slots)
<1> DEFINE U == DOMAIN slots \cup Seen(s, Len(s))
           t == s[k][1]
           X == DOMAIN x.slots
<1>1. t \notin X /\ ~(Cardinality(X) < Slots)
  BY DEF HasSlot
<1>2. t \notin DOMAIN slots
  BY <1>1 DEF SlotsSoFar
<1>3. IsFiniteSet(U) /\ X \in SUBSET U /\ t \in U
  <2>1. IsFiniteSet(DOMAIN slots)
    BY IsTable DEF Filled
  <2>2. X \in SUBSET (DOMAIN slots \cup Seen(s, k - 1))
    BY DEF SlotsSoFar
  <2> HIDE DEF X
  <2> QED BY <2>1, <2>2, SeenNext, FS_Union
<1>4. Cardinality(X) + 1 <= Cardinality(U)
      /\ Cardinality(X) \in Nat /\ Cardinality(U) \in Nat
  <2> HIDE DEF U, X, t
  <2> DEFINE Y == X \cup {t}
  <2>1. Y \in SUBSET U /\ IsFiniteSet(X) /\ IsFiniteSet(Y)
    BY <1>3, FS_Subset
  <2>2. Cardinality(Y) = Cardinality(X) + 1 /\ Cardinality(X) \in Nat
    BY <1>1, <2>1, FS_AddElement, FS_CardinalityType
  <2>3. Cardinality(Y) <= Cardinality(U)
    <3> HIDE DEF Y
    <3> QED BY <1>3, <2>1, FS_Subset
  <2>4. Cardinality(U) \in Nat
    BY <1>3, FS_CardinalityType
  <2> QED BY <2>2, <2>3, <2>4
<1>5. ~(Cardinality(U) <= Slots)
  <2>1. Cardinality(X) <= Slots /\ Cardinality(DOMAIN slots) <= Slots
    BY DEF SlotsSoFar, Filled
  <2> HIDE DEF U, X
  <2> QED BY <1>1, <1>4, <2>1
<1> QED BY <1>1, <1>2, <1>5

\* A child whose thread finds a slot: it fills it, and can be compared if the
\* slot was the thread's before the pass.
LEMMA SlotFilled ==
    ASSUME Slots \in Nat, NEW slots, NEW now, Filled(slots, now),
           NEW s \in Children, NEW k \in 1..Len(s), NEW x \in Account,
           SlotsSoFar(slots, now, s, x, k - 1), HasSlot(x.slots, s[k][1]),
           NEW y, y = sample_child(x, s[k], now)
    PROVE  /\ ChildKnown(x.slots, s[k][1], now) <=> s[k][1] \in DOMAIN slots
           /\ s[k][1] \in DOMAIN slots => x.slots[s[k][1]] = slots[s[k][1]]
           /\ SlotsSoFar(slots, now, s, y, k)
<1> DEFINE t == s[k][1]
           v == [usage |-> s[k][2], sample_ns |-> now]
           known == ChildKnown(x.slots, t, now)
           D == DOMAIN slots
           X == DOMAIN x.slots
           P == Seen(s, k - 1)
           Q == Seen(s, k)
           few == Cardinality(D \cup Seen(s, Len(s))) <= Slots
<1>1. /\ D \in SUBSET X /\ X \in SUBSET (D \cup P) /\ Cardinality(X) <= Slots
      /\ \A u \in X : u \notin P => x.slots[u] = slots[u]
      /\ \A j \in 1..k - 1 : s[j][1] \in X =>
           x.slots[s[j][1]] = [usage |-> s[j][2], sample_ns |-> now]
      /\ few => P \in SUBSET X
  BY DEF SlotsSoFar
<1>2. Q = P \cup {t} /\ t \notin P
  BY SeenNext
<1>3. /\ t \in X <=> t \in D
      /\ t \in D => x.slots[t] = slots[t]
  <2> HIDE DEF D, X, P, Q, t
  <2>1. t \in X => t \in D
    BY <1>1, <1>2
  <2>2. t \in D => t \in X
    BY <1>1
  <2>3. t \in X => x.slots[t] = slots[t]
    BY <1>1, <1>2
  <2> QED BY <2>1, <2>2, <2>3
<1>4. known <=> t \in D
  <2>1. \A u \in D : slots[u].sample_ns < now /\ slots[u].sample_ns \in Nat /\ now \in Nat
    BY IsTable DEF Filled, Slot
  <2>2. ASSUME t \in D PROVE now > x.slots[t].sample_ns
    <3>1. x.slots[t] = slots[t]
      BY <1>3, <2>2
    <3> QED BY <2>1, <2>2, <3>1
  <2> HIDE DEF t, D
  <2> QED BY <1>3, <2>2 DEF ChildKnown
<1>5. y.slots = Put(x.slots, t, v)
  <2> DEFINE e == s[k]
  <2>1. y = sample_child(x, e, now) /\ HasSlot(x.slots, e[1])
    OBVIOUS
  <2> HIDE DEF e
  <2>2. y.slots = Put(x.slots, e[1], [usage |-> e[2], sample_ns |-> now])
    <3>1. HasSlot(x.slots, e[1])
      BY <2>1
    <3>2. Effect(x, e, now, sample_child(x, e, now))
      BY ONLY x \in Account, <3>1, ChildEffect
    <3>3. Effect(x, e, now, y)
      BY <2>1, <3>2
    <3> QED BY <3>3 DEF Effect
  <2> QED BY <2>2 DEF e
<1>6. /\ DOMAIN y.slots = X \cup {t}
      /\ y.slots[t] = v
      /\ \A u \in X : u # t => y.slots[u] = x.slots[u]
  <2> HIDE DEF v, t
  <2> QED BY <1>5 DEF Put
<1> DEFINE Y == DOMAIN y.slots
<1>7. Cardinality(Y) <= Slots
  <2>1. IsFiniteSet(X)
    BY IsTable DEF Account
  <2> HIDE DEF X, t, Y
  <2>2. Y = X \cup {t}
    BY <1>6 DEF Y
  <2>3. CASE t \in X
    BY <1>1, <2>2, <2>3
  <2>4. CASE t \notin X
    <3>1. Cardinality(X) < Slots
      BY <2>4 DEF HasSlot, X, t
    <3>2. Cardinality(Y) = Cardinality(X) + 1 /\ Cardinality(X) \in Nat
      BY <2>1, <2>2, <2>4, FS_AddElement, FS_CardinalityType
    <3> QED BY <3>1, <3>2
  <2> QED BY <2>3, <2>4
<1>8. \A j \in 1..k : s[j][1] \in Y =>
        y.slots[s[j][1]] = [usage |-> s[j][2], sample_ns |-> now]
  <2> SUFFICES ASSUME NEW j \in 1..k, s[j][1] \in Y
               PROVE  y.slots[s[j][1]] = [usage |-> s[j][2], sample_ns |-> now]
    OBVIOUS
  <2>1. CASE j = k
    BY <1>6, <2>1
  <2>2. CASE j # k
    <3>1. j \in 1..k - 1
      BY <2>2
    <3>2. s[j][1] \in P
      BY <3>1 DEF Seen
    <3>3. s[j][1] # t /\ s[j][1] \in X
      BY <1>2, <1>6, <3>2
    <3> HIDE DEF t, X, v
    <3> QED BY <1>1, <1>6, <3>1, <3>3
  <2> QED BY <2>1, <2>2
<1> HIDE DEF t, v, D, X, P, Q, Y, few
<1>9. /\ D \in SUBSET Y /\ Y \in SUBSET (D \cup Q)
      /\ \A u \in Y : u \notin Q => y.slots[u] = slots[u]
      /\ few => Q \in SUBSET Y
  BY <1>1, <1>2, <1>6 DEF Y
<1>10. SlotsSoFar(slots, now, s, y, k)
  BY <1>7, <1>8, <1>9 DEF SlotsSoFar, D, Q, Y, few
<1>11. known <=> t \in D
  BY <1>4
<1> QED BY <1>3, <1>10, <1>11 DEF known, t, D

\* One child more.
LEMMA SoFarNext ==
    ASSUME Slots \in Nat, NEW slots, NEW now, Filled(slots, now),
           NEW s \in Children, NEW k \in 1..Len(s), NEW x \in Account,
           SlotsSoFar(slots, now, s, x, k - 1),
           UseSoFar(slots, now, s, x, k - 1),
           NEW y, y = sample_child(x, s[k], now)
    PROVE  SlotsSoFar(slots, now, s, y, k) /\ UseSoFar(slots, now, s, y, k)
<1> DEFINE t == s[k][1]
           B(j) == Back(slots, s, j)
           F(j) == Forward(slots, s, j)
           pc(j) == ChildPercent(slots, s[j], now)
<1>1. \A j : j \in 1..k <=> j \in 1..k - 1 \/ j = k
  <2>1. s \in Seq(Child)
    BY DEF Children
  <2>2. k \in Nat /\ 1 <= k
    BY <2>1
  <2> QED BY <2>2
<1>2. /\ x.reset <=> \E j \in 1..k - 1 : B(j)
      /\ x.available <=> \E j \in 1..k - 1 : F(j)
      /\ \A j \in 1..k - 1 : F(j) => pc(j) <= x.peak
      /\ \/ x.peak = 0
         \/ \E j \in 1..k - 1 : F(j) /\ x.peak = pc(j)
  BY DEF UseSoFar
<1>3. CASE ~HasSlot(x.slots, t)
  <2>1. y = x
    BY <1>3 DEF sample_child
  <2>2. t \notin DOMAIN x.slots /\ t \notin DOMAIN slots
        /\ ~(Cardinality(DOMAIN slots \cup Seen(s, Len(s))) <= Slots)
    BY <1>3, NoSlot
  <2>3. ~B(k) /\ ~F(k)
    BY <2>2 DEF Back, Forward
  <2>4. UseSoFar(slots, now, s, y, k)
    <3> HIDE DEF B, F, pc
    <3>1. /\ y.reset <=> \E j \in 1..k : B(j)
          /\ y.available <=> \E j \in 1..k : F(j)
          /\ \A j \in 1..k : F(j) => pc(j) <= y.peak
          /\ \/ y.peak = 0
             \/ \E j \in 1..k : F(j) /\ y.peak = pc(j)
      BY <1>1, <1>2, <2>1, <2>3
    <3> QED BY <3>1 DEF UseSoFar, B, F, pc
  <2>5. SlotsSoFar(slots, now, s, y, k)
    <3>1. Seen(s, k) = Seen(s, k - 1) \cup {t}
      BY SeenNext
    <3>2. \A j \in 1..k : s[j][1] \in DOMAIN x.slots => j \in 1..k - 1
      BY <1>1, <2>2
    <3> QED BY <2>1, <2>2, <3>1, <3>2 DEF SlotsSoFar
  <2> QED BY <2>4, <2>5
<1>4. CASE HasSlot(x.slots, t)
  <2> DEFINE known == ChildKnown(x.slots, t, now)
             delta == ChildDelta(x.slots, s[k])
             px == ChildPercent(x.slots, s[k], now)
  <2>1. /\ known <=> t \in DOMAIN slots
        /\ t \in DOMAIN slots => x.slots[t] = slots[t]
        /\ SlotsSoFar(slots, now, s, y, k)
    BY <1>4, SlotFilled
  <2>2. /\ y.reset <=> x.reset \/ (known /\ delta < 0)
        /\ y.available <=> x.available \/ (known /\ delta >= 0)
        /\ y.peak = IF known /\ delta >= 0 THEN Max({x.peak, px}) ELSE x.peak
    <3> DEFINE e == s[k]
    <3>1. y = sample_child(x, e, now) /\ HasSlot(x.slots, e[1])
      BY <1>4
    <3> HIDE DEF e
    <3>2. /\ y.reset = (x.reset \/ (ChildKnown(x.slots, e[1], now)
                                    /\ ChildDelta(x.slots, e) < 0))
          /\ y.available = (x.available \/ (ChildKnown(x.slots, e[1], now)
                                            /\ ChildDelta(x.slots, e) >= 0))
          /\ y.peak = IF /\ ChildKnown(x.slots, e[1], now)
                         /\ ChildDelta(x.slots, e) >= 0
                      THEN Max({x.peak, ChildPercent(x.slots, e, now)})
                      ELSE x.peak
      <4>1. HasSlot(x.slots, e[1])
        BY <3>1
      <4>2. Effect(x, e, now, sample_child(x, e, now))
        BY ONLY x \in Account, <4>1, ChildEffect
      <4>3. Effect(x, e, now, y)
        BY <3>1, <4>2
      <4> QED BY <3>1, <4>3 DEF Effect
    <3> QED BY <3>2 DEF e
  <2>3. /\ known /\ delta < 0 <=> B(k)
        /\ known /\ delta >= 0 <=> F(k)
        /\ known => px = pc(k)
    <3> HIDE DEF known
    <3> QED BY <2>1 DEF Back, Forward, ChildPercent, ChildDelta
  <2>4. /\ x.peak \in Nat /\ px \in Nat
        /\ Max({x.peak, px}) = IF x.peak <= px THEN px ELSE x.peak
    <3>1. x.peak \in Nat /\ px \in Nat
      BY UtilisationType DEF Account, ChildPercent
    <3> HIDE DEF px
    <3> QED BY <3>1, MaxOfTwo
  <2>5. \A j \in 1..k - 1 : pc(j) \in Nat
    BY UtilisationType DEF ChildPercent
  <2> DEFINE m == Max({x.peak, px})
  <2> HIDE DEF known, delta, px, B, F, pc, m
  <2>6. /\ y.reset <=> \E j \in 1..k : B(j)
        /\ y.available <=> \E j \in 1..k : F(j)
    BY <1>1, <1>2, <2>2, <2>3
  <2>7. CASE ~F(k)
    <3>1. /\ \A j \in 1..k : F(j) => pc(j) <= y.peak
          /\ \/ y.peak = 0
             \/ \E j \in 1..k : F(j) /\ y.peak = pc(j)
      BY <1>1, <1>2, <2>2, <2>3, <2>7
    <3> QED BY <2>1, <2>6, <3>1 DEF UseSoFar, B, F, pc
  <2>8. CASE F(k)
    <3>1. px = pc(k) /\ y.peak = m /\ m = IF x.peak <= px THEN px ELSE x.peak
      BY <2>2, <2>3, <2>4, <2>8 DEF m
    <3>2. \A j \in 1..k : F(j) => pc(j) <= y.peak
      BY <1>1, <1>2, <2>4, <2>5, <3>1
    <3>3. y.peak = 0 \/ \E j \in 1..k : F(j) /\ y.peak = pc(j)
      <4>1. CASE x.peak <= px
        BY <1>1, <2>8, <3>1, <4>1
      <4>2. CASE ~(x.peak <= px)
        <5>1. y.peak = x.peak
          BY <3>1, <4>2
        <5> QED BY <1>1, <1>2, <5>1
      <4> QED BY <4>1, <4>2
    <3> QED BY <2>1, <2>6, <3>2, <3>3 DEF UseSoFar, B, F, pc
  <2> QED BY <2>7, <2>8
<1> QED BY <1>3, <1>4

\* A pass's account of all children.
LEMMA PassEnds ==
    ASSUME Slots \in Nat, NEW slots, NEW now, Filled(slots, now),
           NEW s \in Children
    PROVE  /\ Passed(slots, now, s) \in Account
           /\ SlotsSoFar(slots, now, s, Passed(slots, now, s), Len(s))
           /\ UseSoFar(slots, now, s, Passed(slots, now, s), Len(s))
<1> DEFINE n == Len(s)
           z == Passed(slots, now, s)
<1>1. s \in Seq(Child) /\ n \in Nat /\ slots \in Table /\ now \in Nat
  BY DEF Children, Filled
<1>2. PICK a : Accounts(a, slots, now, s, z)
  BY <1>1, PassAccounts
<1> HIDE DEF z
<1> DEFINE G == {m \in 0..n : /\ SlotsSoFar(slots, now, s, a[m], m)
                              /\ UseSoFar(slots, now, s, a[m], m)}
<1>3. 0 \in G
  <2> DEFINE b == NoAccount(slots)
  <2>1. a[0] = b /\ b.slots = slots /\ b.reset = FALSE /\ b.available = FALSE
        /\ b.peak = 0
    BY <1>2 DEF Accounts, NoAccount
  <2> HIDE DEF b
  <2>2. 1..0 = {} /\ Seen(s, 0) = {} /\ 0 \in 0..n
    BY <1>1 DEF Seen
  <2>3. SlotsSoFar(slots, now, s, b, 0)
    BY <2>1, <2>2 DEF SlotsSoFar, Filled
  <2>4. UseSoFar(slots, now, s, b, 0)
    BY <2>1, <2>2 DEF UseSoFar
  <2> QED BY <2>1, <2>2, <2>3, <2>4
<1>4. ASSUME NEW m \in 0..n - 1, m \in G
      PROVE  m + 1 \in G
  <2>1. m \in 0..n /\ m + 1 \in 1..n /\ m + 1 \in 0..n /\ (m + 1) - 1 = m
    BY <1>1
  <2>2. a[m] \in Account /\ a[m + 1] = sample_child(a[m], s[m + 1], now)
    <3> HIDE DEF n
    <3>1. /\ \A i \in 0..n : a[i] \in Account
          /\ \A i \in 1..n : a[i] = sample_child(a[i - 1], s[i], now)
      BY <1>2 DEF Accounts, n
    <3> QED BY <2>1, <3>1
  <2>3. SlotsSoFar(slots, now, s, a[m], m) /\ UseSoFar(slots, now, s, a[m], m)
    BY <1>4
  <2> DEFINE k == m + 1
             x == a[m]
             y == a[m + 1]
  <2>4. /\ k \in 1..Len(s) /\ x \in Account /\ y = sample_child(x, s[k], now)
        /\ SlotsSoFar(slots, now, s, x, k - 1)
        /\ UseSoFar(slots, now, s, x, k - 1)
    BY <2>1, <2>2, <2>3
  <2> HIDE DEF k, x, y
  <2>5. SlotsSoFar(slots, now, s, y, k) /\ UseSoFar(slots, now, s, y, k)
    BY <2>4, SoFarNext
  <2> QED BY <2>1, <2>5 DEF k, y
<1>5. n \in G
  <2> HIDE DEF G, n
  <2>1. n \in 0..n
    BY <1>1
  <2> QED BY <1>1, <1>3, <1>4, <2>1, Induct
<1>6. a[n] = z /\ a[n] \in Account
  <2>1. n \in 0..n
    BY <1>1
  <2> QED BY <1>2, <2>1 DEF Accounts
<1> QED BY <1>5, <1>6 DEF z

\* The percentage of a child, which does not overflow.
LEMMA PercentIs ==
    ASSUME CounterMax \in Nat, Micro \in Nat \ {0}, NEW slots, NEW e, NEW now,
           ChildDelta(slots, e) \in Nat, NEW elapsed \in Nat \ {0},
           elapsed <= CounterMax, elapsed = now - slots[e[1]].sample_ns
    PROVE  ChildPercent(slots, e, now)
             = Rounded(ChildDelta(slots, e) * Micro, elapsed)
<1> DEFINE delta == ChildDelta(slots, e)
           q == CounterMax \div Micro
           x == delta * Micro
<1>1. q \in Nat /\ CounterMax < q * Micro + Micro
  BY Quotient
<1>2. x \in Nat
  <2> HIDE DEF delta
  <2>1. delta \in Nat
    BY DEF delta
  <2> QED BY <2>1
<1>3. CASE delta > q
  <2>1. x > CounterMax
    <3> HIDE DEF q, delta
    <3>1. delta \in Nat /\ delta >= q + 1
      BY <1>1, <1>3 DEF delta
    <3>2. delta * Micro >= (q + 1) * Micro /\ (q + 1) * Micro = q * Micro + Micro
      BY <1>1, <3>1
    <3> DEFINE p == q * Micro
    <3>3. p \in Nat
      BY <1>1
    <3> HIDE DEF p
    <3>4. CounterMax < p + Micro /\ x >= p + Micro
      BY <1>1, <3>2 DEF p
    <3> HIDE DEF x
    <3> QED BY <1>2, <3>3, <3>4
  <2> DEFINE a == 200 * x + elapsed
             b == 2 * elapsed
             r == a \div b
  <2> HIDE DEF x
  <2>2. a \in Nat /\ b \in Nat \ {0} /\ 100 * b < a
    BY <1>2, <2>1
  <2>3. r \in Nat /\ a < r * b + b
    <3> HIDE DEF a, b
    <3> QED BY <2>2, Quotient
  <2>4. 100 <= r
    <3> HIDE DEF a, b, r
    <3> SUFFICES ASSUME ~(100 <= r) PROVE FALSE
      OBVIOUS
    <3>1. r + 1 <= 100
      BY <2>3
    <3>2. (r + 1) * b <= 100 * b /\ (r + 1) * b = r * b + b
      BY <2>2, <2>3, <3>1
    <3> DEFINE p == r * b
    <3>3. p \in Nat
      BY <2>2, <2>3
    <3> HIDE DEF p
    <3>4. a < p + b /\ p + b <= 100 * b
      BY <2>3, <3>2 DEF p
    <3> QED BY <2>2, <3>3, <3>4
  <2>5. Rounded(x, elapsed) = 100
    <3>1. Rounded(x, elapsed) = Min({100, r})
      BY DEF Rounded
    <3> HIDE DEF r
    <3>2. Min({100, r}) = 100
      BY <2>3, <2>4, MinOfTwo
    <3> QED BY <3>1, <3>2
  <2> QED BY <1>3, <2>5 DEF ChildPercent, x
<1>4. CASE ~(delta > q)
  <2>1. ChildPercent(slots, e, now) = utilisation(x, elapsed)
    BY <1>4 DEF ChildPercent
  <2> HIDE DEF x
  <2>2. utilisation(x, elapsed) = Rounded(x, elapsed)
    BY <1>2, UtilisationIsRounded
  <2> QED BY <2>1, <2>2 DEF x
<1> QED BY <1>3, <1>4

\* The threads of a pass and what they had used.
LEMMA TidsAre ==
    ASSUME NEW s \in Children, NEW r, r.children = s
    PROVE  /\ Tids(r) = Seen(s, Len(s)) /\ IsFiniteSet(Tids(r))
           /\ Tids(r) \in SUBSET Nat
           /\ \A j \in 1..Len(s) : /\ s[j][1] \in Tids(r)
                                   /\ UsageOf(r, s[j][1]) = s[j][2]
                                   /\ s[j][2] \in Nat
           /\ \A t \in Tids(r) : \E j \in 1..Len(s) : t = s[j][1]
<1> DEFINE n == Len(s)
<1>1. /\ s \in Seq(Child) /\ n \in Nat /\ DOMAIN s = 1..n
      /\ \A i, j \in 1..n : s[i][1] = s[j][1] => i = j
      /\ \A j \in 1..n : s[j] \in Child
  BY DEF Children
<1> HIDE DEF n
<1>2. Range(s) = {s[j] : j \in 1..n}
  BY <1>1 DEF Range
<1>3. Tids(r) = Seen(s, n)
  <2>1. \A t : t \in Tids(r) <=> t \in Seen(s, n)
    BY <1>2 DEF Tids, Seen
  <2> QED BY <2>1
<1>4. ASSUME NEW j \in 1..n
      PROVE  /\ s[j][1] \in Tids(r) /\ UsageOf(r, s[j][1]) = s[j][2]
             /\ s[j][2] \in Nat
  <2>1. s[j] \in Range(s) /\ \A e \in Range(s) : e[1] = s[j][1] => e = s[j]
    BY <1>1, <1>2
  <2>2. (CHOOSE e \in Range(s) : e[1] = s[j][1]) = s[j]
    BY <2>1
  <2>3. s[j][2] \in Nat
    BY <1>1 DEF Child
  <2> QED BY <1>3, <2>2, <2>3 DEF UsageOf, Seen
<1>5. IsFiniteSet(Seen(s, n)) /\ Seen(s, n) \in SUBSET Nat
  <2>1. CASE n = 0
    <3>1. 1..n = {}
      BY <2>1
    <3>2. Seen(s, n) = {}
      BY <3>1 DEF Seen
    <3> QED BY <3>2, FS_EmptySet
  <2>2. CASE n # 0
    <3>1. n \in 1..Len(s)
      BY <1>1, <2>2 DEF n
    <3> QED BY <3>1, SeenNext DEF n
  <2> QED BY <2>1, <2>2
<1>6. \A t \in Seen(s, n) : \E j \in 1..n : t = s[j][1]
  BY DEF Seen
<1> QED BY <1>3, <1>4, <1>5, <1>6 DEF n

\* What a thread of a pass had used is a number.
LEMMA UsageIsNat ==
    ASSUME NEW s \in Children, NEW r, r.children = s
    PROVE  \A t \in Tids(r) : UsageOf(r, t) \in Nat
<1> SUFFICES ASSUME NEW t \in Tids(r) PROVE UsageOf(r, t) \in Nat
  OBVIOUS
<1>1. PICK j \in 1..Len(s) : t = s[j][1]
  BY TidsAre
<1>2. UsageOf(r, s[j][1]) = s[j][2] /\ s[j][2] \in Nat
  BY TidsAre
<1> QED BY ONLY <1>1, <1>2

ThreadReading == [at : Nat, children : Children]

\* All threads of the passes since the last reset.
Everyone(s) == UNION {Tids(s[i]) : i \in 1..Len(s)}

Few(s) == Cardinality(Everyone(s)) <= Slots

LEMMA EveryoneIsFinite ==
    ASSUME NEW s \in Seq(ThreadReading)
    PROVE  /\ IsFiniteSet(Everyone(s))
           /\ \A i \in 1..Len(s) : Tids(s[i]) \in SUBSET Everyone(s)
<1> DEFINE n == Len(s)
           T == {Tids(s[i]) : i \in 1..n}
           f == [i \in 1..n |-> Tids(s[i])]
<1>1. n \in Nat /\ \A i \in 1..n : s[i] \in ThreadReading
  OBVIOUS
<1>2. \A i \in 1..n : IsFiniteSet(Tids(s[i]))
  <2> SUFFICES ASSUME NEW i \in 1..n PROVE IsFiniteSet(Tids(s[i]))
    OBVIOUS
  <2> DEFINE r == s[i]
  <2>1. r.children \in Children
    BY <1>1 DEF ThreadReading
  <2> HIDE DEF r
  <2>2. IsFiniteSet(Tids(r))
    BY <2>1, TidsAre
  <2> QED BY <2>2 DEF r
<1>3. IsFiniteSet(1..n)
  <2>1. 1 \in Int /\ n \in Int
    BY <1>1
  <2> HIDE DEF n
  <2> QED BY <2>1, FS_Interval
<1>4. f \in Surjection(1..n, T)
  BY DEF Surjection
<1>5. \A X \in T : IsFiniteSet(X)
  BY <1>2
<1> HIDE DEF f
<1>6. Everyone(s) = UNION T
  BY DEF Everyone
<1>7. \A i \in 1..n : Tids(s[i]) \in SUBSET UNION T
  OBVIOUS
<1> HIDE DEF T
<1>8. IsFiniteSet(T)
  <2> HIDE DEF n
  <2> QED BY <1>3, <1>4, FS_Surjection
<1>9. IsFiniteSet(UNION T)
  BY <1>5, <1>8, FS_UNION
<1> QED BY <1>6, <1>7, <1>9

\* If the slots suffice for all threads, they did before the last pass.
LEMMA FewShrinks ==
    ASSUME Slots \in Nat, NEW s \in Seq(ThreadReading), NEW r \in ThreadReading,
           NEW t, t = Append(s, r), Few(t)
    PROVE  /\ Few(s)
           /\ \A X \in SUBSET Everyone(s) : Cardinality(X \cup Tids(r)) <= Slots
<1> DEFINE n == Len(s)
           U == Everyone(t)
<1>1. /\ n \in Nat /\ t \in Seq(ThreadReading) /\ Len(t) = n + 1 /\ t[n + 1] = r
      /\ \A i \in 1..n : t[i] = s[i]
  OBVIOUS
<1>2. IsFiniteSet(U) /\ \A i \in 1..n + 1 : Tids(t[i]) \in SUBSET U
  BY <1>1, EveryoneIsFinite
<1>3. Everyone(s) \in SUBSET U /\ Tids(r) \in SUBSET U
  <2>1. \A i \in 1..n : i \in 1..n + 1 /\ t[i] = s[i]
    BY <1>1
  <2>2. \A i \in 1..n : Tids(s[i]) \in SUBSET U
    BY <1>2, <2>1
  <2>3. n + 1 \in 1..n + 1
    BY <1>1
  <2>4. Tids(r) \in SUBSET U
    BY <1>1, <1>2, <2>3
  <2> HIDE DEF U
  <2> QED BY <2>2, <2>4 DEF Everyone
<1>4. ASSUME NEW X \in SUBSET U PROVE Cardinality(X) <= Slots
  <2>1. Cardinality(U) <= Slots
    BY DEF Few
  <2> HIDE DEF U
  <2>2. /\ Cardinality(X) <= Cardinality(U) /\ IsFiniteSet(X)
        /\ Cardinality(X) \in Nat /\ Cardinality(U) \in Nat
    BY <1>2, FS_Subset, FS_CardinalityType
  <2> QED BY <2>1, <2>2
<1> HIDE DEF U
<1>5. Few(s)
  BY <1>3, <1>4 DEF Few
<1>6. \A X \in SUBSET Everyone(s) : X \cup Tids(r) \in SUBSET U
  BY <1>3
<1> QED BY <1>4, <1>5, <1>6

\* What is kept is what the last pass read.
ThreadKept(slots, thread, s, now) ==
    /\ s \in Seq(ThreadReading)
    /\ slots \in Table /\ Cardinality(DOMAIN slots) <= Slots
    /\ s = <<>> => slots = Empty /\ thread = NoThread
    /\ s # <<>> =>
         /\ thread.sample_ns = s[Len(s)].at
         /\ s[Len(s)].at # 0 /\ s[Len(s)].at <= now
         /\ DOMAIN slots \in SUBSET Tids(s[Len(s)])
         /\ \A t \in DOMAIN slots :
              slots[t] = [usage |-> UsageOf(s[Len(s)], t),
                          sample_ns |-> s[Len(s)].at]
         /\ Few(s) => DOMAIN slots = Tids(s[Len(s)])
    /\ thread.available => IsThreadUse(thread.percent, s)

\* A pass that is due comes after the one before.
Due(thread, now) ==
    \/ thread.sample_ns = 0
    \/ now < thread.sample_ns
    \/ now - thread.sample_ns >= Interval

LEMMA PassFinds ==
    ASSUME Interval \in Nat \ {0}, NEW m \in Nat, NEW now \in Nat, m <= now,
           NEW slots, NEW thread, NEW s, ThreadKept(slots, thread, s, m),
           Due(thread, now)
    PROVE  /\ Filled(slots, now) /\ (s = <<>> => DOMAIN slots = {})
           /\ s # <<>> => s[Len(s)] \in ThreadReading /\ s[Len(s)].at < now
<1>0. DOMAIN Empty = {}
  BY DEF Empty
<1>1. CASE s = <<>>
  <2>1. slots = Empty
    BY <1>1 DEF ThreadKept
  <2> QED BY <1>0, <1>1, <2>1 DEF ThreadKept, Filled
<1>2. CASE s # <<>>
  <2> DEFINE r == s[Len(s)]
  <2>1. r \in ThreadReading
    BY <1>2 DEF ThreadKept
  <2>2. /\ thread.sample_ns = r.at /\ r.at # 0 /\ r.at <= m
        /\ \A t \in DOMAIN slots : slots[t] = [usage |-> UsageOf(r, t), sample_ns |-> r.at]
    BY <1>2 DEF ThreadKept
  <2>3. r.at \in Nat
    BY <2>1 DEF ThreadReading
  <2> HIDE DEF r
  <2>4. r.at < now
    BY <2>2, <2>3 DEF Due
  <2>5. \A t \in DOMAIN slots : slots[t].sample_ns < now
    BY <2>2, <2>4
  <2> QED BY <1>2, <2>1, <2>4, <2>5 DEF ThreadKept, Filled, r
<1> QED BY <1>1, <1>2

\* The slots `p' that a pass leaves, which read `r' as the last of `t'.
PassLeaves(p, r, t, now) ==
    /\ p \in Table /\ Cardinality(DOMAIN p) <= Slots
    /\ DOMAIN p \in SUBSET Tids(r)
    /\ \A u \in DOMAIN p :
         p[u] = [usage |-> UsageOf(r, u), sample_ns |-> now]
    /\ Few(t) => DOMAIN p = Tids(r)

LEMMA PassSlots ==
    ASSUME Slots \in Nat, Interval \in Nat \ {0}, NEW m \in Nat,
           NEW now \in Nat, m <= now, NEW slots, NEW thread, NEW s,
           ThreadKept(slots, thread, s, m), Due(thread, now),
           NEW ch \in Children, NEW r \in ThreadReading, r.children = ch,
           NEW t, t = Append(s, r), NEW z, z = Passed(slots, now, ch),
           NEW p, p = prune_thread_cpu_slots(z.slots, now)
    PROVE  PassLeaves(p, r, t, now)
<1> DEFINE D == DOMAIN slots
           Z == DOMAIN z.slots
           n == Len(ch)
           S == Seen(ch, n)
<1>1. Filled(slots, now) /\ (s = <<>> => D = {})
  BY PassFinds
<1>2. z \in Account /\ SlotsSoFar(slots, now, ch, z, n)
  BY <1>1, PassEnds
<1>3. /\ Tids(r) = S
      /\ \A j \in 1..n : UsageOf(r, ch[j][1]) = ch[j][2]
      /\ \A u \in S : \E j \in 1..n : u = ch[j][1]
  BY TidsAre
<1>4. /\ D \in SUBSET Z /\ Z \in SUBSET (D \cup S)
      /\ Cardinality(Z) <= Slots
      /\ \A u \in Z : u \notin S => z.slots[u] = slots[u]
      /\ \A j \in 1..n : ch[j][1] \in Z =>
           z.slots[ch[j][1]] = [usage |-> ch[j][2], sample_ns |-> now]
      /\ Cardinality(D \cup S) <= Slots => S \in SUBSET Z
  BY <1>2 DEF SlotsSoFar
<1>5. IsFiniteSet(Z) /\ Z \in SUBSET Nat /\ \A u \in Z : z.slots[u] \in Slot
  <2>1. z.slots \in Table
    BY <1>2 DEF Account
  <2> QED BY <2>1, IsTable
<1>6. \A u \in Z : u \in S =>
         /\ z.slots[u] = [usage |-> UsageOf(r, u), sample_ns |-> now]
         /\ z.slots[u].sample_ns = now
  <2> SUFFICES ASSUME NEW u \in Z, u \in S
               PROVE  /\ z.slots[u] = [usage |-> UsageOf(r, u), sample_ns |-> now]
                      /\ z.slots[u].sample_ns = now
    OBVIOUS
  <2>1. PICK j \in 1..n : u = ch[j][1]
    BY <1>3
  <2> HIDE DEF Z, S, n
  <2>2. z.slots[u] = [usage |-> UsageOf(r, u), sample_ns |-> now]
    BY <1>3, <1>4, <2>1
  <2> QED BY <2>2
<1>7. \A u \in Z : u \notin S => z.slots[u].sample_ns # now
  <2>1. \A u \in D : slots[u].sample_ns < now /\ slots[u] \in Slot /\ now \in Nat
    BY <1>1, IsTable DEF Filled
  <2>2. \A u \in D : slots[u].sample_ns # now
    BY <2>1 DEF Slot
  <2> HIDE DEF Z, D, S, n
  <2> QED BY <1>4, <2>2
<1> HIDE DEF Z, D, S, n
<1>8. /\ DOMAIN p = Z \cap S
      /\ p = [u \in DOMAIN p |-> p[u]]
      /\ \A u \in DOMAIN p : p[u] = z.slots[u]
  <2> DEFINE V == {u \in Z : z.slots[u].sample_ns = now}
  <2>1. V = Z \cap S
    BY <1>6, <1>7
  <2>2. p = [u \in V |-> z.slots[u]]
    BY DEF prune_thread_cpu_slots, Z
  <2> HIDE DEF V
  <2> QED BY <2>1, <2>2
<1>9. DOMAIN p \in SUBSET Z /\ IsFiniteSet(DOMAIN p)
      /\ Cardinality(DOMAIN p) <= Slots
  <2> DEFINE V == DOMAIN p
  <2>1. V \in SUBSET Z
    BY <1>8
  <2> HIDE DEF V
  <2>2. IsFiniteSet(V) /\ Cardinality(V) <= Cardinality(Z)
        /\ Cardinality(V) \in Nat /\ Cardinality(Z) \in Nat
    BY <1>5, <2>1, FS_Subset, FS_CardinalityType
  <2>3. Cardinality(V) <= Slots
    BY <1>4, <2>2
  <2> QED BY <2>1, <2>2, <2>3 DEF V
<1>10. p \in Table
  <2>1. DOMAIN p \in SUBSET Nat /\ \A u \in DOMAIN p : p[u] \in Slot
    BY <1>5, <1>8, <1>9
  <2> QED BY <1>8, <1>9, <2>1, IsTable
<1>11. \A u \in DOMAIN p : p[u] = [usage |-> UsageOf(r, u), sample_ns |-> now]
  BY <1>6, <1>8
<1>12. ASSUME Few(t) PROVE DOMAIN p = S
  <2>1. s \in Seq(ThreadReading)
    BY DEF ThreadKept
  <2>2. D \in SUBSET Everyone(s)
    <3>1. CASE s = <<>>
      BY <1>1, <3>1
    <3>2. CASE s # <<>>
      <4> DEFINE k == Len(s)
      <4>1. k \in 1..k
        BY <2>1, <3>2
      <4>2. D \in SUBSET Tids(s[k])
        BY <3>2 DEF ThreadKept, D
      <4> HIDE DEF k
      <4>3. Tids(s[k]) \in SUBSET Everyone(s)
        BY <2>1, <4>1, EveryoneIsFinite DEF k
      <4> QED BY <4>2, <4>3
    <3> QED BY <3>1, <3>2
  <2>3. Cardinality(D \cup Tids(r)) <= Slots
    BY <1>12, <2>1, <2>2, FewShrinks
  <2>4. S \in SUBSET Z
    BY <1>3, <1>4, <2>3
  <2> QED BY <1>8, <2>4
<1> QED BY <1>3, <1>8, <1>9, <1>10, <1>11, <1>12 DEF PassLeaves

\* What the threads of a sequence's last two passes used in between.
Elapsed(s) == s[Len(s)].at - s[Len(s) - 1].at

Both(s) == Tids(s[Len(s)]) \cap Tids(s[Len(s) - 1])

Used(s, t) == UsageOf(s[Len(s)], t) - UsageOf(s[Len(s) - 1], t)

ThreadUses(s) ==
    {Rounded(Used(s, t) * Micro, Elapsed(s)) : t \in {t \in Both(s) : Used(s, t) >= 0}}

LEMMA IsUse ==
    ASSUME NEW s, ~(Len(s) < 2), NEW u
    PROVE  IsThreadUse(u, s)
             <=> /\ u \in ThreadUses(s)
                 /\ Few(s) => /\ u = Max(ThreadUses(s))
                              /\ \A t \in Both(s) : Used(s, t) >= 0
  BY DEF IsThreadUse, ThreadUses, Few, Everyone, Both, Used, Elapsed

\* The use a pass shows.
LEMMA PassUse ==
    ASSUME Slots \in Nat, CounterMax \in Nat, Micro \in Nat \ {0},
           Interval \in Nat \ {0}, NEW m \in Nat, NEW now \in Nat, m <= now,
           now <= CounterMax, NEW slots, NEW thread, NEW s,
           ThreadKept(slots, thread, s, m), Due(thread, now),
           NEW ch \in Children, NEW r \in ThreadReading, r.children = ch,
           r.at = now, NEW t, t = Append(s, r),
           NEW z, z = Passed(slots, now, ch), z.available, ~z.reset
    PROVE  IsThreadUse(z.peak, t)
<1> DEFINE D == DOMAIN slots
           n == Len(ch)
           k == Len(s)
           q == s[k]
           el == now - q.at
           F(j) == Forward(slots, ch, j)
           pc(j) == ChildPercent(slots, ch[j], now)
           name(j) == ch[j][1]
<1>1. Filled(slots, now) /\ (s = <<>> => D = {})
      /\ (s # <<>> => q \in ThreadReading /\ q.at < now)
  BY PassFinds
<1>2. z \in Account /\ UseSoFar(slots, now, ch, z, n)
  BY <1>1, PassEnds
<1>3. /\ \A j \in 1..n : ~Back(slots, ch, j)
      /\ \E j \in 1..n : F(j)
      /\ \A j \in 1..n : F(j) => pc(j) <= z.peak
      /\ z.peak = 0 \/ \E j \in 1..n : F(j) /\ z.peak = pc(j)
  BY <1>2 DEF UseSoFar
<1>4. s # <<>>
  BY <1>1, <1>3 DEF Forward
<1>5. /\ s \in Seq(ThreadReading) /\ k \in Nat /\ k # 0 /\ Len(t) = k + 1
      /\ t[k + 1] = r /\ t[k] = q
  <2>1. s \in Seq(ThreadReading)
    BY DEF ThreadKept
  <2> QED BY <1>4, <2>1
<1>6. /\ el \in Nat \ {0} /\ el <= CounterMax
  <2>1. q.at \in Nat /\ q.at < now
    BY <1>1, <1>4 DEF ThreadReading
  <2> HIDE DEF q
  <2> QED BY <2>1
<1>7. /\ \A u \in D : /\ slots[u] = [usage |-> UsageOf(q, u), sample_ns |-> q.at]
                      /\ u \in Tids(q)
      /\ Few(s) => D = Tids(q)
  BY <1>4 DEF ThreadKept
<1>8. \A u \in Tids(q) : UsageOf(q, u) \in Nat
  <2> DEFINE c == q.children
  <2>1. c \in Children /\ q.children = c
    BY <1>1, <1>4 DEF ThreadReading
  <2> HIDE DEF c, q
  <2> QED BY ONLY <2>1, UsageIsNat
<1>9. /\ \A j \in 1..n : name(j) \in Tids(r) /\ UsageOf(r, name(j)) = ch[j][2]
                         /\ ch[j][2] \in Nat
      /\ \A u \in Tids(r) : \E j \in 1..n : u = name(j)
  BY TidsAre
<1>10. ~(Len(t) < 2) /\ Both(t) = Tids(r) \cap Tids(q) /\ Elapsed(t) = el
       /\ \A u : Used(t, u) = UsageOf(r, u) - UsageOf(q, u)
  <2> HIDE DEF k, q
  <2>1. Len(t) = k + 1 /\ Len(t) - 1 = k /\ ~(k + 1 < 2)
    BY <1>5
  <2>2. t[Len(t)] = r /\ t[Len(t) - 1] = q
    BY <1>5, <2>1
  <2> QED BY <2>1, <2>2 DEF Both, Elapsed, Used
<1> HIDE DEF n, k, q, el
<1>11. ASSUME NEW j \in 1..n, name(j) \in D
       PROVE  /\ name(j) \in Both(t)
              /\ Used(t, name(j)) = ChildDelta(slots, ch[j])
              /\ slots[ch[j][1]].sample_ns = q.at
  <2>1. slots[ch[j][1]].usage = UsageOf(q, ch[j][1])
    BY <1>7, <1>11
  <2> QED BY <1>7, <1>9, <1>10, <1>11, <2>1 DEF ChildDelta
<1>12. \A u \in Both(t) : Used(t, u) \in Int
  BY <1>8, <1>9, <1>10
<1>13. ASSUME NEW j \in 1..n, F(j)
       PROVE  pc(j) \in ThreadUses(t)
  <2>1. name(j) \in D /\ ChildDelta(slots, ch[j]) >= 0
    BY <1>13 DEF Forward
  <2>2. ChildDelta(slots, ch[j]) \in Nat
    BY <1>11, <1>12, <2>1
  <2> DEFINE e == ch[j]
  <2>3. el = now - slots[e[1]].sample_ns /\ ChildDelta(slots, e) \in Nat
    BY <1>11, <2>1, <2>2 DEF el
  <2> HIDE DEF e
  <2>4. ChildPercent(slots, e, now) = Rounded(ChildDelta(slots, e) * Micro, el)
    BY <1>6, <2>3, PercentIs
  <2>5. pc(j) = Rounded(Used(t, name(j)) * Micro, Elapsed(t))
    BY <1>10, <1>11, <2>1, <2>4 DEF e
  <2>6. name(j) \in Both(t) /\ Used(t, name(j)) >= 0
    BY <1>11, <2>1
  <2> HIDE DEF pc, name
  <2> QED BY <2>5, <2>6 DEF ThreadUses
<1>14. \A j \in 1..n : pc(j) \in Nat
  BY UtilisationType DEF ChildPercent
<1>15. z.peak \in ThreadUses(t)
  <2> HIDE DEF F, pc
  <2>1. PICK j \in 1..n : F(j) /\ z.peak = pc(j)
    <3>1. CASE z.peak = 0
      <4>1. PICK j \in 1..n : F(j)
        BY <1>3
      <4>2. pc(j) <= 0 /\ pc(j) \in Nat
        BY <1>3, <1>14, <3>1, <4>1
      <4> QED BY <3>1, <4>1, <4>2
    <3> QED BY <1>3, <3>1
  <2> QED BY <1>13, <2>1
<1>16. ASSUME Few(t)
       PROVE  /\ z.peak = Max(ThreadUses(t))
              /\ \A u \in Both(t) : Used(t, u) >= 0
  <2>1. D = Tids(q)
    <3>1. Few(s)
      BY <1>5, <1>16, FewShrinks
    <3> QED BY <1>7, <3>1
  <2>2. ASSUME NEW u \in Both(t)
        PROVE  \E j \in 1..n : u = name(j) /\ F(j)
    <3>1. PICK j \in 1..n : u = name(j)
      BY <1>9, <1>10
    <3>2. name(j) \in D
      BY <1>10, <2>1, <3>1
    <3>3. ChildDelta(slots, ch[j]) \in Int /\ ~(ChildDelta(slots, ch[j]) < 0)
      BY <1>3, <1>11, <1>12, <3>2 DEF Back
    <3>4. F(j)
      BY <3>2, <3>3 DEF Forward
    <3> QED BY <3>1, <3>4
  <2>3. \A u \in Both(t) : Used(t, u) >= 0
    <3> SUFFICES ASSUME NEW u \in Both(t) PROVE Used(t, u) >= 0
      OBVIOUS
    <3>1. PICK j \in 1..n : u = name(j) /\ F(j)
      BY <2>2
    <3> QED BY <1>11, <3>1 DEF Forward
  <2>4. ASSUME NEW v \in ThreadUses(t) PROVE v <= z.peak /\ v \in Int
    <3>1. PICK u \in Both(t) : v = Rounded(Used(t, u) * Micro, Elapsed(t))
      BY DEF ThreadUses
    <3>2. PICK j \in 1..n : u = name(j) /\ F(j)
      BY <2>2
    <3> DEFINE e == ch[j]
    <3>3. name(j) \in D /\ ChildDelta(slots, ch[j]) >= 0
      BY <3>2 DEF Forward
    <3>4. el = now - slots[e[1]].sample_ns /\ ChildDelta(slots, e) \in Nat
          /\ Used(t, u) = ChildDelta(slots, e)
      BY <1>11, <1>12, <3>2, <3>3 DEF el
    <3> HIDE DEF e
    <3>5. ChildPercent(slots, e, now) = Rounded(ChildDelta(slots, e) * Micro, el)
      BY <1>6, <3>4, PercentIs
    <3>6. v = pc(j)
      BY <1>10, <3>1, <3>4, <3>5 DEF e
    <3> HIDE DEF pc, F
    <3> QED BY <1>3, <1>14, <3>2, <3>6
  <2>5. z.peak = Max(ThreadUses(t))
    <3>1. ThreadUses(t) \in SUBSET Int
      BY <2>4
    <3> QED BY <1>15, <2>4, <3>1, MaxIs
  <2> QED BY <2>3, <2>5
<1> QED BY <1>10, <1>15, <1>16, IsUse

ThreadInv ==
    /\ monotonic \in Nat
    /\ ThreadKept(metrics.slots, metrics.thread, past.threads, monotonic)
    /\ ThreadUseIsReference

\* What is kept stays true as time passes.
LEMMA KeptLater ==
    ASSUME NEW m \in Nat, NEW k \in Nat, m <= k, NEW slots, NEW thread, NEW s,
           ThreadKept(slots, thread, s, m)
    PROVE  ThreadKept(slots, thread, s, k)
<1>1. CASE s = <<>>
  BY <1>1 DEF ThreadKept
<1>2. CASE s # <<>>
  <2> DEFINE r == s[Len(s)]
  <2>1. r \in ThreadReading /\ r.at <= m
    BY <1>2 DEF ThreadKept
  <2>2. r.at <= k
    <3>1. r.at \in Nat
      BY <2>1 DEF ThreadReading
    <3> HIDE DEF r
    <3> QED BY <2>1, <3>1
  <2> QED BY <1>2, <2>2 DEF ThreadKept
<1> QED BY <1>1, <1>2

\* Nothing is kept after a reset.
LEMMA NothingKept ==
    ASSUME Slots \in Nat, NEW m
    PROVE  ThreadKept(Empty, NoThread, <<>>, m)
<1>1. Empty \in Table /\ DOMAIN Empty = {}
  <2>1. IsFiniteSet({})
    BY FS_EmptySet
  <2> QED BY <2>1 DEF Table, Empty
<1>2. Cardinality({}) = 0
  BY FS_EmptySet
<1> QED BY <1>1, <1>2 DEF ThreadKept, NoThread

LEMMA ThreadStays ==
    ASSUME Slots \in Nat, CounterMax \in Nat, Micro \in Nat \ {0},
           Interval \in Nat \ {0}, NEW m \in Nat, monotonic' \in Nat,
           m <= monotonic', monotonic' <= CounterMax,
           NEW now \in {0, monotonic'}, NEW slots, NEW thread, NEW s,
           ThreadKept(slots, thread, s, m), NEW o,
           o.threads.children \in Children, ThreadStep(slots, thread, s, now, o)
    PROVE  ThreadInv'
<1>1. ThreadKept(metrics'.slots, metrics'.thread, past'.threads, monotonic')
  <2>1. CASE metrics'.slots = slots /\ metrics'.thread = thread /\ past'.threads = s
    BY <2>1, KeptLater
  <2>2. CASE metrics'.slots = Empty /\ metrics'.thread = NoThread /\ past'.threads = <<>>
    BY <2>2, NothingKept
  <2>3. CASE /\ now # 0
             /\ Due(thread, now)
             /\ PassStep(slots, thread, s, now, o.threads.children)
    <3> DEFINE ch == o.threads.children
               r == [at |-> now, children |-> ch]
               t == Append(s, r)
               z == Passed(slots, now, ch)
               p == prune_thread_cpu_slots(z.slots, now)
               th == metrics'.thread
    <3>1. now = monotonic' /\ now \in Nat /\ now # 0 /\ m <= now /\ now <= CounterMax
      BY <2>3
    <3>2. ch \in Children /\ r \in ThreadReading /\ r.children = ch /\ r.at = now
      BY <3>1 DEF ThreadReading
    <3>3. /\ metrics'.slots = p /\ past'.threads = t /\ th.sample_ns = now
          /\ th.available = (z.available /\ ~z.reset)
          /\ z.available /\ ~z.reset => th.percent = z.peak
      <4>1. /\ metrics'.slots = p /\ past'.threads = t
            /\ metrics'.thread = [sample_ns |-> now,
                                  available |-> z.available /\ ~z.reset,
                                  percent |-> IF z.available /\ ~z.reset
                                              THEN z.peak ELSE thread.percent]
        <5> HIDE DEF z
        <5> QED BY <2>3 DEF PassStep, z
      <4> HIDE DEF p, t, z
      <4> QED BY <4>1
    <3>4. /\ s \in Seq(ThreadReading) /\ t \in Seq(ThreadReading) /\ t # <<>>
          /\ t[Len(t)] = r
      <4>1. s \in Seq(ThreadReading)
        BY DEF ThreadKept
      <4> HIDE DEF r
      <4> QED BY <3>2, <4>1
    <3> DEFINE tt == t
               zz == z
               pp == p
               rr == r
               cc == ch
    <3>5. /\ cc \in Children /\ rr \in ThreadReading /\ rr.children = cc
          /\ rr.at = now /\ tt = Append(s, rr) /\ zz = Passed(slots, now, cc)
          /\ pp = prune_thread_cpu_slots(zz.slots, now)
      BY <3>2
    <3> HIDE DEF tt, zz, pp, rr, cc
    <3>6. PassLeaves(pp, rr, tt, now)
      BY <2>3, <3>1, <3>5, PassSlots
    <3>7. zz.available /\ ~zz.reset => IsThreadUse(zz.peak, tt)
      BY <2>3, <3>1, <3>5, PassUse
    <3>8. /\ metrics'.slots = pp /\ past'.threads = tt /\ th.sample_ns = now
          /\ th.available = (zz.available /\ ~zz.reset)
          /\ zz.available /\ ~zz.reset => th.percent = zz.peak
          /\ tt \in Seq(ThreadReading) /\ tt # <<>> /\ tt[Len(tt)] = rr
      BY <3>3, <3>4 DEF tt, zz, pp, rr
    <3> HIDE DEF th
    <3>9. ThreadKept(pp, th, tt, now)
      <4>1. th.available => IsThreadUse(th.percent, tt)
        BY <3>7, <3>8
      <4> DEFINE l == tt[Len(tt)]
      <4>2. l = rr /\ l.at = now /\ PassLeaves(pp, l, tt, now)
        BY <3>5, <3>6, <3>8
      <4> HIDE DEF l
      <4>3. /\ th.sample_ns = l.at /\ l.at # 0 /\ l.at <= now
            /\ DOMAIN pp \in SUBSET Tids(l)
            /\ \A u \in DOMAIN pp :
                 pp[u] = [usage |-> UsageOf(l, u), sample_ns |-> l.at]
            /\ Few(tt) => DOMAIN pp = Tids(l)
        BY <3>1, <3>8, <4>2 DEF PassLeaves
      <4>4. pp \in Table /\ Cardinality(DOMAIN pp) <= Slots
        BY <3>6 DEF PassLeaves
      <4> QED BY <3>8, <4>1, <4>3, <4>4 DEF ThreadKept, l
    <3> QED BY <3>1, <3>8, <3>9 DEF th
  <2> QED BY <2>1, <2>2, <2>3 DEF ThreadStep, Due
<1>2. ThreadUseIsReference'
  <2>1. metrics'.thread.available => IsThreadUse(metrics'.thread.percent, past'.threads)
    BY <1>1 DEF ThreadKept
  <2>2. shown'.thread = IF metrics'.thread.available
                        THEN metrics'.thread.percent ELSE NoValue
    BY DEF ThreadStep
  <2> QED BY <2>1, <2>2 DEF ThreadUseIsReference
<1> QED BY <1>1, <1>2 DEF ThreadInv
-----------------------------------------------------------------------------
(* The three sources together.                                             *)

UseInv ==
    /\ Shape /\ inputs \in Observations
    /\ CpuInv /\ DrmInv /\ ThreadInv

LEMMA NoClientKept ==
    DrmKept(NoDrm, <<>>)
<1> DEFINE s == <<>>
<1>1. s \in Seq(GpuReading) /\ s = <<>>
  OBVIOUS
<1>2. NoDrm.started = FALSE
  BY DEF NoDrm
<1> HIDE DEF s
<1>3. NoDrm.started = (s # <<>>)
  BY <1>1, <1>2
<1>4. DrmKept(NoDrm, s)
  BY <1>1, <1>3 DEF DrmKept
<1> QED BY <1>4 DEF s

LEMMA UseInit ==
    ASSUME Init
    PROVE  UseInv
<1>1. /\ metrics.cpu = NoCpu /\ metrics.slots = Empty
      /\ metrics.thread = NoThread /\ metrics.drm = NoDrm /\ Shape
  <2>1. PICK g : metrics = [cpu |-> NoCpu, slots |-> Empty, thread |-> NoThread,
                            drm |-> NoDrm, gpu |-> g]
    BY DEF Init
  <2> QED BY <2>1 DEF Shape
<1>2. /\ past.cpu = <<>> /\ past.threads = <<>> /\ past.drm = <<>>
      /\ shown.cpu = NoValue /\ shown.thread = NoValue /\ shown.gpu = NoValue
      /\ monotonic = 1 /\ inputs \in Observations
  BY DEF Init, NoReadings
<1>3. CpuInv
  BY <1>1, <1>2 DEF CpuInv, CpuKept, CpuUseIsReference
<1>4. DrmInv
  <2>1. DrmKept(metrics.drm, past.drm)
    BY <1>1, <1>2, NoClientKept
  <2> QED BY <1>2, <2>1 DEF DrmInv, GpuUseIsReference
<1>5. ThreadInv
  <2>1. ThreadKept(Empty, NoThread, <<>>, monotonic)
    BY NothingKept, MetricsAssumption
  <2> QED BY <1>1, <1>2, <2>1 DEF ThreadInv, ThreadUseIsReference
<1> QED BY <1>1, <1>2, <1>3, <1>4, <1>5 DEF UseInv

\* What a sample finds.
LEMMA Found ==
    ASSUME inputs \in Observations, NEW o \in inputs
    PROVE  /\ o.cpu = NoCpu \/ o.cpu \in Reading
           /\ o.threads.children \in Children
           /\ o.drm.fds \in Seq(Descriptor)
<1>1. /\ o.cpu = [total |-> NoValue, idle |-> NoValue]
         \/ o.cpu \in [total : Nat, idle : Nat]
      /\ o.threads.children \in Seq(Nat \X Nat)
      /\ \A i, j \in DOMAIN o.threads.children :
           o.threads.children[i][1] = o.threads.children[j][1] => i = j
      /\ o.drm.fds \in Seq([id : Nat, engines : [Engines -> Nat \cup {NoValue}]])
  BY MetricsAssumption
<1> QED BY <1>1 DEF NoCpu, Reading, Children, Child, Descriptor, Value

LEMMA UseNext ==
    ASSUME UseInv, [Next]_mvars
    PROVE  UseInv'
<1>1. CASE UNCHANGED mvars
  <2>1. /\ metrics' = metrics /\ inputs' = inputs /\ past' = past
        /\ shown' = shown /\ monotonic' = monotonic
    BY <1>1 DEF mvars
  <2>2. Shape' /\ CpuInv' /\ DrmInv'
    BY <2>1 DEF UseInv, Shape, CpuInv, CpuUseIsReference, DrmInv,
                GpuUseIsReference
  <2>3. ThreadInv'
    BY <2>1 DEF UseInv, ThreadInv, ThreadUseIsReference
  <2> QED BY <2>1, <2>2, <2>3 DEF UseInv
<1>2. ASSUME NEW reset \in BOOLEAN, NEW step \in Steps, NEW o \in inputs,
             Sample(reset, step, o)
      PROVE  UseInv'
  <2>1. /\ Shape' /\ monotonic' = monotonic + step /\ monotonic' <= CounterMax
        /\ \E now \in {0, monotonic'} :
             \/ Samples(metrics.cpu, metrics.slots, metrics.thread,
                        metrics.drm, past, now, o)
             \/ Samples(NoCpu, Empty, NoThread, NoDrm, NoReadings, now, o)
    BY <1>2, SampleEffect DEF UseInv
  <2>2. /\ Slots \in Nat /\ CounterMax \in Nat /\ Micro \in Nat \ {0}
        /\ Interval \in Nat \ {0} /\ step \in Nat
    BY MetricsAssumption
  <2>3. /\ monotonic \in Nat /\ monotonic' \in Nat /\ monotonic <= monotonic'
    BY <2>1, <2>2 DEF UseInv, ThreadInv
  <2>4. PICK now \in {0, monotonic'} :
             \/ Samples(metrics.cpu, metrics.slots, metrics.thread,
                        metrics.drm, past, now, o)
             \/ Samples(NoCpu, Empty, NoThread, NoDrm, NoReadings, now, o)
    BY <2>1
  <2>5. /\ o.cpu = NoCpu \/ o.cpu \in Reading
        /\ o.threads.children \in Children
        /\ o.drm.fds \in Seq(Descriptor)
    BY Found DEF UseInv
  <2>6. now \in Nat
    BY <2>3
  <2>7. ASSUME NEW cpu, NEW slots, NEW thread, NEW drm, NEW c, NEW t, NEW d,
               CpuKept(cpu, c), CpuStep(cpu, c, o),
               ThreadKept(slots, thread, t, monotonic),
               ThreadStep(slots, thread, t, now, o),
               DrmKept(drm, d), DrmStep(drm, d, now, o)
        PROVE  CpuInv' /\ ThreadInv' /\ DrmInv'
    <3>1. CpuInv'
      BY <2>5, <2>7, CpuStays
    <3>2. ThreadInv'
      BY <2>1, <2>2, <2>3, <2>5, <2>7, ThreadStays
    <3>3. DrmInv'
      BY <2>5, <2>6, <2>7, DrmStays
    <3> QED BY <3>1, <3>2, <3>3
  <2>8. CpuInv' /\ ThreadInv' /\ DrmInv'
    <3>1. CASE Samples(metrics.cpu, metrics.slots, metrics.thread,
                       metrics.drm, past, now, o)
      <4>1. /\ CpuKept(metrics.cpu, past.cpu) /\ DrmKept(metrics.drm, past.drm)
            /\ ThreadKept(metrics.slots, metrics.thread, past.threads, monotonic)
        BY DEF UseInv, CpuInv, DrmInv, ThreadInv
      <4> QED BY <2>7, <3>1, <4>1 DEF Samples
    <3>2. CASE Samples(NoCpu, Empty, NoThread, NoDrm, NoReadings, now, o)
      <4>1. NoReadings.cpu = <<>> /\ NoReadings.threads = <<>>
            /\ NoReadings.drm = <<>>
        BY DEF NoReadings
      <4>2. CpuKept(NoCpu, <<>>)
        BY DEF CpuKept
      <4>3. DrmKept(NoDrm, <<>>)
        BY NoClientKept
      <4>4. ThreadKept(Empty, NoThread, <<>>, monotonic)
        BY <2>2, NothingKept
      <4> QED BY <2>7, <3>2, <4>1, <4>2, <4>3, <4>4 DEF Samples
    <3> QED BY <2>4, <3>1, <3>2
  <2>9. inputs' \in Observations
    BY <1>2 DEF Sample, UseInv
  <2> QED BY <2>1, <2>8, <2>9 DEF UseInv
<1> QED BY <1>1, <1>2 DEF Next

\* hud_drm_fdinfo.c:217-324, hud_metrics.c:235-314 and 732-750: for any
\* number of threads, clients, engines and slots, and whatever the files say,
\* what is shown are the increases of the counters over the time between.
THEOREM UseFollowsCounters == Spec => []UseIsReference
<1>1. Init => UseInv
  BY UseInit
<1>2. UseInv /\ [Next]_mvars => UseInv'
  BY UseNext
<1>3. UseInv => UseIsReference
  BY DEF UseInv, CpuInv, DrmInv, ThreadInv, UseIsReference
<1> QED BY <1>1, <1>2, <1>3, PTL DEF Spec
-----------------------------------------------------------------------------
(* The parser's loop.                                                      *)

\* A file: a sequence of lines of the kinds the parser tells apart.
IsLine(l) ==
    l = BadByte \/ l.kind \in {"skip", "section", "badsection", "noequals", "entry"}

IsFile(f) ==
    Len(f) \in Nat /\ DOMAIN f = 1..Len(f) /\ \A k \in DOMAIN f : IsLine(f[k])

\* h gives the parser's state after the lines of each set, up to line m.
ReadsIn(f, m, h) ==
    /\ DOMAIN h = SUBSET (1..m)
    /\ h = [X \in SUBSET (1..m) |->
              IF X = {} THEN ParseInit
              ELSE LET x == Max(X) IN parse_line(h[X \ {x}], f[x])]

LEMMA ReadsExist ==
    ASSUME NEW f, NEW n \in Nat
    PROVE  \E h : ReadsIn(f, n, h)
<1> DEFINE G == {m \in 0..n : \E h : ReadsIn(f, m, h)}
<1>1. 0 \in G
  <2> DEFINE h == [X \in SUBSET (1..0) |-> ParseInit]
  <2>1. \A X \in SUBSET (1..0) : X = {}
    OBVIOUS
  <2>2. h = [X \in SUBSET (1..0) |->
              IF X = {} THEN ParseInit
              ELSE LET x == Max(X) IN parse_line(h[X \ {x}], f[x])]
    BY <2>1
  <2>3. ReadsIn(f, 0, h)
    <3>1. DOMAIN h = SUBSET (1..0)
      OBVIOUS
    <3> HIDE DEF h
    <3> QED BY <2>2, <3>1 DEF ReadsIn
  <2>4. 0 \in 0..n
    OBVIOUS
  <2> QED BY <2>3, <2>4
<1>2. ASSUME NEW m \in 0..n - 1, m \in G PROVE m + 1 \in G
  <2>1. PICK g : ReadsIn(f, m, g)
    BY <1>2
  <2> DEFINE k == m + 1
             h == [X \in SUBSET (1..k) |->
                     IF k \in X THEN parse_line(g[X \ {k}], f[k]) ELSE g[X]]
  <2>2. k \in 1..n /\ k \in 0..n /\ 1..m = (1..k) \ {k}
    OBVIOUS
  <2> HIDE DEF k
  <2>3. \A X \in SUBSET (1..k) : k \notin X => X \in SUBSET (1..m)
    BY <2>2
  <2>4. \A X \in SUBSET (1..k) : X \ {k} \in SUBSET (1..m)
    BY <2>2
  <2>5. \A X \in SUBSET (1..k) : k \in X => Max(X) = k
    BY <2>2, MaxIs
  <2>6. \A X \in SUBSET (1..m) : X \in SUBSET (1..k) /\ k \notin X
    BY <2>2
  <2>7. \A X \in SUBSET (1..m) : h[X] = g[X]
    BY <2>6
  <2>8. \A X \in SUBSET (1..m) :
          g[X] = IF X = {} THEN ParseInit
                 ELSE parse_line(g[X \ {Max(X)}], f[Max(X)])
    BY <2>1 DEF ReadsIn
  <2>9. ASSUME NEW X \in SUBSET (1..k)
        PROVE  h[X] = IF X = {} THEN ParseInit
                      ELSE parse_line(h[X \ {Max(X)}], f[Max(X)])
    <3>1. CASE k \in X
      <4>1. h[X] = parse_line(g[X \ {k}], f[k])
        BY <3>1
      <4>2. h[X \ {k}] = g[X \ {k}]
        BY <2>4, <2>7
      <4> HIDE DEF h
      <4> QED BY <2>5, <3>1, <4>1, <4>2
    <3>2. CASE k \notin X
      <4>1. X \in SUBSET (1..m) /\ X \ {Max(X)} \in SUBSET (1..m)
        BY <2>3, <3>2
      <4>2. h[X] = g[X] /\ h[X \ {Max(X)}] = g[X \ {Max(X)}]
        BY <2>7, <4>1
      <4> HIDE DEF h
      <4> QED BY <2>8, <4>1, <4>2
    <3> QED BY <3>1, <3>2
  <2>10. DOMAIN h = SUBSET (1..k)
    OBVIOUS
  <2>11. h = [X \in SUBSET (1..k) |->
               IF X = {} THEN ParseInit
               ELSE LET x == Max(X) IN parse_line(h[X \ {x}], f[x])]
    BY <2>9
  <2> HIDE DEF h
  <2>12. ReadsIn(f, k, h)
    BY <2>10, <2>11 DEF ReadsIn
  <2> QED BY <2>2, <2>12 DEF k
<1>3. \A m \in 0..n : m \in G
  <2> HIDE DEF G
  <2> QED BY <1>1, <1>2, Induct
<1>4. n \in 0..n
  OBVIOUS
<1> QED BY <1>3, <1>4

\* The states the loop passes through.
LEMMA ReadPasses ==
    ASSUME NEW f, IsFile(f)
    PROVE  \E a : /\ a[0] = ParseInit
                  /\ a[Len(f)] = FoldLeft(parse_line, ParseInit, f)
                  /\ \A m \in 1..Len(f) : a[m] = parse_line(a[m - 1], f[m])
<1> DEFINE n == Len(f)
           K == DOMAIN f
           G(h) == [X \in SUBSET K |->
                      IF X = {} THEN ParseInit
                      ELSE LET x == Max(X) IN parse_line(h[X \ {x}], f[x])]
           acc == CHOOSE h : h = G(h)
           a == [m \in 0..n |-> acc[1..m]]
<1>1. n \in Nat /\ K = 1..n
  BY DEF IsFile
<1>2. PICK h : ReadsIn(f, n, h)
  BY <1>1, ReadsExist
<1>3. h = G(h)
  BY <1>1, <1>2 DEF ReadsIn
<1>4. acc = G(acc)
  <2> HIDE DEF G
  <2> QED BY <1>3
<1>5. FoldLeft(parse_line, ParseInit, f) = acc[K]
  BY DEF FoldLeft, MapThenFoldSet
<1> HIDE DEF acc
<1>6. a[0] = ParseInit /\ a[n] = acc[K]
  <2>1. 1..0 = {} /\ {} \in SUBSET K /\ 0 \in 0..n /\ n \in 0..n
    BY <1>1
  <2>2. acc[{}] = ParseInit
    BY <1>4, <2>1
  <2> QED BY <1>1, <2>1, <2>2
<1>7. ASSUME NEW m \in 1..n
      PROVE  a[m] = parse_line(a[m - 1], f[m])
  <2>1. m \in Nat /\ 1 <= m /\ m <= n
    BY <1>1
  <2>2. (1..m) \ {m} = 1..(m - 1)
    <3>1. \A k : k \in (1..m) \ {m} <=> k \in 1..(m - 1)
      BY <2>1
    <3> QED BY <3>1
  <2>3. 1..m \in SUBSET K /\ 1..m # {} /\ m \in 0..n /\ m - 1 \in 0..n
    <3> HIDE DEF K, n, a
    <3>1. m \in 1..m /\ m \in 0..n /\ m - 1 \in 0..n
      BY <1>1, <2>1
    <3>2. \A y \in 1..m : y \in 1..n
      BY <1>1, <2>1
    <3> QED BY <1>1, <3>1, <3>2
  <2>4. Max(1..m) = m
    <3>1. 1..m \in SUBSET Int /\ m \in 1..m /\ \A y \in 1..m : y <= m
      BY <2>1
    <3> QED BY <3>1, MaxIs
  <2>5. acc[1..m] = parse_line(acc[(1..m) \ {Max(1..m)}], f[Max(1..m)])
    BY <1>4, <2>3
  <2> HIDE DEF K, n
  <2> QED BY <2>2, <2>3, <2>4, <2>5
<1> HIDE DEF a
<1> QED BY <1>5, <1>6, <1>7
-----------------------------------------------------------------------------
(* Sections of a file.                                                     *)

LEMMA LeastIn ==
    ASSUME NEW S \in SUBSET Nat, S # {}
    PROVE  Least(S) \in S /\ \A n \in S : Least(S) <= n
<1>1. \E m \in S : \A n \in S : m <= n
  BY HasLeast
<1> QED BY <1>1 DEF Least

LEMMA LeastIs ==
    ASSUME NEW S \in SUBSET Nat, NEW x \in S, \A n \in S : x <= n
    PROVE  Least(S) = x
<1> DEFINE y == Least(S)
<1>1. y \in S /\ y <= x /\ x <= y
  BY LeastIn
<1> HIDE DEF y
<1>2. y = x
  BY <1>1
<1> QED BY <1>2 DEF y

LEMMA MostIn ==
    ASSUME NEW k \in Nat, NEW S \in SUBSET (0..k), S # {}
    PROVE  Most(S) \in S /\ \A n \in S : n <= Most(S)
<1> DEFINE T == {k - x : x \in S}
<1>1. \A x \in S : k - x \in Nat
  OBVIOUS
<1>2. T \in SUBSET Nat /\ T # {}
  BY <1>1
<1>3. PICK l \in T : \A m \in T : l <= m
  <2> HIDE DEF T
  <2> QED BY <1>2, HasLeast
<1>4. PICK x \in S : l = k - x
  BY <1>3
<1>5. \A y \in S : k - x <= k - y /\ y \in 0..k
  BY <1>3, <1>4
<1>6. \A y \in S : y <= x
  BY <1>5
<1> QED BY <1>6 DEF Most

\* A line up to which a section reaches: a header, or the end of the file.
Ends(f, c) == c = Len(f) + 1 \/ c \in Closers(f)

LEMMA Positions ==
    ASSUME NEW f, IsFile(f)
    PROVE  /\ Len(f) \in Nat /\ DOMAIN f = 1..Len(f)
           /\ Closers(f) \in SUBSET (1..Len(f)) /\ Headers(f) \in SUBSET Closers(f)
           /\ \A h, key : Keyed(f, h, key) \in SUBSET (1..Len(f))
           /\ \A h, key, j :
                j \in Keyed(f, h, key) <=>
                    /\ j \in 1..Len(f) /\ f[j].kind = "entry" /\ f[j].key = key
                    /\ Block(f, j) = h
  BY DEF IsFile, Closers, Headers, Keyed

LEMMA BlockIs ==
    ASSUME NEW f, IsFile(f), NEW k \in 0..Len(f)
    PROVE  /\ Block(f, k) \in 0..k
           /\ Block(f, k) = 0 \/ Block(f, k) \in Closers(f)
           /\ \A c \in Closers(f) : c <= k => c <= Block(f, k)
<1> DEFINE S == {0} \cup {h \in Closers(f) : h <= k}
<1>1. k \in Nat /\ S \in SUBSET (0..k) /\ S # {}
  BY Positions
<1>2. Most(S) \in S /\ \A n \in S : n <= Most(S)
  <2> HIDE DEF S
  <2> QED BY <1>1, MostIn
<1>3. Block(f, k) = Most(S)
  BY DEF Block
<1> QED BY <1>1, <1>2, <1>3

LEMMA BlockStarts ==
    ASSUME NEW f, IsFile(f)
    PROVE  Block(f, 0) = 0
<1>1. 0 \in 0..Len(f)
  BY Positions
<1> QED BY <1>1, BlockIs

LEMMA BlockNext ==
    ASSUME NEW f, IsFile(f), NEW k \in 0..Len(f) - 1
    PROVE  Block(f, k + 1) = IF k + 1 \in Closers(f) THEN k + 1 ELSE Block(f, k)
<1>1. k \in 0..Len(f) /\ k + 1 \in 0..Len(f)
  BY Positions
<1> DEFINE b == Block(f, k)
           d == Block(f, k + 1)
<1>2. /\ b \in 0..k /\ (b = 0 \/ b \in Closers(f))
      /\ \A c \in Closers(f) : c <= k => c <= b
  BY <1>1, BlockIs
<1>3. /\ d \in 0..(k + 1) /\ (d = 0 \/ d \in Closers(f))
      /\ \A c \in Closers(f) : c <= k + 1 => c <= d
  BY <1>1, BlockIs
<1>4. \A c \in Closers(f) : c \in Nat
  BY Positions
<1> HIDE DEF b, d
<1>5. d = IF k + 1 \in Closers(f) THEN k + 1 ELSE b
  BY <1>1, <1>2, <1>3, <1>4
<1> QED BY <1>5 DEF b, d

LEMMA ClosingIs ==
    ASSUME NEW f, IsFile(f), NEW h \in Closers(f)
    PROVE  /\ Closing(f, h) \in Nat /\ h < Closing(f, h)
           /\ Closing(f, h) <= Len(f) + 1 /\ Ends(f, Closing(f, h))
           /\ \A c \in Closers(f) : h < c => Closing(f, h) <= c
<1> DEFINE S == {Len(f) + 1} \cup {k \in Closers(f) : k > h}
<1>1. S \in SUBSET Nat /\ S # {} /\ Len(f) + 1 \in S /\ \A x \in S : h < x /\ Ends(f, x)
  BY Positions DEF Ends
<1>2. \A c \in Closers(f) : h < c => c \in S
  BY Positions
<1>3. Least(S) \in S /\ \A n \in S : Least(S) <= n
  <2> HIDE DEF S
  <2> QED BY <1>1, LeastIn
<1>4. Closing(f, h) = Least(S)
  BY DEF Closing
<1> HIDE DEF S
<1> QED BY <1>1, <1>2, <1>3, <1>4

\* The section of a line reaches from its header to the next one.
LEMMA InSection ==
    ASSUME NEW f, IsFile(f), NEW h \in Closers(f), NEW j \in 0..Len(f)
    PROVE  Block(f, j) = h <=> h <= j /\ j < Closing(f, h)
<1> DEFINE b == Block(f, j)
           c == Closing(f, h)
<1>1. /\ b \in 0..j /\ (b = 0 \/ b \in Closers(f))
      /\ \A x \in Closers(f) : x <= j => x <= b
  BY BlockIs
<1>2. /\ c \in Nat /\ h < c /\ c <= Len(f) + 1 /\ (c = Len(f) + 1 \/ c \in Closers(f))
      /\ \A x \in Closers(f) : h < x => c <= x
  BY ClosingIs DEF Ends
<1>3. /\ \A x \in Closers(f) : x \in Nat /\ x # 0
      /\ Len(f) \in Nat
  BY Positions
<1> HIDE DEF b, c
<1>4. b = h <=> h <= j /\ j < c
  BY <1>1, <1>2, <1>3
<1> QED BY <1>4 DEF b, c

\* What is closed at c is the section before it.
LEMMA ClosedAt ==
    ASSUME NEW f, IsFile(f), NEW h \in Closers(f), NEW k \in 0..Len(f)
    PROVE  Closing(f, h) = k + 1 <=> Ends(f, k + 1) /\ h = Block(f, k)
<1> DEFINE b == Block(f, k)
           c == Closing(f, h)
<1>1. b = h <=> h <= k /\ k < c
  BY InSection
<1>2. /\ c \in Nat /\ h < c /\ c <= Len(f) + 1 /\ Ends(f, c)
      /\ \A x \in Closers(f) : h < x => c <= x
  BY ClosingIs
<1>3. Len(f) \in Nat /\ h \in Nat
  BY Positions
<1> HIDE DEF b, c
<1>4. Ends(f, k + 1) /\ b = h => c <= k + 1
  BY <1>1, <1>2, <1>3 DEF Ends
<1>5. c = k + 1 <=> Ends(f, k + 1) /\ h = b
  BY <1>1, <1>2, <1>3, <1>4
<1> QED BY <1>5 DEF b, c

-----------------------------------------------------------------------------
(* Keys of a section.                                                      *)

\* The key was seen in section h by line k.
Has(f, k, h, key) == \E j \in Keyed(f, h, key) : j <= k

LEMMA HasNext ==
    ASSUME NEW f, IsFile(f), NEW k \in 0..Len(f) - 1, NEW h, NEW key
    PROVE  Has(f, k + 1, h, key) <=>
               \/ Has(f, k, h, key)
               \/ /\ f[k + 1].kind = "entry" /\ f[k + 1].key = key
                  /\ Block(f, k + 1) = h
<1>1. k + 1 \in 1..Len(f) /\ k \in Nat
  BY Positions
<1>2. \A j \in Keyed(f, h, key) : j \in Nat
  BY Positions
<1>3. Has(f, k + 1, h, key) <=> Has(f, k, h, key) \/ k + 1 \in Keyed(f, h, key)
  BY <1>1, <1>2 DEF Has
<1> QED BY <1>1, <1>3, Positions

LEMMA HasNothing ==
    ASSUME NEW f, IsFile(f), NEW h, NEW key
    PROVE  ~Has(f, 0, h, key)
  BY Positions DEF Has

\* In a new section no key was seen.
LEMMA HasNoneYet ==
    ASSUME NEW f, IsFile(f), NEW h \in Closers(f), NEW key
    PROVE  ~Has(f, h, h, key)
<1> SUFFICES ASSUME NEW j \in Keyed(f, h, key), j <= h
             PROVE  FALSE
  BY DEF Has
<1>1. j \in 1..Len(f) /\ f[j].kind = "entry" /\ Block(f, j) = h
  BY Positions
<1>2. h \in 1..Len(f) /\ j \in 0..Len(f)
  BY <1>1, Positions
<1>3. h <= j
  BY <1>1, <1>2, InSection
<1>4. j = h
  BY <1>1, <1>2, <1>3
<1>5. f[h].kind \in {"section", "badsection"}
  BY DEF Closers
<1> QED BY <1>1, <1>4, <1>5

\* When a section is closed all of its keys were seen.
LEMMA HasAll ==
    ASSUME NEW f, IsFile(f), NEW k \in 0..Len(f), NEW h, NEW key,
           k = Len(f) \/ (h \in Closers(f) /\ Closing(f, h) <= k + 1)
    PROVE  /\ Has(f, k, h, key) <=> Keyed(f, h, key) # {}
           /\ Has(f, k, h, key) <=> Has(f, Len(f), h, key)
<1>1. ASSUME NEW j \in Keyed(f, h, key)
      PROVE  j <= k /\ j <= Len(f)
  <2>1. j \in 1..Len(f) /\ Block(f, j) = h /\ j \in 0..Len(f)
    BY Positions
  <2>2. CASE h \in Closers(f) /\ Closing(f, h) <= k + 1
    <3>1. j < Closing(f, h)
      BY <2>1, <2>2, InSection
    <3>2. Closing(f, h) \in Nat
      BY <2>2, ClosingIs
    <3> QED BY <2>1, <2>2, <3>1, <3>2
  <2> QED BY <2>1, <2>2
<1> QED BY <1>1 DEF Has

\* The value of a key is the first one seen.
LEMMA FirstValue ==
    ASSUME NEW f, IsFile(f), NEW k \in 0..Len(f) - 1, NEW h, NEW key,
           ~Has(f, k, h, key), k + 1 \in Keyed(f, h, key)
    PROVE  ValueIn(f, h, key) = f[k + 1].value
<1>1. Keyed(f, h, key) \in SUBSET Nat /\ k \in Nat
  BY Positions
<1>2. \A j \in Keyed(f, h, key) : k + 1 <= j
  BY <1>1 DEF Has
<1>3. Least(Keyed(f, h, key)) = k + 1
  BY <1>1, <1>2, LeastIs
<1> QED BY <1>3 DEF ValueIn
-----------------------------------------------------------------------------
(* Priorities and faults.                                                  *)

\* The candidate a priority stands for.
LEMMA PriorityIs ==
    ASSUME NEW e
    PROVE  /\ Priority(e) \in Int /\ Priority(e) >= -1
           /\ Priority(e) >= 0 => Candidates[Priority(e) + 1] = e
<1> DEFINE S == {k \in DOMAIN Candidates : Candidates[k] = e}
<1>1. DOMAIN Candidates = 1..Len(Candidates) /\ Len(Candidates) \in Nat
  BY ParseAssumption
<1>2. CASE S = {}
  BY <1>2 DEF Priority
<1>3. CASE S # {}
  <2>1. S \in SUBSET Nat
    BY <1>1
  <2>2. PICK k \in S : \A j \in S : k <= j
    <3> HIDE DEF S
    <3> QED BY <1>3, <2>1, HasLeast
  <2>3. \A j \in 1..(k - 1) : j \notin S /\ j \in DOMAIN Candidates
    BY <1>1, <2>2
  <2>4. \E j \in DOMAIN Candidates :
            Candidates[j] = e /\ \A i \in 1..(j - 1) : Candidates[i] # e
    BY <2>2, <2>3
  <2> DEFINE c == CHOOSE j \in DOMAIN Candidates :
                 Candidates[j] = e /\ \A i \in 1..(j - 1) : Candidates[i] # e
  <2>5. c \in DOMAIN Candidates /\ Candidates[c] = e
    BY <2>4
  <2>6. Priority(e) = c - 1
    BY <2>2 DEF Priority
  <2> HIDE DEF c
  <2> QED BY <1>1, <2>5, <2>6
<1> QED BY <1>2, <1>3

LEMMA RulePriorityIs ==
    ASSUME NEW f, NEW h
    PROVE  /\ RulePriority(f, h) \in Int /\ RulePriority(f, h) >= -1
           /\ RulePriority(f, h) >= 0 =>
                  Candidates[RulePriority(f, h) + 1] = ValueIn(f, h, "executable").exe
<1> DEFINE v == ValueIn(f, h, "executable")
<1>1. RulePriority(f, h) = IF v.word = "quoted" THEN Priority(v.exe) ELSE -1
  BY DEF RulePriority
<1> HIDE DEF v
<1>2. CASE v.word = "quoted"
  <2> DEFINE e == v.exe
  <2>1. RulePriority(f, h) = Priority(e)
    BY <1>1, <1>2
  <2> HIDE DEF e
  <2>2. /\ Priority(e) \in Int /\ Priority(e) >= -1
        /\ Priority(e) >= 0 => Candidates[Priority(e) + 1] = e
    BY PriorityIs
  <2> QED BY <2>1, <2>2 DEF e, v
<1>3. CASE v.word # "quoted"
  BY <1>1, <1>3
<1> QED BY <1>2, <1>3

\* Nothing is wrong with what shows by line k.
NoFaultTo(f, k) ==
    /\ \A j \in 1..k : LineFault(f, j) = "none"
    /\ \A h \in Headers(f) : Closing(f, h) <= k => RuleFault(f, h) = "none"

\* The fault that is reported.
FirstIs(f, line, reason) ==
    /\ Faults(f) # {}
    /\ FirstFault(Faults(f))[3] = line /\ FirstFault(Faults(f))[4] = reason

LEMMA IsFirst ==
    ASSUME NEW F, NEW e \in F, e[1] \in Int, e[2] \in Int,
           \A x \in F : /\ x[1] \in Int /\ x[2] \in Int
                        /\ e[1] < x[1] \/ (e[1] = x[1] /\ e[2] <= x[2])
                        /\ x[1] = e[1] /\ x[2] = e[2] => x = e
    PROVE  FirstFault(F) = e
<1> DEFINE y == FirstFault(F)
<1>1. y \in F /\ \A x \in F : y[1] < x[1] \/ (y[1] = x[1] /\ y[2] <= x[2])
  BY DEF FirstFault
<1> HIDE DEF y
<1>2. y[1] = e[1] /\ y[2] = e[2]
  BY <1>1
<1> QED BY <1>1, <1>2 DEF y

LEMMA FaultIs ==
    ASSUME NEW f, NEW x
    PROVE  x \in Faults(f) <=>
             \/ \E k \in DOMAIN f : /\ LineFault(f, k) # "none"
                                    /\ x = <<k, 1, k, LineFault(f, k)>>
             \/ \E h \in Headers(f) : /\ RuleFault(f, h) # "none"
                                      /\ x = <<Closing(f, h), 0, h, RuleFault(f, h)>>
  BY DEF Faults

LEMMA LineFirst ==
    ASSUME NEW f, IsFile(f), NEW k \in 0..Len(f) - 1, NoFaultTo(f, k),
           LineFault(f, k + 1) # "none",
           \A h \in Headers(f) : Closing(f, h) = k + 1 => RuleFault(f, h) = "none"
    PROVE  FirstIs(f, k + 1, LineFault(f, k + 1))
<1> DEFINE e == <<k + 1, 1, k + 1, LineFault(f, k + 1)>>
<1>1. DOMAIN f = 1..Len(f) /\ Len(f) \in Nat /\ k + 1 \in DOMAIN f
  BY Positions
<1>2. e \in Faults(f)
  BY <1>1, FaultIs
<1>3. ASSUME NEW x \in Faults(f)
      PROVE  /\ x[1] \in Int /\ x[2] \in Int
             /\ e[1] < x[1] \/ (e[1] = x[1] /\ e[2] <= x[2])
             /\ x[1] = e[1] /\ x[2] = e[2] => x = e
  <2>1. CASE \E j \in DOMAIN f : /\ LineFault(f, j) # "none"
                                 /\ x = <<j, 1, j, LineFault(f, j)>>
    <3>1. PICK j \in DOMAIN f : /\ LineFault(f, j) # "none"
                                /\ x = <<j, 1, j, LineFault(f, j)>>
      BY <2>1
    <3>2. ~(j \in 1..k)
      BY <3>1 DEF NoFaultTo
    <3>3. k + 1 <= j /\ j \in Nat
      BY <1>1, <3>2
    <3> QED BY <3>1, <3>3
  <2>2. CASE \E h \in Headers(f) : /\ RuleFault(f, h) # "none"
                                   /\ x = <<Closing(f, h), 0, h, RuleFault(f, h)>>
    <3>1. PICK h \in Headers(f) : /\ RuleFault(f, h) # "none"
                                  /\ x = <<Closing(f, h), 0, h, RuleFault(f, h)>>
      BY <2>2
    <3>2. Closing(f, h) \in Nat
      BY ClosingIs, Positions
    <3>3. ~(Closing(f, h) <= k) /\ Closing(f, h) # k + 1
      BY <3>1 DEF NoFaultTo
    <3>4. k + 1 < Closing(f, h)
      BY <3>2, <3>3
    <3> QED BY <3>1, <3>2, <3>4
  <2> QED BY <2>1, <2>2, FaultIs
<1>4. e[1] \in Int /\ e[2] \in Int /\ e[3] = k + 1 /\ e[4] = LineFault(f, k + 1)
  OBVIOUS
<1> HIDE DEF e
<1>5. FirstFault(Faults(f)) = e
  BY <1>2, <1>3, <1>4, IsFirst
<1> QED BY <1>2, <1>4, <1>5 DEF FirstIs

LEMMA RuleFirst ==
    ASSUME NEW f, IsFile(f), NEW k \in 0..Len(f), NoFaultTo(f, k),
           NEW h \in Headers(f), Closing(f, h) = k + 1, RuleFault(f, h) # "none"
    PROVE  FirstIs(f, h, RuleFault(f, h))
<1> DEFINE e == <<k + 1, 0, h, RuleFault(f, h)>>
<1>1. DOMAIN f = 1..Len(f) /\ Len(f) \in Nat
  BY Positions
<1>2. e \in Faults(f)
  BY FaultIs
<1>3. ASSUME NEW x \in Faults(f)
      PROVE  /\ x[1] \in Int /\ x[2] \in Int
             /\ e[1] < x[1] \/ (e[1] = x[1] /\ e[2] <= x[2])
             /\ x[1] = e[1] /\ x[2] = e[2] => x = e
  <2>1. CASE \E j \in DOMAIN f : /\ LineFault(f, j) # "none"
                                 /\ x = <<j, 1, j, LineFault(f, j)>>
    <3>1. PICK j \in DOMAIN f : /\ LineFault(f, j) # "none"
                                /\ x = <<j, 1, j, LineFault(f, j)>>
      BY <2>1
    <3>2. ~(j \in 1..k)
      BY <3>1 DEF NoFaultTo
    <3>3. k + 1 <= j /\ j \in Nat
      BY <1>1, <3>2
    <3> QED BY <3>1, <3>3
  <2>2. CASE \E g \in Headers(f) : /\ RuleFault(f, g) # "none"
                                   /\ x = <<Closing(f, g), 0, g, RuleFault(f, g)>>
    <3>1. PICK g \in Headers(f) : /\ RuleFault(f, g) # "none"
                                  /\ x = <<Closing(f, g), 0, g, RuleFault(f, g)>>
      BY <2>2
    <3>2. Closing(f, g) \in Nat /\ g \in Closers(f) /\ h \in Closers(f)
      BY ClosingIs, Positions
    <3>3. ~(Closing(f, g) <= k)
      BY <3>1 DEF NoFaultTo
    <3>4. k + 1 <= Closing(f, g)
      BY <3>2, <3>3
    <3>5. Closing(f, g) = k + 1 => g = h
      BY <3>2, ClosedAt
    <3> QED BY <3>1, <3>2, <3>4, <3>5
  <2> QED BY <2>1, <2>2, FaultIs
<1>4. e[1] \in Int /\ e[2] \in Int /\ e[3] = h /\ e[4] = RuleFault(f, h)
  OBVIOUS
<1> HIDE DEF e
<1>5. FirstFault(Faults(f)) = e
  BY <1>2, <1>3, <1>4, IsFirst
<1> QED BY <1>2, <1>4, <1>5 DEF FirstIs
-----------------------------------------------------------------------------
(* What the parser knows after k lines without a fault.                    *)

\* The rule being read, or the one that is selected.
RuleKnown(f, k, h, r) ==
    /\ DOMAIN r = {"line", "section", "exe", "hasExe", "hasFps", "hasQuota",
                   "priority", "fps", "quota"}
    /\ r.line = h /\ r.section = f[h].name
    /\ r.hasExe \in BOOLEAN /\ r.hasFps \in BOOLEAN /\ r.hasQuota \in BOOLEAN
    /\ r.hasExe <=> Has(f, k, h, "executable")
    /\ r.hasFps <=> Has(f, k, h, "fps_limit")
    /\ r.hasQuota <=> Has(f, k, h, "thread_cpu_limit")
    /\ r.priority = IF r.hasExe THEN RulePriority(f, h) ELSE -1
    /\ r.hasFps => r.fps = FpsOf(ValueIn(f, h, "fps_limit"))
    /\ r.quota = IF r.hasQuota THEN QuotaOf(ValueIn(f, h, "thread_cpu_limit"))
                 ELSE 0

\* The rules that have ended.
Closed(f, k) == {h \in Headers(f) : Closing(f, h) <= k}

\* The best of them.
BestKnown(f, k, sel) ==
    \/ /\ sel.priority = -1
       /\ \A g \in Closed(f, k) : RulePriority(f, g) < 0
    \/ \E w \in Closed(f, k) :
         /\ RuleKnown(f, Len(f), w, sel)
         /\ RulePriority(f, w) >= 0 /\ sel.priority = RulePriority(f, w)
         /\ \A g \in Closed(f, k) :
              RulePriority(f, g) >= 0 => RulePriority(f, w) <= RulePriority(f, g)

Tally(f, k, s) ==
    /\ s.rules \in Nat /\ (s.rules > 0 <=> Closed(f, k) # {})
    /\ BestKnown(f, k, s.selected)

\* The settings before the first section.
Globals(f, k, s) ==
    /\ s.global \in BOOLEAN /\ s.globalOff \in BOOLEAN
    /\ s.hasHud \in BOOLEAN /\ s.hud \in BOOLEAN
    /\ s.global <=> Has(f, k, 0, "global_fps_limit")
    /\ s.globalOff <=> s.global /\ ValueIn(f, 0, "global_fps_limit") = Off
    /\ s.globalFps = IF s.global THEN FpsOf(ValueIn(f, 0, "global_fps_limit")) ELSE 0
    /\ s.hasHud <=> Has(f, k, 0, "hud")
    /\ s.hud <=> ~s.hasHud \/ ValueIn(f, 0, "hud") = On

\* The section being read.
RuleAtHand(f, k, s) ==
    /\ s.inRule \in BOOLEAN
    /\ s.inRule <=> Block(f, k) # 0
    /\ s.inRule => /\ Block(f, k) \in Headers(f)
                   /\ RuleKnown(f, k, Block(f, k), s.rule)

IsState(s) ==
    DOMAIN s = {"line", "error", "errorLine", "global", "globalOff", "globalFps",
                "hasHud", "hud", "inRule", "rule", "rules", "selected"}

Good(f, k, s) ==
    /\ IsState(s) /\ s.error = "none" /\ s.line = k + 1
    /\ Globals(f, k, s) /\ RuleAtHand(f, k, s) /\ Tally(f, k, s)

\* t is s with another tally.
Tallied(s, t) ==
    /\ IsState(t) /\ t.line = s.line /\ t.error = s.error
    /\ t.errorLine = s.errorLine /\ t.global = s.global
    /\ t.globalOff = s.globalOff /\ t.globalFps = s.globalFps
    /\ t.hasHud = s.hasHud /\ t.hud = s.hud
    /\ t.inRule = s.inRule /\ t.rule = s.rule

-----------------------------------------------------------------------------
\* A rule is known entirely when it ends.
LEMMA RuleEnds ==
    ASSUME NEW f, IsFile(f), NEW k \in 0..Len(f), NEW h \in Headers(f), NEW r,
           RuleKnown(f, k, h, r), Closing(f, h) = k + 1
    PROVE  /\ RuleKnown(f, Len(f), h, r)
           /\ r.hasExe /\ r.hasFps <=> Complete(f, h)
<1>1. h \in Closers(f) /\ Closing(f, h) <= k + 1
  BY Positions
<1>2. \A key : /\ Has(f, k, h, key) <=> Keyed(f, h, key) # {}
               /\ Has(f, k, h, key) <=> Has(f, Len(f), h, key)
  BY <1>1, HasAll
<1>3. RuleKnown(f, Len(f), h, r)
  BY <1>2 DEF RuleKnown
<1>4. r.hasExe /\ r.hasFps <=> Complete(f, h)
  BY <1>2 DEF RuleKnown, Complete
<1> QED BY <1>3, <1>4

\* The rules above a header that ends next are those that have ended.
LEMMA ClosedAbove ==
    ASSUME NEW f, IsFile(f), NEW k \in 0..Len(f), NEW h \in Headers(f),
           Closing(f, h) = k + 1
    PROVE  /\ \A g \in Headers(f) : g < h <=> g \in Closed(f, k)
           /\ Closed(f, k + 1) = Closed(f, k) \cup {h}
<1>1. h \in Closers(f) /\ h = Block(f, k) /\ k \in Nat /\ h \in Nat
  BY Positions, ClosedAt
<1>2. ASSUME NEW g \in Headers(f)
      PROVE  /\ g < h <=> Closing(f, g) <= k
             /\ Closing(f, g) <= k + 1 <=> Closing(f, g) <= k \/ g = h
  <2>1. /\ g \in Closers(f) /\ g \in Nat /\ Closing(f, g) \in Nat /\ g < Closing(f, g)
        /\ \A c \in Closers(f) : g < c => Closing(f, g) <= c
    BY Positions, ClosingIs
  <2>2. h <= k /\ \A c \in Closers(f) : c <= k => c <= h
    BY <1>1, BlockIs
  <2>3. Closing(f, g) = k + 1 <=> g = h
    <3>1. Closing(f, g) = k + 1 => g = h
      BY <1>1, <2>1, ClosedAt
    <3> QED BY <3>1
  <2>4. g < h => Closing(f, g) <= k
    BY <1>1, <2>1, <2>2
  <2>5. Closing(f, g) <= k => g < h
    BY <1>1, <2>1, <2>2, <2>3
  <2> QED BY <1>1, <2>1, <2>3, <2>4, <2>5
<1>3. \A g \in Headers(f) : g < h <=> g \in Closed(f, k)
  BY <1>2 DEF Closed
<1>4. Closed(f, k + 1) = Closed(f, k) \cup {h}
  BY <1>2 DEF Closed
<1> QED BY <1>3, <1>4

\* The selected rule has the best priority above the rule that ends.
LEMMA BestAboveIs ==
    ASSUME NEW f, IsFile(f), NEW k \in 0..Len(f), NEW h \in Headers(f),
           Closing(f, h) = k + 1, NoFaultTo(f, k), NEW sel, BestKnown(f, k, sel)
    PROVE  /\ BestAbove(f, h) = sel.priority
           /\ sel.priority \in Int /\ sel.priority >= -1
<1> DEFINE P(g) == RulePriority(f, g)
           S == {P(g) : g \in {x \in Headers(f) : x < h /\ Complete(f, x)}} \ {-1}
<1>1. \A g : P(g) \in Int /\ P(g) >= -1
  BY RulePriorityIs
<1>2. \A g \in Closed(f, k) : Complete(f, g)
  BY DEF Closed, NoFaultTo, RuleFault
<1>3. {x \in Headers(f) : x < h /\ Complete(f, x)} = Closed(f, k)
  <2>1. \A g \in Headers(f) : g < h <=> g \in Closed(f, k)
    BY ClosedAbove
  <2> QED BY <1>2, <2>1 DEF Closed
<1>4. S = {P(g) : g \in Closed(f, k)} \ {-1}
  BY <1>3
<1>5. BestAbove(f, h) = IF S = {} THEN -1 ELSE Least(S)
  BY DEF BestAbove
<1> HIDE DEF P, S
<1>6. S \in SUBSET Nat
  BY <1>1, <1>4
<1>7. CASE sel.priority = -1 /\ \A g \in Closed(f, k) : P(g) < 0
  <2>1. S = {}
    BY <1>1, <1>4, <1>7
  <2> QED BY <1>5, <1>7, <2>1
<1>8. CASE \E w \in Closed(f, k) :
             /\ P(w) >= 0 /\ sel.priority = P(w)
             /\ \A g \in Closed(f, k) : P(g) >= 0 => P(w) <= P(g)
  <2>1. PICK w \in Closed(f, k) :
             /\ P(w) >= 0 /\ sel.priority = P(w)
             /\ \A g \in Closed(f, k) : P(g) >= 0 => P(w) <= P(g)
    BY <1>8
  <2>2. P(w) \in S
    BY <1>1, <1>4, <2>1
  <2>3. \A n \in S : P(w) <= n
    BY <1>1, <1>4, <2>1
  <2>4. Least(S) = P(w)
    BY <1>6, <2>2, <2>3, LeastIs
  <2> QED BY <1>1, <1>5, <2>1, <2>2, <2>4
<1> QED BY <1>7, <1>8 DEF BestKnown, P

\* finish_rule finds the fault of the rule that ends, or counts it.
LEMMA Finish ==
    ASSUME NEW f, IsFile(f), NEW k \in 0..Len(f), NEW s, Good(f, k, s),
           NoFaultTo(f, k), Ends(f, k + 1), NEW t, t = finish_rule(s)
    PROVE  \/ t.error # "none" /\ FirstIs(f, t.errorLine, t.error)
           \/ /\ Tallied(s, t) /\ Tally(f, k + 1, t)
              /\ \A h \in Headers(f) : Closing(f, h) = k + 1 => RuleFault(f, h) = "none"
<1> DEFINE h == Block(f, k)
           r == s.rule
           sel == s.selected
<1>1. CASE ~s.inRule
  <2>1. t = s
    BY <1>1 DEF finish_rule
  <2>2. h = 0
    BY <1>1 DEF Good, RuleAtHand
  <2>3. \A g \in Headers(f) : Closing(f, g) # k + 1 /\ Closing(f, g) \in Nat
    <3>1. 0 \notin Closers(f)
      BY Positions
    <3> QED BY <2>2, <3>1, ClosedAt, ClosingIs, Positions
  <2>4. Closed(f, k + 1) = Closed(f, k)
    <3>1. k \in Nat
      BY Positions
    <3> QED BY <2>3, <3>1 DEF Closed
  <2>5. Tally(f, k + 1, t)
    BY <2>1, <2>4 DEF Good, Tally, BestKnown
  <2>6. Tallied(s, t)
    BY <2>1 DEF Tallied, Good
  <2> QED BY <2>3, <2>5, <2>6
<1>2. CASE s.inRule
  <2>1. h \in Headers(f) /\ RuleKnown(f, k, h, r)
    BY <1>2 DEF Good, RuleAtHand
  <2>2. h \in Closers(f) /\ Closing(f, h) = k + 1
    BY <2>1, ClosedAt, Positions
  <2>3. \A g \in Headers(f) : Closing(f, g) = k + 1 => g = h
    BY ClosedAt, Positions
  <2>4. RuleKnown(f, Len(f), h, r) /\ (r.hasExe /\ r.hasFps <=> Complete(f, h))
    BY <2>1, <2>2, RuleEnds
  <2>5. Closed(f, k + 1) = Closed(f, k) \cup {h}
    BY <2>1, <2>2, ClosedAbove
  <2>6. BestKnown(f, k, sel)
    BY DEF Good, Tally
  <2>7. BestAbove(f, h) = sel.priority /\ sel.priority \in Int /\ sel.priority >= -1
    BY <2>1, <2>2, <2>6, BestAboveIs
  <2> DEFINE p == RulePriority(f, h)
  <2>8. p \in Int /\ p >= -1
    BY RulePriorityIs
  <2>9. IsState(s) /\ s.rules \in Nat /\ s.error = "none"
    BY DEF Good, Tally
  <2>10. r.line = h
    BY <2>1 DEF RuleKnown
  <2>11. CASE ~Complete(f, h)
    <3>1. t = Fail(s, "incomplete_rule", h)
      BY <1>2, <2>4, <2>10, <2>11 DEF finish_rule
    <3>2. t.error = "incomplete_rule" /\ t.errorLine = h
      BY <2>9, <3>1 DEF Fail, IsState
    <3>3. RuleFault(f, h) = "incomplete_rule"
      BY <2>11 DEF RuleFault
    <3> QED BY <2>1, <2>2, <3>2, <3>3, RuleFirst
  <2>12. CASE Complete(f, h)
    <3>1. r.priority = p
      BY <2>1, <2>4, <2>12 DEF RuleKnown
    <3> DEFINE u == [s EXCEPT !.rules = @ + 1]
    <3>2. t = IF p < 0 THEN u
              ELSE IF p = sel.priority
              THEN Fail(u, "duplicate_matching_rule", h)
              ELSE IF sel.priority < 0 \/ p < sel.priority
              THEN [u EXCEPT !.selected = r] ELSE u
      BY <1>2, <2>4, <2>10, <2>12, <3>1 DEF finish_rule
    <3>3. /\ IsState(u) /\ u.rules = s.rules + 1 /\ u.selected = sel
          /\ Tallied(s, u)
      BY <2>9 DEF IsState, Tallied
    <3> HIDE DEF u
    <3>4. CASE p >= 0 /\ p = sel.priority
      <4>1. t = Fail(u, "duplicate_matching_rule", h)
        BY <2>8, <3>2, <3>4
      <4>2. t.error = "duplicate_matching_rule" /\ t.errorLine = h
        BY <3>3, <4>1 DEF Fail, IsState
      <4>3. RuleFault(f, h) = "duplicate_matching_rule"
        BY <2>7, <2>12, <3>4 DEF RuleFault
      <4> QED BY <2>1, <2>2, <4>2, <4>3, RuleFirst
    <3>5. CASE ~(p >= 0 /\ p = sel.priority)
      <4>1. RuleFault(f, h) = "none"
        BY <2>7, <2>12, <3>5 DEF RuleFault
      <4>2. t = IF p >= 0 /\ (sel.priority < 0 \/ p < sel.priority)
                THEN [u EXCEPT !.selected = r] ELSE u
        BY <2>7, <2>8, <3>2, <3>5
      <4>3. /\ Tallied(s, t) /\ t.rules = s.rules + 1
            /\ t.selected = IF p >= 0 /\ (sel.priority < 0 \/ p < sel.priority)
                            THEN r ELSE sel
        BY <3>3, <4>2 DEF IsState, Tallied
      <4>4. BestKnown(f, k + 1, t.selected)
        <5> HIDE DEF p, sel, r
        <5>0. \A g : RulePriority(f, g) \in Int /\ RulePriority(f, g) >= -1
          BY RulePriorityIs
        <5>1. CASE p >= 0 /\ (sel.priority < 0 \/ p < sel.priority)
          <6>1. \A g \in Closed(f, k) : RulePriority(f, g) >= 0 => p <= RulePriority(f, g)
            BY <2>6, <2>7, <2>8, <5>0, <5>1 DEF BestKnown
          <6>2. h \in Closed(f, k + 1) /\ t.selected = r /\ r.priority = p
            BY <2>5, <3>1, <4>3, <5>1
          <6>3. \A g \in Closed(f, k + 1) :
                    RulePriority(f, g) >= 0 => p <= RulePriority(f, g)
            BY <2>5, <2>8, <6>1 DEF p
          <6> QED BY <2>4, <2>8, <5>1, <6>2, <6>3 DEF BestKnown, p
        <5>2. CASE ~(p >= 0 /\ (sel.priority < 0 \/ p < sel.priority))
          <6>1. t.selected = sel
            BY <4>3, <5>2
          <6>2. CASE sel.priority < 0
            <7>1. \A g \in Closed(f, k) : RulePriority(f, g) < 0
              BY <2>6, <5>0, <6>2 DEF BestKnown
            <7>2. p < 0 /\ sel.priority = -1
              BY <2>7, <2>8, <5>2, <6>2
            <7> QED BY <2>5, <6>1, <7>1, <7>2 DEF BestKnown, p
          <6>3. CASE ~(sel.priority < 0)
            <7>1. PICK w \in Closed(f, k) :
                    /\ RuleKnown(f, Len(f), w, sel)
                    /\ RulePriority(f, w) >= 0 /\ sel.priority = RulePriority(f, w)
                    /\ \A g \in Closed(f, k) : RulePriority(f, g) >= 0
                           => RulePriority(f, w) <= RulePriority(f, g)
              BY <2>6, <6>3 DEF BestKnown
            <7>2. p >= 0 => RulePriority(f, w) <= p
              BY <2>7, <2>8, <5>2, <7>1
            <7>3. w \in Closed(f, k + 1)
              BY <2>5
            <7>4. \A g \in Closed(f, k + 1) : RulePriority(f, g) >= 0
                           => RulePriority(f, w) <= RulePriority(f, g)
              BY <2>5, <7>1, <7>2 DEF p
            <7> QED BY <6>1, <7>1, <7>3, <7>4 DEF BestKnown
          <6> QED BY <6>2, <6>3
        <5> QED BY <5>1, <5>2
      <4>5. Closed(f, k + 1) # {} /\ t.rules > 0 /\ t.rules \in Nat
        <5>1. Closed(f, k + 1) # {}
          BY <2>5
        <5>2. t.rules = s.rules + 1
          BY <4>3
        <5>3. \A n \in Nat : n + 1 > 0 /\ n + 1 \in Nat
          OBVIOUS
        <5> QED BY <2>9, <5>1, <5>2, <5>3
      <4> QED BY <2>3, <4>1, <4>3, <4>4, <4>5 DEF Tally
    <3> QED BY <3>4, <3>5
  <2> QED BY <2>11, <2>12
<1>3. s.inRule \in BOOLEAN
  BY DEF Good, RuleAtHand
<1> QED BY <1>1, <1>2, <1>3
-----------------------------------------------------------------------------
(* One line.                                                               *)

\* The bytes were scanned before: the lines are of the other five kinds.
Scanned(f) == IsFile(f) /\ \A k \in DOMAIN f : f[k] # BadByte

LEMMA Kinds ==
    ASSUME NEW f, Scanned(f), NEW k \in 0..Len(f) - 1
    PROVE  /\ k + 1 \in DOMAIN f /\ k + 1 \in 1..Len(f) /\ k \in 0..Len(f)
           /\ f[k + 1].kind \in {"skip", "section", "badsection", "noequals", "entry"}
           /\ k + 1 \in Closers(f) <=> f[k + 1].kind \in {"section", "badsection"}
           /\ k + 1 \in Headers(f) <=> f[k + 1].kind = "section"
<1>1. k + 1 \in DOMAIN f /\ k + 1 \in 1..Len(f) /\ k \in 0..Len(f)
  BY DEF Scanned, IsFile
<1>2. f[k + 1].kind \in {"skip", "section", "badsection", "noequals", "entry"}
  BY <1>1 DEF Scanned, IsFile, IsLine
<1> QED BY <1>1, <1>2 DEF Closers, Headers

\* A line within a section ends no rule.
LEMMA Within ==
    ASSUME NEW f, IsFile(f), NEW k \in 0..Len(f) - 1, k + 1 \notin Closers(f)
    PROVE  /\ Block(f, k + 1) = Block(f, k)
           /\ Closed(f, k + 1) = Closed(f, k)
           /\ \A h \in Headers(f) : Closing(f, h) # k + 1
<1>1. Len(f) \in Nat /\ k \in 0..Len(f) /\ k \in Nat
  BY Positions
<1>2. ~Ends(f, k + 1)
  BY <1>1 DEF Ends
<1>3. \A h \in Headers(f) : Closing(f, h) # k + 1 /\ Closing(f, h) \in Nat
  BY <1>1, <1>2, ClosedAt, ClosingIs, Positions
<1>4. Closed(f, k + 1) = Closed(f, k)
  BY <1>1, <1>3 DEF Closed
<1> QED BY <1>3, <1>4, BlockNext

LEMMA NoFaultNext ==
    ASSUME NEW f, IsFile(f), NEW k \in 0..Len(f) - 1, NoFaultTo(f, k),
           LineFault(f, k + 1) = "none",
           \A h \in Headers(f) : Closing(f, h) = k + 1 => RuleFault(f, h) = "none"
    PROVE  NoFaultTo(f, k + 1)
<1>1. k \in Nat /\ \A j \in 1..(k + 1) : j \in 1..k \/ j = k + 1
  BY Positions
<1>2. \A h \in Headers(f) : Closing(f, h) \in Nat
  BY ClosingIs, Positions
<1>3. \A h \in Headers(f) : Closing(f, h) <= k + 1 =>
          Closing(f, h) <= k \/ Closing(f, h) = k + 1
  BY <1>1, <1>2
<1> QED BY <1>1, <1>3 DEF NoFaultTo

\* A key that the line does not set is as it was.
Untouched(f, k, h, key) == Has(f, k + 1, h, key) <=> Has(f, k, h, key)

LEMMA GlobalsStay ==
    ASSUME NEW f, NEW k, NEW s, NEW u, Globals(f, k, s),
           Untouched(f, k, 0, "global_fps_limit"), Untouched(f, k, 0, "hud"),
           u.global = s.global, u.globalOff = s.globalOff,
           u.globalFps = s.globalFps, u.hasHud = s.hasHud, u.hud = s.hud
    PROVE  Globals(f, k + 1, u)
  BY DEF Globals, Untouched

LEMMA RuleStays ==
    ASSUME NEW f, NEW k, NEW h, NEW r, RuleKnown(f, k, h, r),
           Untouched(f, k, h, "executable"), Untouched(f, k, h, "fps_limit"),
           Untouched(f, k, h, "thread_cpu_limit")
    PROVE  RuleKnown(f, k + 1, h, r)
  BY DEF RuleKnown, Untouched

LEMMA TallyStays ==
    ASSUME NEW f, IsFile(f), NEW k \in 0..Len(f) - 1, k + 1 \notin Closers(f),
           NEW s, NEW u, Tally(f, k, s),
           u.rules = s.rules, u.selected = s.selected
    PROVE  Tally(f, k + 1, u)
<1>1. Closed(f, k + 1) = Closed(f, k)
  BY Within
<1> QED BY <1>1 DEF Tally, BestKnown

\* The line is counted.
NextLine(t) == [t EXCEPT !.line = @ + 1]

LEMMA SkipStep ==
    ASSUME NEW f, Scanned(f), NEW k \in 0..Len(f) - 1, NEW s, Good(f, k, s),
           f[k + 1].kind = "skip"
    PROVE  Good(f, k + 1, NextLine(s))
<1> DEFINE u == NextLine(s)
<1>1. IsFile(f) /\ k + 1 \notin Closers(f)
  BY Kinds DEF Scanned
<1>2. \A h, key : Untouched(f, k, h, key)
  BY <1>1, HasNext DEF Untouched
<1>3. /\ IsState(u) /\ u.error = "none" /\ u.line = (k + 1) + 1
      /\ u.global = s.global /\ u.globalOff = s.globalOff
      /\ u.globalFps = s.globalFps /\ u.hasHud = s.hasHud /\ u.hud = s.hud
      /\ u.inRule = s.inRule /\ u.rule = s.rule
      /\ u.rules = s.rules /\ u.selected = s.selected
  BY DEF Good, IsState, NextLine
<1> HIDE DEF u
<1>4. Globals(f, k + 1, u)
  BY <1>2, <1>3, GlobalsStay DEF Good
<1>5. Tally(f, k + 1, u)
  BY <1>1, <1>3, TallyStays DEF Good
<1>6. RuleAtHand(f, k + 1, u)
  <2>1. Block(f, k + 1) = Block(f, k)
    BY <1>1, Within
  <2> QED BY <1>2, <1>3, <2>1, RuleStays DEF Good, RuleAtHand
<1> QED BY <1>3, <1>4, <1>5, <1>6 DEF Good, u

\* A header ends a rule and begins one.
LEMMA SectionStep ==
    ASSUME NEW f, Scanned(f), NEW k \in 0..Len(f) - 1, NEW s, Good(f, k, s),
           NoFaultTo(f, k), f[k + 1].kind \in {"section", "badsection"},
           NEW t, t = parse_section(s, f[k + 1])
    PROVE  \/ t.error # "none" /\ FirstIs(f, t.errorLine, t.error)
           \/ /\ t.error = "none" /\ Good(f, k + 1, NextLine(t))
              /\ NoFaultTo(f, k + 1)
<1> DEFINE done == finish_rule(s)
           l == f[k + 1]
<1>1. IsFile(f) /\ k + 1 \in Closers(f) /\ Ends(f, k + 1) /\ k \in 0..Len(f)
  BY Kinds DEF Scanned, Ends
<1>2. \/ done.error # "none" /\ FirstIs(f, done.errorLine, done.error)
      \/ /\ Tallied(s, done) /\ Tally(f, k + 1, done)
         /\ \A h \in Headers(f) : Closing(f, h) = k + 1 => RuleFault(f, h) = "none"
  BY <1>1, Finish
<1>3. t = IF done.error # "none" THEN done
          ELSE IF l.kind = "badsection"
          THEN Fail(done, "invalid_section", s.line)
          ELSE [done EXCEPT !.inRule = TRUE,
                            !.rule = [NoRule EXCEPT !.line = s.line,
                                                    !.section = l.name]]
  BY DEF parse_section
<1>4. s.line = k + 1 /\ s.error = "none"
  BY DEF Good
<1> HIDE DEF done
<1>5. CASE done.error # "none"
  BY <1>2, <1>3, <1>4, <1>5 DEF Tallied
<1>6. CASE done.error = "none" /\ l.kind = "badsection"
  <2>1. /\ Tallied(s, done)
        /\ \A h \in Headers(f) : Closing(f, h) = k + 1 => RuleFault(f, h) = "none"
    BY <1>2, <1>6
  <2>2. LineFault(f, k + 1) = "invalid_section"
    BY <1>6 DEF LineFault
  <2>3. t = Fail(done, "invalid_section", k + 1)
    BY <1>3, <1>4, <1>6
  <2>4. t.error = "invalid_section" /\ t.errorLine = k + 1
    BY <2>1, <2>3 DEF Tallied, IsState, Fail
  <2> QED BY <1>1, <2>1, <2>2, <2>4, LineFirst
<1>7. CASE done.error = "none" /\ l.kind = "section"
  <2>1. /\ Tallied(s, done) /\ Tally(f, k + 1, done)
        /\ \A h \in Headers(f) : Closing(f, h) = k + 1 => RuleFault(f, h) = "none"
    BY <1>2, <1>7
  <2>2. LineFault(f, k + 1) = "none"
    BY <1>7 DEF LineFault
  <2> DEFINE q == [NoRule EXCEPT !.line = k + 1, !.section = l.name]
             u == NextLine(t)
  <2>3. t = [done EXCEPT !.inRule = TRUE, !.rule = q]
    BY <1>3, <1>4, <1>7
  <2> HIDE DEF q
  <2>4. /\ IsState(t) /\ t.line = k + 1 /\ t.error = "none"
        /\ t.global = s.global /\ t.globalOff = s.globalOff
        /\ t.globalFps = s.globalFps /\ t.hasHud = s.hasHud /\ t.hud = s.hud
        /\ t.inRule = TRUE /\ t.rule = q
        /\ t.rules = done.rules /\ t.selected = done.selected
    BY <1>4, <2>1, <2>3 DEF Tallied, IsState
  <2>5. /\ IsState(u) /\ u.error = "none" /\ u.line = (k + 1) + 1
        /\ u.global = s.global /\ u.globalOff = s.globalOff
        /\ u.globalFps = s.globalFps /\ u.hasHud = s.hasHud /\ u.hud = s.hud
        /\ u.inRule = TRUE /\ u.rule = q
        /\ u.rules = done.rules /\ u.selected = done.selected
    BY <2>4 DEF IsState, NextLine
  <2> HIDE DEF u
  <2>6. \A h, key : Untouched(f, k, h, key)
    BY <1>1, <1>7, HasNext DEF Untouched
  <2>7. Globals(f, k + 1, u)
    BY <2>5, <2>6, GlobalsStay DEF Good
  <2>8. Tally(f, k + 1, u)
    BY <2>1, <2>5 DEF Tally
  <2>9. RuleAtHand(f, k + 1, u)
    <3>1. Block(f, k + 1) = k + 1 /\ k + 1 \in Headers(f) /\ k + 1 # 0
      BY <1>1, <1>7, BlockNext, Kinds
    <3>2. \A key : ~Has(f, k + 1, k + 1, key)
      BY <1>1, HasNoneYet
    <3>3. RuleKnown(f, k + 1, k + 1, q)
      BY <3>2 DEF RuleKnown, q, NoRule
    <3> QED BY <2>5, <3>1, <3>3 DEF RuleAtHand
  <2>10. Good(f, k + 1, u)
    BY <2>5, <2>7, <2>8, <2>9 DEF Good
  <2> QED BY <1>1, <2>1, <2>2, <2>4, <2>10, NoFaultNext DEF u
<1> QED BY <1>5, <1>6, <1>7
-----------------------------------------------------------------------------
(* One entry.                                                              *)

\* What an entry stores.
Stored(s, key, v) ==
    IF key = "global_fps_limit"
    THEN [s EXCEPT !.global = TRUE, !.globalOff = (v = Off), !.globalFps = FpsOf(v)]
    ELSE IF key = "hud"
    THEN [s EXCEPT !.hasHud = TRUE, !.hud = (v = On)]
    ELSE IF key = "fps_limit"
    THEN [s EXCEPT !.rule.hasFps = TRUE, !.rule.fps = FpsOf(v)]
    ELSE IF key = "executable"
    THEN [s EXCEPT !.rule.hasExe = TRUE, !.rule.exe = v.exe,
                   !.rule.priority = Priority(v.exe)]
    ELSE [s EXCEPT !.rule.hasQuota = TRUE, !.rule.quota = QuotaOf(v)]

LEMMA EntryFault ==
    ASSUME NEW f, IsFile(f), NEW k \in 0..Len(f) - 1, f[k + 1].kind = "entry",
           NEW key, key = f[k + 1].key, NEW v, v = f[k + 1].value,
           NEW b, b = Block(f, k)
    PROVE  /\ Block(f, k + 1) = b
           /\ k + 1 \in Keyed(f, b, key)
           /\ LineFault(f, k + 1) =
                IF key \notin KnownKeys(b) THEN "unknown_key"
                ELSE IF Has(f, k, b, key) THEN "duplicate_key"
                ELSE IF Usable(key, v) THEN "none"
                ELSE IF key = "executable" THEN "invalid_executable"
                ELSE "invalid_value"
<1>1. k + 1 \in 1..Len(f) /\ k \in Nat
  BY Positions
<1>2. k + 1 \notin Closers(f)
  BY DEF Closers
<1>3. Block(f, k + 1) = b
  BY <1>2, Within
<1>4. k + 1 \in Keyed(f, b, key)
  BY <1>1, <1>3, Positions
<1>5. (\E j \in Keyed(f, b, key) : j < k + 1) <=> Has(f, k, b, key)
  <2>1. \A j \in Keyed(f, b, key) : j \in Nat
    BY Positions
  <2> QED BY <1>1, <2>1 DEF Has
<1>6. LineFault(f, k + 1) =
        IF key \notin KnownKeys(b) THEN "unknown_key"
        ELSE IF \E j \in Keyed(f, b, key) : j < k + 1 THEN "duplicate_key"
        ELSE IF Usable(key, v) THEN "none"
        ELSE IF key = "executable" THEN "invalid_executable"
        ELSE "invalid_value"
  <2> HIDE DEF KnownKeys, Keyed, Usable
  <2> QED BY <1>3 DEF LineFault
<1> QED BY <1>3, <1>4, <1>5, <1>6

\* An entry is stored, or its fault is found.
LEMMA EntryIs ==
    ASSUME NEW f, IsFile(f), NEW k \in 0..Len(f) - 1, f[k + 1].kind = "entry",
           NEW s, Good(f, k, s),
           NEW key, key = f[k + 1].key, NEW v, v = f[k + 1].value
    PROVE  parse_entry(s, key, v) =
             IF LineFault(f, k + 1) = "none" THEN Stored(s, key, v)
             ELSE Fail(s, LineFault(f, k + 1), s.line)
<1> DEFINE b == Block(f, k)
           e == LineFault(f, k + 1)
<1>1. e = IF key \notin KnownKeys(b) THEN "unknown_key"
          ELSE IF Has(f, k, b, key) THEN "duplicate_key"
          ELSE IF Usable(key, v) THEN "none"
          ELSE IF key = "executable" THEN "invalid_executable"
          ELSE "invalid_value"
  BY EntryFault
<1>2. s.inRule \in BOOLEAN /\ (s.inRule <=> b # 0)
  BY DEF Good, RuleAtHand
<1>3. CASE ~s.inRule
  <2>1. b = 0 /\ KnownKeys(b) = {"global_fps_limit", "hud"}
    BY <1>2, <1>3 DEF KnownKeys
  <2>2. /\ s.global <=> Has(f, k, b, "global_fps_limit")
        /\ s.hasHud <=> Has(f, k, b, "hud")
        /\ s.global \in BOOLEAN /\ s.hasHud \in BOOLEAN
    BY <2>1 DEF Good, Globals
  <2>3. CASE key = "global_fps_limit"
    <3>1. Usable(key, v) <=> FpsOk(v)
      BY <2>3 DEF Usable
    <3>2. parse_entry(s, key, v) =
            IF s.global THEN Fail(s, "duplicate_key", s.line)
            ELSE IF ~FpsOk(v) THEN Fail(s, "invalid_value", s.line)
            ELSE Stored(s, key, v)
      BY <1>3, <2>3 DEF parse_entry, Stored
    <3> QED BY <1>1, <2>1, <2>2, <2>3, <3>1, <3>2
  <2>4. CASE key = "hud"
    <3>1. Usable(key, v) <=> v \in {On, Off}
      BY <2>4 DEF Usable
    <3>2. parse_entry(s, key, v) =
            IF s.hasHud THEN Fail(s, "duplicate_key", s.line)
            ELSE IF v \notin {On, Off} THEN Fail(s, "invalid_value", s.line)
            ELSE Stored(s, key, v)
      BY <1>3, <2>4 DEF parse_entry, Stored
    <3> QED BY <1>1, <2>1, <2>2, <2>4, <3>1, <3>2
  <2>5. CASE key # "global_fps_limit" /\ key # "hud"
    <3>1. parse_entry(s, key, v) = Fail(s, "unknown_key", s.line)
      BY <1>3, <2>5 DEF parse_entry
    <3> QED BY <1>1, <2>1, <2>5, <3>1
  <2> QED BY <2>3, <2>4, <2>5
<1>4. CASE s.inRule
  <2>1. KnownKeys(b) = {"executable", "fps_limit", "thread_cpu_limit"}
    BY <1>2, <1>4 DEF KnownKeys
  <2> DEFINE r == s.rule
  <2>2. /\ r.hasExe <=> Has(f, k, b, "executable")
        /\ r.hasFps <=> Has(f, k, b, "fps_limit")
        /\ r.hasQuota <=> Has(f, k, b, "thread_cpu_limit")
    BY <1>4 DEF Good, RuleAtHand, RuleKnown
  <2>3. CASE key = "fps_limit"
    <3>1. Usable(key, v) <=> FpsOk(v)
      BY <2>3 DEF Usable
    <3>2. parse_entry(s, key, v) =
            IF r.hasFps THEN Fail(s, "duplicate_key", s.line)
            ELSE IF ~FpsOk(v) THEN Fail(s, "invalid_value", s.line)
            ELSE Stored(s, key, v)
      BY <1>4, <2>3 DEF parse_entry, Stored
    <3> QED BY <1>1, <2>1, <2>2, <2>3, <3>1, <3>2
  <2>4. CASE key = "executable"
    <3>1. Usable(key, v) <=> v.word = "quoted"
      BY <2>4 DEF Usable
    <3>2. parse_entry(s, key, v) =
            IF r.hasExe THEN Fail(s, "duplicate_key", s.line)
            ELSE IF v.word # "quoted" THEN Fail(s, "invalid_executable", s.line)
            ELSE Stored(s, key, v)
      BY <1>4, <2>4 DEF parse_entry, Stored
    <3> QED BY <1>1, <2>1, <2>2, <2>4, <3>1, <3>2
  <2>5. CASE key = "thread_cpu_limit"
    <3>1. Usable(key, v) <=> QuotaOk(v)
      BY <2>5 DEF Usable
    <3>2. parse_entry(s, key, v) =
            IF r.hasQuota THEN Fail(s, "duplicate_key", s.line)
            ELSE IF ~QuotaOk(v) THEN Fail(s, "invalid_value", s.line)
            ELSE Stored(s, key, v)
      BY <1>4, <2>5 DEF parse_entry, Stored
    <3> QED BY <1>1, <2>1, <2>2, <2>5, <3>1, <3>2
  <2>6. CASE key \notin {"executable", "fps_limit", "thread_cpu_limit"}
    <3>1. parse_entry(s, key, v) = Fail(s, "unknown_key", s.line)
      BY <1>4, <2>6 DEF parse_entry
    <3> QED BY <1>1, <2>1, <2>6, <3>1
  <2> QED BY <2>3, <2>4, <2>5, <2>6
<1> QED BY <1>2, <1>3, <1>4
-----------------------------------------------------------------------------
\* The parser knows more after an entry that is stored.
LEMMA EntryStep ==
    ASSUME NEW f, Scanned(f), NEW k \in 0..Len(f) - 1, f[k + 1].kind = "entry",
           NEW s, Good(f, k, s), LineFault(f, k + 1) = "none"
    PROVE  /\ Stored(s, f[k + 1].key, f[k + 1].value).error = "none"
           /\ Good(f, k + 1, NextLine(Stored(s, f[k + 1].key, f[k + 1].value)))
<1> DEFINE key == f[k + 1].key
           v == f[k + 1].value
           b == Block(f, k)
           t == Stored(s, key, v)
           u == NextLine(t)
           r == s.rule
<1>1. IsFile(f) /\ k + 1 \notin Closers(f)
  BY Kinds DEF Scanned
<1>2. /\ Block(f, k + 1) = b /\ k + 1 \in Keyed(f, b, key)
      /\ key \in KnownKeys(b) /\ ~Has(f, k, b, key) /\ Usable(key, v)
  BY <1>1, EntryFault
<1>3. ValueIn(f, b, key) = v /\ Has(f, k + 1, b, key)
  <2>1. k + 1 <= k + 1
    BY Positions, <1>1
  <2> QED BY <1>1, <1>2, <2>1, FirstValue DEF Has
<1>4. \A h, x : h # b \/ x # key => Untouched(f, k, h, x)
  BY <1>1, <1>2, HasNext DEF Untouched
<1>5. IsState(s) /\ s.error = "none" /\ s.line = k + 1
  BY DEF Good
<1>6. /\ Globals(f, k, s) /\ RuleAtHand(f, k, s) /\ Tally(f, k, s)
      /\ s.inRule \in BOOLEAN /\ (s.inRule <=> b # 0)
  BY DEF Good, RuleAtHand
<1>7. /\ \A z : LET y == [s EXCEPT !.rule = z] IN
           /\ IsState(y) /\ y.line = s.line /\ y.error = s.error
           /\ y.global = s.global /\ y.globalOff = s.globalOff
           /\ y.globalFps = s.globalFps /\ y.hasHud = s.hasHud /\ y.hud = s.hud
           /\ y.inRule = s.inRule /\ y.rule = z
           /\ y.rules = s.rules /\ y.selected = s.selected
  BY <1>5 DEF IsState
<1>8. ASSUME IsState(t)
      PROVE  /\ IsState(u) /\ u.line = t.line + 1 /\ u.error = t.error
             /\ u.global = t.global /\ u.globalOff = t.globalOff
             /\ u.globalFps = t.globalFps /\ u.hasHud = t.hasHud /\ u.hud = t.hud
             /\ u.inRule = t.inRule /\ u.rule = t.rule
             /\ u.rules = t.rules /\ u.selected = t.selected
  <2> HIDE DEF t
  <2> QED BY <1>8 DEF IsState, NextLine
<1>9. CASE key \in {"global_fps_limit", "hud"}
  <2>1. b = 0 /\ s.inRule = FALSE
    BY <1>2, <1>6, <1>9 DEF KnownKeys
  <2>2. CASE key = "global_fps_limit"
    <3>1. t = [s EXCEPT !.global = TRUE, !.globalOff = (v = Off), !.globalFps = FpsOf(v)]
      BY <2>2 DEF Stored
    <3>2. /\ IsState(t) /\ t.line = s.line /\ t.error = s.error
          /\ t.global = TRUE /\ t.globalOff = (v = Off)
          /\ t.globalFps = FpsOf(v) /\ t.hasHud = s.hasHud /\ t.hud = s.hud
          /\ t.inRule = s.inRule /\ t.rule = s.rule
          /\ t.rules = s.rules /\ t.selected = s.selected
      <4> HIDE DEF t, v
      <4> QED BY <1>5, <3>1 DEF IsState
    <3> HIDE DEF t, u
    <3>3. /\ IsState(u) /\ u.line = (k + 1) + 1 /\ u.error = "none"
          /\ u.global = TRUE /\ u.globalOff = (v = Off)
          /\ u.globalFps = FpsOf(v) /\ u.hasHud = s.hasHud /\ u.hud = s.hud
          /\ u.inRule = FALSE /\ u.rules = s.rules /\ u.selected = s.selected
      BY <1>5, <1>8, <2>1, <3>2
    <3>4. Globals(f, k + 1, u)
      <4>1. Untouched(f, k, 0, "hud")
        BY <1>4, <2>2
      <4>2. ValueIn(f, 0, "global_fps_limit") = v /\ Has(f, k + 1, 0, "global_fps_limit")
        BY <1>3, <2>1, <2>2
      <4> HIDE DEF v
      <4> QED BY <1>6, <3>3, <4>1, <4>2 DEF Globals, Untouched
    <3>5. Tally(f, k + 1, u)
      BY <1>1, <1>6, <3>3, TallyStays
    <3>6. RuleAtHand(f, k + 1, u)
      BY <1>2, <2>1, <3>3 DEF RuleAtHand
    <3> QED BY <1>5, <3>2, <3>3, <3>4, <3>5, <3>6 DEF Good, t, u
  <2>3. CASE key = "hud"
    <3>1. t = [s EXCEPT !.hasHud = TRUE, !.hud = (v = On)]
      BY <2>3 DEF Stored
    <3>2. /\ IsState(t) /\ t.line = s.line /\ t.error = s.error
          /\ t.global = s.global /\ t.globalOff = s.globalOff
          /\ t.globalFps = s.globalFps /\ t.hasHud = TRUE /\ t.hud = (v = On)
          /\ t.inRule = s.inRule /\ t.rule = s.rule
          /\ t.rules = s.rules /\ t.selected = s.selected
      <4> HIDE DEF t, v
      <4> QED BY <1>5, <3>1 DEF IsState
    <3> HIDE DEF t, u
    <3>3. /\ IsState(u) /\ u.line = (k + 1) + 1 /\ u.error = "none"
          /\ u.global = s.global /\ u.globalOff = s.globalOff
          /\ u.globalFps = s.globalFps /\ u.hasHud = TRUE /\ u.hud = (v = On)
          /\ u.inRule = FALSE /\ u.rules = s.rules /\ u.selected = s.selected
      BY <1>5, <1>8, <2>1, <3>2
    <3>4. Globals(f, k + 1, u)
      <4>1. Untouched(f, k, 0, "global_fps_limit")
        BY <1>4, <2>3
      <4>2. ValueIn(f, 0, "hud") = v /\ Has(f, k + 1, 0, "hud")
        BY <1>3, <2>1, <2>3
      <4> HIDE DEF v
      <4> QED BY <1>6, <3>3, <4>1, <4>2 DEF Globals, Untouched
    <3>5. Tally(f, k + 1, u)
      BY <1>1, <1>6, <3>3, TallyStays
    <3>6. RuleAtHand(f, k + 1, u)
      BY <1>2, <2>1, <3>3 DEF RuleAtHand
    <3> QED BY <1>5, <3>2, <3>3, <3>4, <3>5, <3>6 DEF Good, t, u
  <2> QED BY <1>9, <2>2, <2>3
<1>10. CASE key \notin {"global_fps_limit", "hud"}
  <2>1. /\ b # 0 /\ s.inRule = TRUE
        /\ key \in {"executable", "fps_limit", "thread_cpu_limit"}
    BY <1>2, <1>6, <1>10 DEF KnownKeys
  <2>2. b \in Headers(f) /\ RuleKnown(f, k, b, r)
    BY <1>6, <2>1 DEF RuleAtHand
  <2>3. ASSUME NEW q, t = [s EXCEPT !.rule = q], RuleKnown(f, k + 1, b, q)
        PROVE  t.error = "none" /\ Good(f, k + 1, u)
    <3>1. /\ IsState(t) /\ t.line = s.line /\ t.error = s.error
          /\ t.global = s.global /\ t.globalOff = s.globalOff
          /\ t.globalFps = s.globalFps /\ t.hasHud = s.hasHud /\ t.hud = s.hud
          /\ t.inRule = s.inRule /\ t.rule = q
          /\ t.rules = s.rules /\ t.selected = s.selected
      <4> HIDE DEF t
      <4>1. t = [s EXCEPT !.rule = q]
        BY <2>3
      <4> QED BY <1>7, <4>1
    <3> HIDE DEF t, u
    <3>2. /\ IsState(u) /\ u.line = (k + 1) + 1 /\ u.error = "none"
          /\ u.global = s.global /\ u.globalOff = s.globalOff
          /\ u.globalFps = s.globalFps /\ u.hasHud = s.hasHud /\ u.hud = s.hud
          /\ u.inRule = TRUE /\ u.rule = q
          /\ u.rules = s.rules /\ u.selected = s.selected
      BY <1>5, <1>8, <2>1, <3>1
    <3>3. Globals(f, k + 1, u)
      <4>1. Untouched(f, k, 0, "global_fps_limit") /\ Untouched(f, k, 0, "hud")
        BY <1>4, <2>1
      <4> QED BY <1>6, <3>2, <4>1, GlobalsStay
    <3>4. Tally(f, k + 1, u)
      BY <1>1, <1>6, <3>2, TallyStays
    <3>5. RuleAtHand(f, k + 1, u)
      BY <1>2, <2>1, <2>2, <2>3, <3>2 DEF RuleAtHand
    <3> QED BY <1>5, <3>1, <3>2, <3>3, <3>4, <3>5 DEF Good
  <2>4. CASE key = "fps_limit"
    <3> DEFINE q == [r EXCEPT !.hasFps = TRUE, !.fps = FpsOf(v)]
    <3>1. t = [s EXCEPT !.rule = q]
      BY <1>5, <2>2, <2>4 DEF Stored, IsState, RuleKnown
    <3>2. /\ DOMAIN q = DOMAIN r /\ q.line = r.line /\ q.section = r.section
          /\ q.hasExe = r.hasExe /\ q.hasFps = TRUE /\ q.hasQuota = r.hasQuota
          /\ q.priority = r.priority /\ q.fps = FpsOf(v) /\ q.quota = r.quota
      <4> HIDE DEF r, v
      <4> QED BY <2>2 DEF RuleKnown
    <3>3. /\ ValueIn(f, b, "fps_limit") = v /\ Has(f, k + 1, b, "fps_limit")
          /\ Untouched(f, k, b, "executable") /\ Untouched(f, k, b, "thread_cpu_limit")
      BY <1>3, <1>4, <2>4
    <3>4. RuleKnown(f, k + 1, b, q)
      <4> HIDE DEF q, v, b, r
      <4> QED BY <2>2, <3>2, <3>3 DEF RuleKnown, Untouched
    <3> HIDE DEF q
    <3> QED BY <2>3, <3>1, <3>4
  <2>5. CASE key = "executable"
    <3> DEFINE q == [r EXCEPT !.hasExe = TRUE, !.exe = v.exe, !.priority = Priority(v.exe)]
    <3>1. t = [s EXCEPT !.rule = q]
      BY <1>5, <2>2, <2>5 DEF Stored, IsState, RuleKnown
    <3>2. /\ DOMAIN q = DOMAIN r /\ q.line = r.line /\ q.section = r.section
          /\ q.hasExe = TRUE /\ q.hasFps = r.hasFps /\ q.hasQuota = r.hasQuota
          /\ q.priority = Priority(v.exe) /\ q.fps = r.fps /\ q.quota = r.quota
      <4> HIDE DEF r, v
      <4> QED BY <2>2 DEF RuleKnown
    <3>3. /\ ValueIn(f, b, "executable") = v /\ Has(f, k + 1, b, "executable")
          /\ Untouched(f, k, b, "fps_limit") /\ Untouched(f, k, b, "thread_cpu_limit")
      BY <1>3, <1>4, <2>5
    <3>4. v.word = "quoted"
      BY <1>2, <2>5 DEF Usable
    <3>5. RulePriority(f, b) = Priority(v.exe)
      <4> HIDE DEF v, b
      <4> QED BY <3>3, <3>4 DEF RulePriority
    <3>6. RuleKnown(f, k + 1, b, q)
      <4> HIDE DEF q, v, b, r
      <4> QED BY <2>2, <3>2, <3>3, <3>5 DEF RuleKnown, Untouched
    <3> HIDE DEF q
    <3> QED BY <2>3, <3>1, <3>6
  <2>6. CASE key = "thread_cpu_limit"
    <3> DEFINE q == [r EXCEPT !.hasQuota = TRUE, !.quota = QuotaOf(v)]
    <3>1. t = [s EXCEPT !.rule = q]
      BY <1>5, <2>2, <2>6 DEF Stored, IsState, RuleKnown
    <3>2. /\ DOMAIN q = DOMAIN r /\ q.line = r.line /\ q.section = r.section
          /\ q.hasExe = r.hasExe /\ q.hasFps = r.hasFps /\ q.hasQuota = TRUE
          /\ q.priority = r.priority /\ q.fps = r.fps /\ q.quota = QuotaOf(v)
      <4> HIDE DEF r, v
      <4> QED BY <2>2 DEF RuleKnown
    <3>3. /\ ValueIn(f, b, "thread_cpu_limit") = v
          /\ Has(f, k + 1, b, "thread_cpu_limit")
          /\ Untouched(f, k, b, "executable") /\ Untouched(f, k, b, "fps_limit")
      BY <1>3, <1>4, <2>6
    <3>4. RuleKnown(f, k + 1, b, q)
      <4> HIDE DEF q, v, b, r
      <4> QED BY <2>2, <3>2, <3>3 DEF RuleKnown, Untouched
    <3> HIDE DEF q
    <3> QED BY <2>3, <3>1, <3>4
  <2> QED BY <2>1, <2>4, <2>5, <2>6
<1> QED BY <1>9, <1>10
-----------------------------------------------------------------------------
(* The whole file.                                                         *)

ParserIs(f, k, s) ==
    IF s.error = "none" THEN Good(f, k, s) /\ NoFaultTo(f, k)
    ELSE FirstIs(f, s.errorLine, s.error)

LEMMA LineStep ==
    ASSUME NEW f, Scanned(f), NEW k \in 0..Len(f) - 1, NEW s, ParserIs(f, k, s)
    PROVE  ParserIs(f, k + 1, parse_line(s, f[k + 1]))
<1> DEFINE l == f[k + 1]
           z == parse_line(s, l)
<1> SUFFICES ParserIs(f, k + 1, z)
  OBVIOUS
<1>1. IsFile(f) /\ l.kind \in {"skip", "section", "badsection", "noequals", "entry"}
  BY Kinds DEF Scanned
<1>2. CASE s.error # "none"
  <2>1. z = s
    BY <1>2 DEF parse_line
  <2> HIDE DEF z
  <2> QED BY <1>2, <2>1 DEF ParserIs
<1>3. CASE s.error = "none"
  <2>1. Good(f, k, s) /\ NoFaultTo(f, k) /\ IsState(s) /\ s.line = k + 1
    BY <1>3 DEF ParserIs, Good
  <2>2. ASSUME NEW t, t.error # "none", FirstIs(f, t.errorLine, t.error),
               z = IF t.error # "none" THEN t ELSE NextLine(t)
        PROVE  ParserIs(f, k + 1, z)
    <3>1. z = t
      BY <2>2
    <3> HIDE DEF z
    <3> QED BY <2>2, <3>1 DEF ParserIs
  <2>3. ASSUME NEW t, t.error = "none", Good(f, k + 1, NextLine(t)),
               NoFaultTo(f, k + 1),
               z = IF t.error # "none" THEN t ELSE NextLine(t)
        PROVE  ParserIs(f, k + 1, z)
    <3>1. z = NextLine(t)
      BY <2>3
    <3> HIDE DEF z
    <3>2. z.error = "none"
      BY <2>3, <3>1 DEF Good
    <3> QED BY <2>3, <3>1, <3>2 DEF ParserIs
  <2>4. CASE l.kind = "skip"
    <3>1. z = IF s.error # "none" THEN s ELSE NextLine(s)
      BY <1>3, <2>4 DEF parse_line, NextLine
    <3>2. LineFault(f, k + 1) = "none"
      BY <2>4 DEF LineFault
    <3>3. k + 1 \notin Closers(f)
      BY <1>1, <2>4, Kinds
    <3>4. NoFaultTo(f, k + 1)
      BY <1>1, <2>1, <3>2, <3>3, NoFaultNext, Within
    <3>5. Good(f, k + 1, NextLine(s))
      BY <2>1, <2>4, SkipStep
    <3> QED BY <1>3, <2>3, <3>1, <3>4, <3>5
  <2>5. CASE l.kind \in {"section", "badsection"}
    <3> DEFINE t == parse_section(s, l)
    <3>1. z = IF t.error # "none" THEN t ELSE NextLine(t)
      BY <1>3, <2>5 DEF parse_line, NextLine
    <3>2. \/ t.error # "none" /\ FirstIs(f, t.errorLine, t.error)
          \/ /\ t.error = "none" /\ Good(f, k + 1, NextLine(t))
             /\ NoFaultTo(f, k + 1)
      BY <2>1, <2>5, SectionStep
    <3> HIDE DEF t, z
    <3> QED BY <2>2, <2>3, <3>1, <3>2
  <2>6. CASE l.kind = "noequals"
    <3> DEFINE t == Fail(s, "missing_equals", s.line)
    <3>1. z = IF t.error # "none" THEN t ELSE NextLine(t)
      BY <1>3, <2>6 DEF parse_line, NextLine
    <3>2. t.error = "missing_equals" /\ t.errorLine = k + 1
      BY <2>1 DEF Fail, IsState
    <3>3. LineFault(f, k + 1) = "missing_equals" /\ k + 1 \notin Closers(f)
      BY <1>1, <2>6, Kinds DEF LineFault
    <3>4. FirstIs(f, k + 1, LineFault(f, k + 1))
      BY <1>1, <2>1, <3>3, LineFirst, Within
    <3> HIDE DEF t, z
    <3> QED BY <2>2, <3>1, <3>2, <3>3, <3>4
  <2>7. CASE l.kind = "entry"
    <3> DEFINE t == parse_entry(s, l.key, l.value)
               e == LineFault(f, k + 1)
    <3>1. z = IF t.error # "none" THEN t ELSE NextLine(t)
      BY <1>3, <2>7 DEF parse_line, NextLine
    <3>2. t = IF e = "none" THEN Stored(s, l.key, l.value) ELSE Fail(s, e, s.line)
      BY <1>1, <2>1, <2>7, EntryIs
    <3>3. k + 1 \notin Closers(f)
      BY <1>1, <2>7, Kinds
    <3>4. CASE e = "none"
      <4>1. NoFaultTo(f, k + 1)
        BY <1>1, <2>1, <3>3, <3>4, NoFaultNext, Within
      <4>2. t.error = "none" /\ Good(f, k + 1, NextLine(t))
        BY <2>1, <2>7, <3>2, <3>4, EntryStep
      <4> HIDE DEF t, z
      <4> QED BY <2>3, <3>1, <4>1, <4>2
    <3>5. CASE e # "none"
      <4>1. t = Fail(s, e, k + 1)
        BY <2>1, <3>2, <3>5
      <4> HIDE DEF t, e
      <4>2. t.error = e /\ t.errorLine = k + 1
        BY <2>1, <4>1 DEF Fail, IsState
      <4>3. FirstIs(f, k + 1, e)
        BY <1>1, <2>1, <3>3, <3>5, LineFirst, Within DEF e
      <4> HIDE DEF z
      <4> QED BY <2>2, <3>1, <3>5, <4>2, <4>3
    <3> QED BY <3>4, <3>5
  <2> QED BY <1>1, <2>4, <2>5, <2>6, <2>7
<1> QED BY <1>2, <1>3

LEMMA NoLine ==
    ASSUME NEW f, IsFile(f)
    PROVE  ParserIs(f, 0, ParseInit)
<1> DEFINE s == ParseInit
<1>1. /\ IsState(s) /\ s.error = "none" /\ s.line = 0 + 1
      /\ s.global = FALSE /\ s.globalOff = FALSE /\ s.globalFps = 0
      /\ s.hasHud = FALSE /\ s.hud = TRUE /\ s.inRule = FALSE
      /\ s.rules = 0 /\ s.selected.priority = -1
  <2>1. IsState(s)
    BY DEF ParseInit, IsState
  <2>2. s.selected.priority = -1
    BY DEF ParseInit, NoRule
  <2> QED BY <2>1, <2>2 DEF ParseInit
<1> HIDE DEF s
<1>2. \A h, key : ~Has(f, 0, h, key)
  BY HasNothing
<1>3. \A h \in Headers(f) : ~(Closing(f, h) <= 0)
  <2>1. \A h \in Headers(f) : h \in Nat /\ Closing(f, h) \in Nat /\ h < Closing(f, h)
    BY Positions, ClosingIs
  <2> QED BY <2>1
<1>4. Closed(f, 0) = {}
  BY <1>3 DEF Closed
<1>5. Globals(f, 0, s)
  BY <1>1, <1>2 DEF Globals
<1>6. RuleAtHand(f, 0, s)
  BY <1>1, BlockStarts DEF RuleAtHand
<1>7. Tally(f, 0, s)
  BY <1>1, <1>4 DEF Tally, BestKnown
<1>8. NoFaultTo(f, 0)
  BY <1>3 DEF NoFaultTo
<1> QED BY <1>1, <1>5, <1>6, <1>7, <1>8 DEF ParserIs, Good, s

LEMMA AllLines ==
    ASSUME NEW f, Scanned(f)
    PROVE  ParserIs(f, Len(f), FoldLeft(parse_line, ParseInit, f))
<1>1. IsFile(f) /\ Len(f) \in Nat
  BY DEF Scanned, IsFile
<1>2. PICK a : /\ a[0] = ParseInit
               /\ a[Len(f)] = FoldLeft(parse_line, ParseInit, f)
               /\ \A m \in 1..Len(f) : a[m] = parse_line(a[m - 1], f[m])
  BY <1>1, ReadPasses
<1> DEFINE G == {k \in 0..Len(f) : ParserIs(f, k, a[k])}
<1>3. 0 \in G
  BY <1>1, <1>2, NoLine
<1>4. ASSUME NEW m \in 0..Len(f) - 1, m \in G
      PROVE  m + 1 \in G
  <2>1. m + 1 \in 1..Len(f) /\ (m + 1) - 1 = m /\ m + 1 \in 0..Len(f)
    BY <1>1
  <2>2. a[m + 1] = parse_line(a[m], f[m + 1])
    BY <1>2, <2>1
  <2>3. ParserIs(f, m, a[m])
    BY <1>4
  <2>4. ParserIs(f, m + 1, parse_line(a[m], f[m + 1]))
    BY <2>3, LineStep
  <2> QED BY <2>1, <2>2, <2>4
<1> HIDE DEF G
<1>5. \A m \in 0..Len(f) : m \in G
  BY <1>1, <1>3, <1>4, Induct
<1>6. Len(f) \in G
  BY <1>1, <1>5
<1> QED BY <1>2, <1>6 DEF G

-----------------------------------------------------------------------------
\* At most one rule has the best priority, or it would be a fault.
LEMMA OneBest ==
    ASSUME NEW f, IsFile(f), \A h \in Headers(f) : RuleFault(f, h) = "none",
           NEW w \in Headers(f), NEW g \in Headers(f), g < w,
           RulePriority(f, g) = RulePriority(f, w), RulePriority(f, w) >= 0,
           \A x \in Headers(f) :
               RulePriority(f, x) >= 0 => RulePriority(f, w) <= RulePriority(f, x)
    PROVE  FALSE
<1> DEFINE P(x) == RulePriority(f, x)
           S == {P(x) : x \in {y \in Headers(f) : y < w /\ Complete(f, y)}} \ {-1}
<1>1. \A x : P(x) \in Int /\ P(x) >= -1
  BY RulePriorityIs
<1>2. \A x \in Headers(f) : Complete(f, x)
  BY DEF RuleFault
<1>3. BestAbove(f, w) = IF S = {} THEN -1 ELSE Least(S)
  BY DEF BestAbove
<1>4. P(w) \in S
  BY <1>2
<1>5. S \in SUBSET Nat /\ \A n \in S : P(w) <= n
  BY <1>1
<1> HIDE DEF S, P
<1>6. BestAbove(f, w) = P(w)
  BY <1>3, <1>4, <1>5, LeastIs
<1>7. RuleFault(f, w) = "duplicate_matching_rule"
  BY <1>2, <1>6 DEF RuleFault, P
<1> QED BY <1>7

\* The configuration the parser arrives at is that of the file as a whole.
LEMMA EffectiveIs ==
    ASSUME NEW f, IsFile(f), NEW s, Good(f, Len(f), s),
           \A h \in Headers(f) : RuleFault(f, h) = "none",
           NEW t, Tallied(s, t), Tally(f, Len(f) + 1, t)
    PROVE  Effective(t) = Outcome(f)
<1> DEFINE n == Len(f)
           r == t.selected
           M == {h \in Headers(f) : RulePriority(f, h) >= 0}
           hud == Keyed(f, 0, "hud")
           global == Keyed(f, 0, "global_fps_limit")
           hudSource == IF hud = {} THEN "default" ELSE "global"
           hudValue == hud = {} \/ ValueIn(f, 0, "hud") = On
<1>1. n \in Nat /\ n \in 0..n
  BY Positions
<1>2. \A h, key : Has(f, n, h, key) <=> Keyed(f, h, key) # {}
  BY <1>1, HasAll
<1>3. Closed(f, n + 1) = Headers(f)
  BY ClosingIs, Positions DEF Closed
<1>4. /\ t.global \in BOOLEAN /\ t.globalOff \in BOOLEAN
      /\ t.hasHud \in BOOLEAN /\ t.hud \in BOOLEAN
      /\ t.global <=> global # {}
      /\ t.globalOff <=> t.global /\ ValueIn(f, 0, "global_fps_limit") = Off
      /\ t.globalFps = IF t.global THEN FpsOf(ValueIn(f, 0, "global_fps_limit")) ELSE 0
      /\ t.hasHud <=> hud # {}
      /\ t.hud <=> ~t.hasHud \/ ValueIn(f, 0, "hud") = On
  BY <1>2 DEF Good, Globals, Tallied
<1>5. t.hud = hudValue /\ (IF t.hasHud THEN "global" ELSE "default") = hudSource
  BY <1>4
<1>6. /\ t.rules \in Nat /\ (t.rules > 0 <=> Headers(f) # {})
      /\ BestKnown(f, n + 1, r)
  BY <1>3 DEF Tally
<1>7. CASE r.priority = -1 /\ \A g \in Headers(f) : RulePriority(f, g) < 0
  <2> DEFINE off == global # {} /\ ValueIn(f, 0, "global_fps_limit") = Off
  <2>1. M = {}
    <3>1. \A g \in Headers(f) : RulePriority(f, g) \in Int
      BY RulePriorityIs
    <3> QED BY <1>7, <3>1
  <2>2. Outcome(f) =
         [status |-> "valid",
          reason |-> IF off THEN "explicitly_off"
                     ELSE IF Headers(f) # {} THEN "no_executable_match"
                     ELSE "no_per_game_rules",
          line |-> 0,
          fps |-> IF global = {} THEN 0
                  ELSE FpsOf(ValueIn(f, 0, "global_fps_limit")),
          fpsSource |-> IF global = {} THEN "default" ELSE "global",
          hud |-> hudValue, hudSource |-> hudSource, quota |-> 0,
          quotaSource |-> "default", section |-> "", match |-> ""]
    BY <2>1 DEF Outcome
  <2>3. ~(r.priority >= 0)
    BY <1>7
  <2>4. Effective(t) =
         [status |-> "valid",
          reason |-> CASE t.global /\ t.globalOff -> "explicitly_off"
                       [] ~(t.global /\ t.globalOff) /\ t.rules > 0 ->
                              "no_executable_match"
                       [] OTHER -> "no_per_game_rules",
          line |-> 0, fps |-> t.globalFps,
          fpsSource |-> IF t.global THEN "global" ELSE "default",
          hud |-> t.hud,
          hudSource |-> IF t.hasHud THEN "global" ELSE "default", quota |-> 0,
          quotaSource |-> "default", section |-> "", match |-> ""]
    BY <2>3 DEF Effective
  <2>5. (CASE t.global /\ t.globalOff -> "explicitly_off"
           [] ~(t.global /\ t.globalOff) /\ t.rules > 0 -> "no_executable_match"
           [] OTHER -> "no_per_game_rules")
        = IF off THEN "explicitly_off"
          ELSE IF Headers(f) # {} THEN "no_executable_match"
          ELSE "no_per_game_rules"
    <3>1. t.global /\ t.globalOff <=> off
      BY <1>4
    <3> HIDE DEF off
    <3> QED BY <1>6, <3>1
  <2>6. /\ t.globalFps = IF global = {} THEN 0
                         ELSE FpsOf(ValueIn(f, 0, "global_fps_limit"))
        /\ (IF t.global THEN "global" ELSE "default")
             = IF global = {} THEN "default" ELSE "global"
    BY <1>4
  <2> QED BY <1>5, <2>2, <2>4, <2>5, <2>6
<1>8. CASE \E w \in Headers(f) :
             /\ RuleKnown(f, n, w, r)
             /\ RulePriority(f, w) >= 0 /\ r.priority = RulePriority(f, w)
             /\ \A g \in Headers(f) :
                  RulePriority(f, g) >= 0 => RulePriority(f, w) <= RulePriority(f, g)
  <2>1. PICK w \in Headers(f) :
             /\ RuleKnown(f, n, w, r)
             /\ RulePriority(f, w) >= 0 /\ r.priority = RulePriority(f, w)
             /\ \A g \in Headers(f) :
                  RulePriority(f, g) >= 0 => RulePriority(f, w) <= RulePriority(f, g)
    BY <1>8
  <2> DEFINE c == CHOOSE h \in M : \A g \in M : RulePriority(f, h) <= RulePriority(f, g)
             v == ValueIn(f, c, "executable")
             quota == Keyed(f, c, "thread_cpu_limit")
             fps == FpsOf(ValueIn(f, c, "fps_limit"))
  <2>2. w \in M /\ \A g \in M : RulePriority(f, w) <= RulePriority(f, g)
    BY <2>1
  <2>3. c \in M /\ \A g \in M : RulePriority(f, c) <= RulePriority(f, g)
    BY <2>2
  <2>4. c = w
    <3> HIDE DEF c
    <3>1. /\ RulePriority(f, c) \in Int /\ RulePriority(f, w) \in Int
          /\ c \in Nat /\ w \in Nat /\ c \in Headers(f)
      BY <2>3, RulePriorityIs, Positions
    <3>2. RulePriority(f, c) = RulePriority(f, w) /\ RulePriority(f, c) >= 0
      BY <2>2, <2>3, <3>1
    <3>3. ~(c < w)
      BY <2>1, <3>1, <3>2, OneBest
    <3>4. ~(w < c)
      <4>1. \A g \in Headers(f) :
              RulePriority(f, g) >= 0 => RulePriority(f, c) <= RulePriority(f, g)
        BY <2>3
      <4> QED BY <2>1, <3>1, <3>2, <4>1, OneBest
    <3> QED BY <3>1, <3>3, <3>4
  <2>5. Outcome(f) =
         [status |-> "valid",
          reason |-> IF fps = 0 THEN "explicitly_off" ELSE "none",
          line |-> 0, fps |-> fps, fpsSource |-> "per_game",
          hud |-> hudValue, hudSource |-> hudSource,
          quota |-> IF quota = {} THEN 0
                    ELSE QuotaOf(ValueIn(f, c, "thread_cpu_limit")),
          quotaSource |-> IF quota = {} THEN "default" ELSE "per_game",
          section |-> IF Reporting THEN f[c].name ELSE "",
          match |-> IF Reporting THEN v.exe ELSE ""]
    <3>1. M # {}
      BY <2>2
    <3> QED BY <3>1 DEF Outcome
  <2>6. Effective(t) =
         [status |-> "valid",
          reason |-> IF r.fps = 0 THEN "explicitly_off" ELSE "none",
          line |-> 0, fps |-> r.fps, fpsSource |-> "per_game",
          hud |-> t.hud,
          hudSource |-> IF t.hasHud THEN "global" ELSE "default", quota |-> r.quota,
          quotaSource |-> IF r.hasQuota THEN "per_game" ELSE "default",
          section |-> IF Reporting THEN r.section ELSE "",
          match |-> IF Reporting THEN Candidates[r.priority + 1] ELSE ""]
    <3>1. r.priority >= 0
      BY <2>1
    <3> QED BY <3>1 DEF Effective
  <2> HIDE DEF c
  <2>7. Keyed(f, c, "fps_limit") # {}
    BY <2>1, <2>4 DEF RuleFault, Complete
  <2>8. /\ r.fps = fps /\ r.section = f[c].name
        /\ (r.hasQuota <=> quota # {})
        /\ r.quota = IF quota = {} THEN 0
                     ELSE QuotaOf(ValueIn(f, c, "thread_cpu_limit"))
    BY <1>2, <2>1, <2>4, <2>7 DEF RuleKnown
  <2>9. Candidates[r.priority + 1] = v.exe
    BY <2>1, <2>4, RulePriorityIs
  <2>10. (IF r.hasQuota THEN "per_game" ELSE "default")
           = IF quota = {} THEN "default" ELSE "per_game"
    BY <2>8
  <2>11. Outcome(f) =
         [status |-> "valid",
          reason |-> IF fps = 0 THEN "explicitly_off" ELSE "none",
          line |-> 0, fps |-> fps, fpsSource |-> "per_game",
          hud |-> t.hud,
          hudSource |-> IF t.hasHud THEN "global" ELSE "default",
          quota |-> IF quota = {} THEN 0
                    ELSE QuotaOf(ValueIn(f, c, "thread_cpu_limit")),
          quotaSource |-> IF quota = {} THEN "default" ELSE "per_game",
          section |-> IF Reporting THEN f[c].name ELSE "",
          match |-> IF Reporting THEN v.exe ELSE ""]
    <3> HIDE DEF v, quota, fps
    <3> QED BY <1>5, <2>5
  <2>12. /\ r.section = f[c].name /\ r.fps = fps
         /\ r.quota = IF quota = {} THEN 0
                      ELSE QuotaOf(ValueIn(f, c, "thread_cpu_limit"))
    BY <2>8
  <2>13. /\ (IF r.fps = 0 THEN "explicitly_off" ELSE "none")
              = IF fps = 0 THEN "explicitly_off" ELSE "none"
         /\ (IF Reporting THEN r.section ELSE "") = IF Reporting THEN f[c].name ELSE ""
         /\ (IF Reporting THEN Candidates[r.priority + 1] ELSE "")
              = IF Reporting THEN v.exe ELSE ""
    BY <2>9, <2>12
  <2> DEFINE reasonR == IF r.fps = 0 THEN "explicitly_off" ELSE "none"
             sectionR == IF Reporting THEN r.section ELSE ""
             matchR == IF Reporting THEN Candidates[r.priority + 1] ELSE ""
             quotaSourceR == IF r.hasQuota THEN "per_game" ELSE "default"
  <2>14. Effective(t) =
         [status |-> "valid", reason |-> reasonR,
          line |-> 0, fps |-> r.fps, fpsSource |-> "per_game",
          hud |-> t.hud,
          hudSource |-> IF t.hasHud THEN "global" ELSE "default", quota |-> r.quota,
          quotaSource |-> quotaSourceR, section |-> sectionR, match |-> matchR]
    BY <2>6
  <2>15. Outcome(f) =
         [status |-> "valid", reason |-> reasonR,
          line |-> 0, fps |-> r.fps, fpsSource |-> "per_game",
          hud |-> t.hud,
          hudSource |-> IF t.hasHud THEN "global" ELSE "default", quota |-> r.quota,
          quotaSource |-> quotaSourceR, section |-> sectionR, match |-> matchR]
    BY <2>10, <2>11, <2>12, <2>13
  <2> HIDE DEF reasonR, sectionR, matchR, quotaSourceR
  <2> QED BY <2>14, <2>15
<1> QED BY <1>3, <1>6, <1>7, <1>8 DEF BestKnown
\* valid_bytes reports the first byte that is not allowed.
LEMMA BadByteFirst ==
    ASSUME NEW f, IsFile(f), NEW b \in DOMAIN f, f[b] = BadByte
    PROVE  FirstBadByte(f) = Least({k \in DOMAIN f : f[k] = BadByte})
<1> DEFINE S == {k \in DOMAIN f : f[k] = BadByte}
           y == FirstBadByte(f)
<1>1. DOMAIN f = 1..Len(f) /\ Len(f) \in Nat /\ S \in SUBSET Nat /\ S # {}
  BY Positions
<1>2. PICK m \in S : \A k \in S : m <= k
  <2> HIDE DEF S
  <2> QED BY <1>1, HasLeast
<1>3. m \in DOMAIN f /\ f[m] = BadByte /\ \A j \in 1..(m - 1) : f[j] # BadByte
  <2>1. \A j \in 1..(m - 1) : j \in DOMAIN f /\ ~(m <= j)
    BY <1>1, <1>2
  <2> QED BY <1>2, <2>1
<1>4. y \in DOMAIN f /\ f[y] = BadByte /\ \A j \in 1..(y - 1) : f[j] # BadByte
  BY <1>3 DEF FirstBadByte
<1> HIDE DEF y
<1>5. y \in S /\ \A k \in S : y <= k
  <2>1. y \in S
    BY <1>4
  <2>2. ASSUME NEW k \in S PROVE y <= k
    <3>1. k \in 1..Len(f) /\ f[k] = BadByte /\ y \in 1..Len(f)
      BY <1>1, <1>4
    <3>2. ~(k \in 1..(y - 1))
      BY <1>4, <3>1
    <3> QED BY <1>1, <3>1, <3>2
  <2> QED BY <2>1, <2>2
<1> HIDE DEF S
<1>6. Least(S) = y
  BY <1>1, <1>5, LeastIs
<1> QED BY <1>6 DEF S, y

\* pacer_limit.c:521-730.  For every file, one pass over its lines arrives at
\* what the file as a whole says: its first fault with its line, or the rule
\* with the best priority and the global settings, wherever they stand.
THEOREM ParserIsReference ==
    ASSUME NEW f, IsFile(f)
    PROVE  parse_limit(f) = Reference(f)
<1> DEFINE B == {k \in DOMAIN f : f[k] = BadByte}
<1>1. CASE B # {}
  <2>1. PICK b \in DOMAIN f : f[b] = BadByte
    BY <1>1
  <2>2. parse_limit(f) = Failed("malformed", "invalid_byte", FirstBadByte(f))
    BY <2>1 DEF parse_limit
  <2>3. Reference(f) = Failed("malformed", "invalid_byte", Least(B))
    BY <1>1 DEF Reference
  <2>4. FirstBadByte(f) = Least(B)
    BY <2>1, BadByteFirst
  <2> HIDE DEF B
  <2> QED BY <2>2, <2>3, <2>4
<1>2. CASE B = {}
  <2> DEFINE n == Len(f)
             s == FoldLeft(parse_line, ParseInit, f)
             t == IF s.error = "none" THEN finish_rule(s) ELSE s
  <2>1. Scanned(f)
    BY <1>2 DEF Scanned
  <2>2. ParserIs(f, n, s)
    BY <2>1, AllLines
  <2>3. parse_limit(f) = IF t.error = "none" THEN Effective(t)
                         ELSE Failed("malformed", t.error, t.errorLine)
    BY <1>2 DEF parse_limit
  <2>4. Reference(f) = IF Faults(f) = {} THEN Outcome(f)
                       ELSE Failed("malformed", FirstFault(Faults(f))[4],
                                   FirstFault(Faults(f))[3])
    BY <1>2 DEF Reference
  <2> HIDE DEF s
  <2>5. ASSUME t.error # "none", FirstIs(f, t.errorLine, t.error)
        PROVE  parse_limit(f) = Reference(f)
    <3> HIDE DEF t
    <3> QED BY <2>3, <2>4, <2>5 DEF FirstIs
  <2>6. CASE s.error # "none"
    <3>1. t = s
      BY <2>6
    <3>2. t.error # "none" /\ FirstIs(f, t.errorLine, t.error)
      <4> HIDE DEF t
      <4> QED BY <2>2, <2>6, <3>1 DEF ParserIs
    <3> QED BY <2>5, <3>2
  <2>7. CASE s.error = "none"
    <3>1. t = finish_rule(s)
      BY <2>7
    <3>2. Good(f, n, s) /\ NoFaultTo(f, n)
      BY <2>2, <2>7 DEF ParserIs
    <3>3. n \in 0..Len(f) /\ Ends(f, n + 1) /\ n \in Nat
      BY Positions DEF Ends
    <3> HIDE DEF t
    <3>4. \/ t.error # "none" /\ FirstIs(f, t.errorLine, t.error)
          \/ /\ Tallied(s, t) /\ Tally(f, n + 1, t)
             /\ \A h \in Headers(f) : Closing(f, h) = n + 1 => RuleFault(f, h) = "none"
      BY <3>1, <3>2, <3>3, Finish
    <3>5. CASE t.error # "none" /\ FirstIs(f, t.errorLine, t.error)
      BY <2>5, <3>5
    <3>6. CASE /\ Tallied(s, t) /\ Tally(f, n + 1, t)
               /\ \A h \in Headers(f) : Closing(f, h) = n + 1 => RuleFault(f, h) = "none"
      <4>1. \A h \in Headers(f) : RuleFault(f, h) = "none"
        <5>1. \A h \in Headers(f) : /\ Closing(f, h) \in Nat
                                    /\ Closing(f, h) <= n + 1
          BY ClosingIs, Positions
        <5>2. \A h \in Headers(f) : Closing(f, h) <= n \/ Closing(f, h) = n + 1
          BY <3>3, <5>1
        <5> QED BY <3>2, <3>6, <5>2 DEF NoFaultTo
      <4>2. \A j \in DOMAIN f : LineFault(f, j) = "none"
        BY <3>2, Positions DEF NoFaultTo
      <4>3. Faults(f) = {}
        BY <4>1, <4>2, FaultIs
      <4>4. Effective(t) = Outcome(f)
        BY <3>2, <3>6, <4>1, EffectiveIs
      <4>5. t.error = "none"
        BY <2>7, <3>6 DEF Tallied
      <4> QED BY <2>3, <2>4, <4>3, <4>4, <4>5
    <3> QED BY <3>4, <3>5, <3>6
  <2> QED BY <2>6, <2>7
<1> QED BY <1>1, <1>2

\* The lines of the files that are put together.
PieceLines == Lines \cup UNION {Range(r) : r \in Rules}

LEMMA PiecesAreLines ==
    /\ \A l \in PieceLines : IsLine(l)
    /\ \A l \in Lines : <<l>> \in Seq(PieceLines)
    /\ \A r \in Rules : r \in Seq(PieceLines)
<1>1. \A l \in Lines : IsLine(l)
  BY DEF Lines, IsLine, Comment, Header, BadHeader, NoEquals, BadByte, Entry
<1>2. ASSUME NEW r \in Rules
      PROVE  /\ DOMAIN r = 1..Len(r) /\ Len(r) \in Nat
             /\ \A i \in DOMAIN r : IsLine(r[i])
  <2>1. CASE \E e \in {"game", "launcher", "other"}, v \in {Off, Num(MaxFps)} :
               r = <<Header("b"), Entry("executable", Quoted(e)), Entry("fps_limit", v)>>
    <3>1. PICK e, v : r = <<Header("b"), Entry("executable", Quoted(e)),
                            Entry("fps_limit", v)>>
      BY <2>1
    <3>2. Len(r) = 3 /\ DOMAIN r = 1..3
      BY <3>1
    <3>3. IsLine(r[1]) /\ IsLine(r[2]) /\ IsLine(r[3])
      BY <3>1 DEF IsLine, Header, Entry
    <3> QED BY <3>2, <3>3
  <2>2. CASE \E q \in {Off, Percent(1)} :
               r = <<Header("c"), Comment, Entry("thread_cpu_limit", q),
                     Entry("fps_limit", Num(1)), Entry("executable", Quoted("game"))>>
    <3>1. PICK q : r = <<Header("c"), Comment, Entry("thread_cpu_limit", q),
                     Entry("fps_limit", Num(1)), Entry("executable", Quoted("game"))>>
      BY <2>2
    <3>2. Len(r) = 5 /\ DOMAIN r = 1..5
      BY <3>1
    <3>3. IsLine(r[1]) /\ IsLine(r[2]) /\ IsLine(r[3]) /\ IsLine(r[4]) /\ IsLine(r[5])
      BY <3>1 DEF IsLine, Header, Entry, Comment
    <3> QED BY <3>2, <3>3
  <2> QED BY <2>1, <2>2 DEF Rules
<1>3. \A r \in Rules : \A i \in DOMAIN r : r[i] \in PieceLines
  BY DEF PieceLines, Range
<1>4. \A l \in PieceLines : IsLine(l)
  BY <1>1, <1>2 DEF PieceLines, Range
<1>5. \A l \in Lines : l \in PieceLines
  BY DEF PieceLines
<1>6. ASSUME NEW r \in Rules PROVE r \in Seq(PieceLines)
  <2>1. DOMAIN r = 1..Len(r) /\ Len(r) \in Nat /\ \A i \in 1..Len(r) : r[i] \in PieceLines
    BY <1>2, <1>3
  <2>2. r = [i \in 1..Len(r) |-> r[i]]
    BY <2>1 DEF Rules
  <2> QED BY <2>1, <2>2
<1> HIDE DEF PieceLines
<1>7. \A l \in Lines : <<l>> \in Seq(PieceLines)
  BY <1>5
<1> QED BY <1>4, <1>6, <1>7

\* Whatever a file is put together from, it is parsed as a whole.
THEOREM FilesAreParsed == FileSpec => []ParseIsReference
<1> DEFINE FileInv == file \in Seq(PieceLines)
<1>1. FileInit => FileInv
  BY DEF FileInit
<1>2. FileInv /\ [Grow]_<<file, parts>> => FileInv'
  <2> SUFFICES ASSUME FileInv, [Grow]_<<file, parts>>
               PROVE  FileInv'
    OBVIOUS
  <2>1. CASE Grow
    <3>1. PICK p \in {<<l>> : l \in Lines} \cup Rules : file' = file \o p
      BY <2>1 DEF Grow
    <3>2. p \in Seq(PieceLines)
      BY <3>1, PiecesAreLines
    <3> HIDE DEF PieceLines
    <3> QED BY <3>1, <3>2
  <2>2. CASE UNCHANGED <<file, parts>>
    BY <2>2
  <2> QED BY <2>1, <2>2
<1>3. FileInv => ParseIsReference
  <2> SUFFICES ASSUME FileInv PROVE ParseIsReference
    OBVIOUS
  <2>1. /\ Len(file) \in Nat /\ DOMAIN file = 1..Len(file)
        /\ \A k \in DOMAIN file : file[k] \in PieceLines
    <3> HIDE DEF PieceLines
    <3> QED OBVIOUS
  <2>2. IsFile(file)
    BY <2>1, PiecesAreLines DEF IsFile
  <2> QED BY <2>2, ParserIsReference DEF ParseIsReference
<1> QED BY <1>1, <1>2, <1>3, PTL DEF FileSpec
=============================================================================
