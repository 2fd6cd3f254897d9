-------------------------- MODULE FileHelpersProofs --------------------------
(***************************************************************************)
(* FileHelpers for every number of toasts and badges, every set of         *)
(* durations and every set of contents: the simulated progress only        *)
(* advances and ends at 100, within an interval after its duration, the    *)
(* drop zone is marked only while something is dragged over it, and no     *)
(* content but the empty one is ever saved as it is.                       *)
(***************************************************************************)
EXTENDS FileHelpers, SequenceTheorems, WellFoundedInduction, TLAPS

-----------------------------------------------------------------------------
(* The simulation *)

\* Between one sum and the next the rounded values do not go back: a next one
\* that is smaller would be two halves below.
LEMMA RoundedAdvances ==
  ASSUME NEW k \in Nat, NEW d \in Nat, d > 0,
         NEW r \in Rounded(k, d), NEW n \in Rounded(k + 1, d)
  PROVE  r <= n
<1>1. r \in 0..100 /\ n \in 0..100
  BY DEF Rounded
<1>2. 2 * d * r - d <= 10000 * k /\ 10000 * (k + 1) <= 2 * d * n + d
  BY DEF Rounded, Interval
<1>3. SUFFICES ASSUME n + 1 <= r PROVE FALSE
  BY <1>1
<1>4. (2 * d) * (n + 1) <= (2 * d) * r
  BY <1>1, <1>3
<1>5. (2 * d) * (n + 1) = 2 * d * n + 2 * d /\ (2 * d) * r = 2 * d * r
  BY <1>1
<1>6. 2 * d * n \in Int /\ 2 * d * r \in Int
  BY <1>1
<1>7. QED BY <1>2, <1>4, <1>5, <1>6

LEMMA ReportBound ==
  ASSUME NEW full, NEW k, NEW d, NEW n \in Report(full, k, d)
  PROVE  n \in 0 .. 100
  BY DEF Report, Rounded

SimStates == {"none", "running", "ended", "cancelled"}

\* The inductive invariant: while the interval runs its ticks are not past the
\* duration, and what was reported last is the sum's rounding.
SimInv ==
    /\ sim \in [state: SimStates, duration: Nat, ticks: Nat, report: 0..100]
    /\ sim.state = "none" => sim.report = 0 /\ sim.ticks = 0
    /\ sim.state = "running" =>
          \/ sim.ticks = 0 /\ sim.report = 0
          \/ /\ sim.ticks # 0
             /\ 50 * sim.ticks <= sim.duration
             /\ sim.report \in Rounded(sim.ticks, sim.duration)
    /\ ProgressEndsAt100

LEMMA SimInit == Init => SimInv
  BY DEF Init, SimInv, SimStates, ProgressEndsAt100

\* A tick reports at least what the last one did.
LEMMA TickStep ==
  ASSUME SimInv, Tick
  PROVE  SimInv' /\ sim'.report >= sim.report /\ sim.state = "running"
<1> DEFINE k == sim.ticks
           d == sim.duration
<1>1. /\ k \in Nat /\ d \in Nat /\ sim.state = "running" /\ sim.report \in 0..100
      /\ k + 1 \in Nat
      /\ sim \in [state: SimStates, duration: Nat, ticks: Nat, report: 0..100]
  BY DEF SimInv, Tick
<1>2. PICK full \in BOOLEAN : \E n \in Report(full, k + 1, d) :
         /\ SumMayBe(full, k + 1, d)
         /\ sim' = [sim EXCEPT !.ticks = k + 1, !.report = n,
                               !.state = IF full THEN "ended" ELSE @]
  BY DEF Tick, Advance
<1>3. PICK n \in Report(full, k + 1, d) :
         /\ SumMayBe(full, k + 1, d)
         /\ sim' = [sim EXCEPT !.ticks = k + 1, !.report = n,
                               !.state = IF full THEN "ended" ELSE @]
  BY <1>2
<1>4. n \in 0..100
  BY ReportBound
<1>5. /\ sim'.report = n /\ sim'.ticks = k + 1 /\ sim'.duration = d
      /\ sim'.state = IF full THEN "ended" ELSE "running"
      /\ sim' \in [state: SimStates, duration: Nat, ticks: Nat, report: 0..100]
  BY <1>1, <1>3, <1>4 DEF SimStates
<1>6. \/ k = 0 /\ sim.report = 0
      \/ k # 0 /\ 50 * k <= d /\ sim.report \in Rounded(k, d)
  BY <1>1 DEF SimInv
<1>7. 50 * k <= d
  BY <1>1, <1>6
<1>8. CASE full
  <2>1. n = 100 /\ 50 * (k + 1) >= d
    BY <1>3, <1>8 DEF Report, SumMayBe, Interval
  <2>2. d <= 50 * (k + 1) /\ 50 * (k + 1) <= d + 50 /\ k + 1 >= 1
    BY <1>1, <1>7, <2>1
  <2>3. ProgressEndsAt100'
    BY <1>5, <2>1, <2>2 DEF ProgressEndsAt100, Interval
  <2>4. SimInv'
    BY <1>5, <1>8, <2>3 DEF SimInv
  <2>5. sim'.report >= sim.report
    BY <1>1, <1>5, <2>1
  <2>6. QED BY <1>1, <2>4, <2>5
<1>9. CASE ~ full
  <2>1. n \in Rounded(k + 1, d) /\ 50 * (k + 1) <= d
    BY <1>3, <1>9 DEF Report, SumMayBe, Interval
  <2>2. d > 0 /\ k + 1 # 0
    BY <1>1, <2>1
  <2>3. SimInv'
    BY <1>5, <1>9, <2>1, <2>2 DEF SimInv, ProgressEndsAt100
  <2>4. sim.report <= n
    <3>1. CASE k = 0 /\ sim.report = 0
      BY <1>4, <3>1
    <3>2. CASE sim.report \in Rounded(k, d)
      BY <1>1, <2>1, <2>2, <3>2, RoundedAdvances
    <3>3. QED BY <1>6, <3>1, <3>2
  <2>5. QED BY <1>1, <1>4, <1>5, <2>3, <2>4
<1>10. QED BY <1>8, <1>9

\* Starting and cancelling report nothing, and nothing else touches sim.
LEMMA SimStep ==
  ASSUME SimInv, [Next]_vars
  PROVE  /\ SimInv'
         /\ <<sim'.ticks, sim'.report>> # <<sim.ticks, sim.report>> =>
               sim.state = "running" /\ sim'.report >= sim.report
<1>1. CASE Tick
  BY <1>1, TickStep
<1>2. CASE UNCHANGED sim
  BY <1>2 DEF SimInv, ProgressEndsAt100
<1>3. ASSUME NEW d \in Durations, SimulateUploadProgress(d)
      PROVE  SimInv' /\ sim'.report = sim.report /\ sim'.ticks = sim.ticks
  <2>1. d \in Nat
    BY HelpersAssumption
  <2>2. sim.report = 0 /\ sim.ticks = 0
    BY <1>3 DEF SimInv, SimulateUploadProgress
  <2>3. sim' = [state |-> "running", duration |-> d, ticks |-> 0, report |-> 0]
    BY <1>3 DEF SimulateUploadProgress
  <2>4. QED BY <2>1, <2>2, <2>3 DEF SimInv, SimStates, ProgressEndsAt100
<1>4. CASE CancelProgress
  <2>1. /\ sim' = [sim EXCEPT !.state = "cancelled"]
        /\ sim \in [state: SimStates, duration: Nat, ticks: Nat, report: 0..100]
    BY <1>4 DEF CancelProgress, SimInv
  <2>2. /\ sim'.state = "cancelled" /\ sim'.report = sim.report
        /\ sim'.ticks = sim.ticks
        /\ sim' \in [state: SimStates, duration: Nat, ticks: Nat, report: 0..100]
    BY <2>1 DEF SimStates
  <2>3. QED BY <2>2 DEF SimInv, ProgressEndsAt100
<1>5. [Next]_vars => \/ Tick \/ UNCHANGED sim \/ CancelProgress
                     \/ \E d \in Durations : SimulateUploadProgress(d)
  BY DEF Next, vars, DownloadFile, InitializeFileDropZone, DragOver, DragLeave, Drop,
     ShowToast, ToastShown, HideToast, ToastHidden, PointerEnters, PointerLeaves,
     CloseToast, AnimateSecurityBadges, AnimateBadge
<1>6. QED BY <1>1, <1>2, <1>3, <1>4, <1>5

LEMMA SimInvariance == Spec => []SimInv
<1>1. SimInv /\ [Next]_vars => SimInv'
  BY SimStep
<1>2. QED BY <1>1, SimInit, PTL DEF Spec

\* simulateUploadProgress ends with a report of 100 within one interval after
\* its duration, whichever way the sums of doubles are rounded.
THEOREM ProgressEndsAtHundred == Spec => []ProgressEndsAt100
<1>1. SimInv => ProgressEndsAt100
  BY DEF SimInv
<1>2. QED BY <1>1, SimInvariance, PTL

\* Its reports never go back, and there is none once the interval is cleared.
THEOREM ReportsOnlyAdvance == Spec => ProgressOnlyAdvances
<1>1. SimInv /\ [Next]_vars =>
         [<<sim'.ticks, sim'.report>> # <<sim.ticks, sim.report>> =>
            sim.state = "running" /\ sim'.report >= sim.report]_vars
  BY SimStep
<1>2. QED BY <1>1, SimInvariance, PTL DEF Spec, ProgressOnlyAdvances

-----------------------------------------------------------------------------
(* The drop zone *)

\* initializeFileDropZone marks the zone only while files are over it.
THEOREM HighlightIsTrue == Spec => []HighlightMeansDrag
<1>1. Init => HighlightMeansDrag
  BY DEF Init, HighlightMeansDrag
<1>2. HighlightMeansDrag /\ [Next]_vars => HighlightMeansDrag'
  <2>1. SUFFICES ASSUME HighlightMeansDrag, [Next]_vars PROVE HighlightMeansDrag'
    OBVIOUS
  <2>2. \/ UNCHANGED <<dragging, highlight>> \/ dragging' = TRUE \/ highlight' = FALSE
    BY <2>1 DEF Next, vars, zoneVars, DownloadFile, InitializeFileDropZone, DragOver,
       DragLeave, Drop, ShowToast, ToastShown, HideToast, ToastHidden, PointerEnters,
       PointerLeaves, CloseToast, AnimateSecurityBadges, AnimateBadge,
       SimulateUploadProgress, Tick, CancelProgress
  <2>3. QED BY <2>1, <2>2 DEF HighlightMeansDrag
<1>3. QED BY <1>1, <1>2, PTL DEF Spec

-----------------------------------------------------------------------------
(* What atob gives *)

Bytes == 0 .. 255
Sextets == 0 .. 63

\* The character that Atob makes of the symbols s at place i.
Char(s, i) ==
    LET j == (8 * (i - 1)) \div 6 + 1
    IN  ((s[j] * 64 + s[j + 1]) \div 2^(4 - ((8 * (i - 1)) % 6))) % 256

LEMMA CharForms ==
  ASSUME NEW s, NEW k \in Nat
  PROVE  /\ Char(s, 3 * k + 1) = ((s[4 * k + 1] * 64 + s[4 * k + 2]) \div 16) % 256
         /\ Char(s, 3 * k + 2) = ((s[4 * k + 2] * 64 + s[4 * k + 3]) \div 4) % 256
         /\ Char(s, 3 * k + 3) = ((s[4 * k + 3] * 64 + s[4 * k + 4]) \div 1) % 256
<1>1. /\ (8 * ((3*k+1)-1)) \div 6 + 1 = 4*k+1 /\ (8 * ((3*k+1)-1)) % 6 = 0
      /\ (8 * ((3*k+2)-1)) \div 6 + 1 = 4*k+2 /\ (8 * ((3*k+2)-1)) % 6 = 2
      /\ (8 * ((3*k+3)-1)) \div 6 + 1 = 4*k+3 /\ (8 * ((3*k+3)-1)) % 6 = 4
      /\ 4*k+1+1 = 4*k+2 /\ 4*k+2+1 = 4*k+3 /\ 4*k+3+1 = 4*k+4
  OBVIOUS
<1>2. 2^(4 - 0) = 16 /\ 2^(4 - 2) = 4 /\ 2^(4 - 4) = 1
  OBVIOUS
<1> DEFINE C(j, bit) == ((s[j] * 64 + s[j + 1]) \div 2^(4 - bit)) % 256
<1>3. ASSUME NEW i, NEW j, NEW bit, (8 * (i - 1)) \div 6 + 1 = j, (8 * (i - 1)) % 6 = bit
      PROVE  Char(s, i) = C(j, bit)
  BY <1>3 DEF Char
<1>4. /\ Char(s, 3*k+1) = C(4*k+1, 0) /\ Char(s, 3*k+2) = C(4*k+2, 2)
      /\ Char(s, 3*k+3) = C(4*k+3, 4)
  <2> HIDE DEF C
  <2>1. QED BY <1>1, <1>3
<1>5. C(4*k+1, 0) = ((s[4*k+1] * 64 + s[4*k+2]) \div 16) % 256
  <2>1. C(4*k+1, 0) = ((s[4*k+1] * 64 + s[4*k+2]) \div 2^(4 - 0)) % 256
    BY <1>1, Zenon
  <2> HIDE DEF C
  <2>2. QED BY <1>2, <2>1, SMT
<1>6. C(4*k+2, 2) = ((s[4*k+2] * 64 + s[4*k+3]) \div 4) % 256
  <2>1. C(4*k+2, 2) = ((s[4*k+2] * 64 + s[4*k+3]) \div 2^(4 - 2)) % 256
    BY <1>1, Zenon
  <2> HIDE DEF C
  <2>2. QED BY <1>2, <2>1, SMT
<1>7. C(4*k+3, 4) = ((s[4*k+3] * 64 + s[4*k+4]) \div 1) % 256
  <2>1. C(4*k+3, 4) = ((s[4*k+3] * 64 + s[4*k+4]) \div 2^(4 - 4)) % 256
    BY <1>1, Zenon
  <2> HIDE DEF C
  <2>2. QED BY <1>2, <2>1, SMT
<1> HIDE DEF C
<1>8. QED BY <1>4, <1>5, <1>6, <1>7

-----------------------------------------------------------------------------
(* The string of a byte array *)

\* The characters of the string of a byte array.
Chars == Sextets \cup {Comma}

LEMMA LeastNumber ==
  ASSUME NEW T \in SUBSET Nat, T # {}
  PROVE  \E x \in T : \A y \in T : x <= y
<1> DEFINE R == OpToRel(<, Nat)
<1>1. IsWellFoundedOn(R, Nat)
  BY NatLessThanWellFounded
<1>2. \A y, x \in Nat : y < x => <<y, x>> \in R
  BY DEF OpToRel
<1> HIDE DEF R
<1>3. PICK x \in T : \A y \in T : ~ (<<y, x>> \in R)
  BY <1>1, WFMin
<1>4. ASSUME NEW y \in T PROVE x <= y
  <2>1. x \in Nat /\ y \in Nat /\ ~ (y < x)
    BY <1>2, <1>3
  <2>2. QED BY <2>1
<1>5. QED BY <1>4

LEMMA Singletons ==
  ASSUME NEW S, NEW a \in S, NEW b \in S, NEW c \in S
  PROVE  /\ <<>> \o <<>> \o <<a>> = <<a>>
         /\ <<>> \o <<a>> \o <<b>> = <<a, b>>
         /\ <<a>> \o <<b>> \o <<c>> = <<a, b, c>>
<1>1. /\ <<a>> \in Seq(S) /\ <<b>> \in Seq(S) /\ <<c>> \in Seq(S)
      /\ <<a, b>> \in Seq(S) /\ <<a, b, c>> \in Seq(S) /\ <<>> \in Seq(S)
  OBVIOUS
<1>2. <<>> \o <<>> = <<>> /\ <<>> \o <<a>> = <<a>>
  BY <1>1, ConcatEmptySeq
<1>3. <<a>> \o <<b>> = <<a, b>>
  <2>1. /\ <<a>> \o <<b>> \in Seq(S) /\ Len(<<a>> \o <<b>>) = 2
        /\ (<<a>> \o <<b>>)[1] = a /\ (<<a>> \o <<b>>)[2] = b
    BY <1>1, ConcatProperties
  <2>2. \A i \in 1 .. 2 : (<<a>> \o <<b>>)[i] = <<a, b>>[i]
    <3>1. \A i \in 1 .. 2 : i = 1 \/ i = 2
      OBVIOUS
    <3>2. QED BY <2>1, <3>1
  <2>3. Len(<<a, b>>) = 2
    OBVIOUS
  <2>4. QED BY <1>1, <2>1, <2>2, <2>3, SeqEqual
<1>4. <<a, b>> \o <<c>> = <<a, b, c>>
  <2>1. /\ <<a, b>> \o <<c>> \in Seq(S) /\ Len(<<a, b>> \o <<c>>) = 3
        /\ (<<a, b>> \o <<c>>)[1] = a /\ (<<a, b>> \o <<c>>)[2] = b
        /\ (<<a, b>> \o <<c>>)[3] = c
    BY <1>1, ConcatProperties
  <2>2. \A i \in 1 .. 3 : (<<a, b>> \o <<c>>)[i] = <<a, b, c>>[i]
    <3>1. \A i \in 1 .. 3 : i = 1 \/ i = 2 \/ i = 3
      OBVIOUS
    <3>2. QED BY <2>1, <3>1
  <2>3. Len(<<a, b, c>>) = 3
    OBVIOUS
  <2>4. QED BY <1>1, <2>1, <2>2, <2>3, SeqEqual
<1>5. QED BY <1>2, <1>3, <1>4

\* The decimal digits of a byte, by their number.
LEMMA DigitsForms ==
  ASSUME NEW n \in Bytes
  PROVE  \/ n <= 9 /\ Digits(n) = <<52 + n>>
         \/ \E c \in 1 .. 9, d \in 0 .. 9 :
               n = 10 * c + d /\ Digits(n) = <<52 + c, 52 + d>>
         \/ \E c \in 1 .. 2, d \in 0 .. 9, e \in 0 .. 9 :
               n = 100 * c + 10 * d + e /\ Digits(n) = <<52 + c, 52 + d, 52 + e>>
<1> USE DEF Bytes
<1>1. CASE n <= 9
  <2>1. n % 10 = n
    BY <1>1
  <2>2. ~ (n > 99) /\ ~ (n > 9)
    BY <1>1
  <2>3. Digits(n) = <<>> \o <<>> \o <<52 + n>>
    BY <2>1, <2>2, Zenon DEF Digits
  <2>4. 52 + n \in Int
    OBVIOUS
  <2>5. QED BY <1>1, <2>3, <2>4, Singletons
<1>2. CASE n > 9 /\ n <= 99
  <2> DEFINE c == n \div 10
             d == n % 10
  <2>1. c \in 1 .. 9 /\ d \in 0 .. 9 /\ n = 10 * c + d /\ c % 10 = c
    BY <1>2
  <2>2. Digits(n) = <<>> \o <<52 + (c % 10)>> \o <<52 + d>>
    BY <1>2 DEF Digits
  <2> HIDE DEF c, d
  <2>3. <<>> \o <<52 + c>> \o <<52 + d>> = <<52 + c, 52 + d>>
    <3>1. 52 + c \in Int /\ 52 + d \in Int
      BY <2>1
    <3>2. QED BY <3>1, Singletons
  <2>4. Digits(n) = <<52 + c, 52 + d>>
    BY <2>1, <2>2, <2>3
  <2>5. QED BY <2>1, <2>4
<1>3. CASE n > 99
  <2> DEFINE c == n \div 100
             d == (n \div 10) % 10
             e == n % 10
  <2>1. c \in 1 .. 2 /\ d \in 0 .. 9 /\ e \in 0 .. 9
    BY <1>3
  <2>2. n = 100 * c + 10 * d + e
    <3>1. (n \div 10) \div 10 = n \div 100
      OBVIOUS
    <3>2. n \div 10 = 10 * ((n \div 10) \div 10) + ((n \div 10) % 10)
      OBVIOUS
    <3>3. n = 10 * (n \div 10) + (n % 10)
      OBVIOUS
    <3>4. QED BY <3>1, <3>2, <3>3
  <2>3. Digits(n) = <<52 + c>> \o <<52 + d>> \o <<52 + e>>
    BY <1>3 DEF Digits
  <2> HIDE DEF c, d, e
  <2>4. <<52 + c>> \o <<52 + d>> \o <<52 + e>> = <<52 + c, 52 + d, 52 + e>>
    <3>1. 52 + c \in Int /\ 52 + d \in Int /\ 52 + e \in Int
      BY <2>1
    <3>2. QED BY <3>1, Singletons
  <2>5. Digits(n) = <<52 + c, 52 + d, 52 + e>>
    BY <2>3, <2>4
  <2>6. QED BY <2>1, <2>2, <2>5
<1>4. QED BY <1>1, <1>2, <1>3

LEMMA DigitsType ==
  ASSUME NEW n \in Bytes
  PROVE  Digits(n) \in Seq(Chars)
<1>1. \A d \in 0 .. 9 : 52 + d \in Chars
  BY DEF Chars, Sextets
<1>2. CASE n <= 9 /\ Digits(n) = <<52 + n>>
  <2>1. 52 + n \in Chars
    BY <1>1, <1>2 DEF Bytes
  <2>2. QED BY <1>2, <2>1
<1>3. ASSUME NEW c \in 1 .. 9, NEW d \in 0 .. 9, Digits(n) = <<52 + c, 52 + d>>
      PROVE  Digits(n) \in Seq(Chars)
  <2>1. 52 + c \in Chars /\ 52 + d \in Chars
    BY <1>1
  <2>2. QED BY <1>3, <2>1
<1>4. ASSUME NEW c \in 1 .. 2, NEW d \in 0 .. 9, NEW e \in 0 .. 9,
             Digits(n) = <<52 + c, 52 + d, 52 + e>>
      PROVE  Digits(n) \in Seq(Chars)
  <2>1. 52 + c \in Chars /\ 52 + d \in Chars /\ 52 + e \in Chars
    BY <1>1
  <2>2. QED BY <1>4, <2>1
<1>5. QED BY <1>2, <1>3, <1>4, DigitsForms

LEMMA ElementType ==
  ASSUME NEW b \in Seq(Bytes), NEW i \in 1 .. Len(b)
  PROVE  /\ Element(b, i) \in Seq(Chars)
         /\ i = 1 => Element(b, i) = Digits(b[1])
         /\ i # 1 => Len(Element(b, i)) > 0 /\ Element(b, i)[1] = Comma
<1>1. b[i] \in Bytes
  OBVIOUS
<1>2. Digits(b[i]) \in Seq(Chars)
  BY <1>1, DigitsType
<1>3. CASE i = 1
  <2>1. Element(b, i) = <<>> \o Digits(b[i])
    BY <1>3 DEF Element
  <2>2. <<>> \o Digits(b[i]) = Digits(b[i])
    BY <1>2
  <2>3. QED BY <1>2, <1>3, <2>1, <2>2
<1>4. CASE i # 1
  <2>1. Element(b, i) = <<Comma>> \o Digits(b[i])
    BY <1>4 DEF Element
  <2>2. <<Comma>> \in Seq(Chars) /\ Len(<<Comma>>) = 1 /\ <<Comma>>[1] = Comma
    BY DEF Chars
  <2>3. /\ <<Comma>> \o Digits(b[i]) \in Seq(Chars)
        /\ Len(<<Comma>> \o Digits(b[i])) = 1 + Len(Digits(b[i]))
        /\ (<<Comma>> \o Digits(b[i]))[1] = Comma
    BY <1>2, <2>2, ConcatProperties
  <2>4. Len(Digits(b[i])) \in Nat
    BY <1>2
  <2>5. QED BY <1>4, <2>1, <2>3, <2>4
<1>5. QED BY <1>3, <1>4

\* f holds the strings of the first 0 .. n elements.
Grown(b, f, n) ==
    /\ f[0] = <<>>
    /\ \A i \in 1 .. n : f[i] = f[i - 1] \o Element(b, i)

LEMMA GrownExists ==
  ASSUME NEW b \in Seq(Bytes)
  PROVE  \E f \in [0 .. Len(b) -> Seq(Chars)] : Grown(b, f, Len(b))
<1> DEFINE Has(n) == \E f \in [0 .. n -> Seq(Chars)] : Grown(b, f, n)
           T == {n \in 0 .. Len(b) : ~ Has(n)}
<1>1. SUFFICES ASSUME T # {} PROVE FALSE
  OBVIOUS
<1>2. T \in SUBSET Nat
  OBVIOUS
<1> HIDE DEF T
<1>3. PICK n \in T : \A y \in T : n <= y
  BY <1>1, <1>2, LeastNumber
<1>4. n \in 0 .. Len(b) /\ ~ Has(n)
  BY DEF T
<1>5. Has(0)
  <2>1. [i \in 0 .. 0 |-> <<>>] \in [0 .. 0 -> Seq(Chars)]
    OBVIOUS
  <2>2. Grown(b, [i \in 0 .. 0 |-> <<>>], 0)
    BY DEF Grown
  <2>3. QED BY <2>1, <2>2
<1> HIDE DEF Has
<1>6. n \in 1 .. Len(b)
  BY <1>4, <1>5
<1>7. n - 1 \in 0 .. Len(b) /\ n - 1 \notin T
  BY <1>3, <1>4, <1>6
<1>8. Has(n - 1)
  BY <1>7 DEF T
<1>9. PICK f \in [0 .. n - 1 -> Seq(Chars)] : Grown(b, f, n - 1)
  BY <1>8 DEF Has
<1> DEFINE next == f[n - 1] \o Element(b, n)
<1>10. next \in Seq(Chars)
  <2>1. f[n - 1] \in Seq(Chars) /\ Element(b, n) \in Seq(Chars)
    BY <1>6, <1>9, ElementType
  <2>2. QED BY <2>1, ConcatProperties
<1> DEFINE g == [i \in 0 .. n |-> IF i < n THEN f[i] ELSE next]
<1>11. g \in [0 .. n -> Seq(Chars)]
  <2> HIDE DEF next
  <2>1. ASSUME NEW i \in 0 .. n PROVE (IF i < n THEN f[i] ELSE next) \in Seq(Chars)
    <3>1. CASE i < n
      <4>1. i \in 0 .. n - 1
        BY <1>6, <3>1
      <4>2. QED BY <1>9, <3>1, <4>1
    <3>2. CASE ~ (i < n)
      BY <1>10, <3>2
    <3>3. QED BY <3>1, <3>2
  <2>2. QED BY <2>1
<1>12. Grown(b, g, n)
  <2>1. g[0] = <<>>
    BY <1>6, <1>9 DEF Grown
  <2>2. ASSUME NEW i \in 1 .. n PROVE g[i] = g[i - 1] \o Element(b, i)
    <3>1. g[i - 1] = f[i - 1]
      BY <1>6
    <3>2. CASE i = n
      <4>1. g[i] = next
        BY <1>6, <3>2
      <4>2. QED BY <3>1, <3>2, <4>1
    <3>3. CASE i # n
      <4>1. i \in 1 .. n - 1 /\ g[i] = f[i]
        BY <1>6, <3>3
      <4>2. f[i] = f[i - 1] \o Element(b, i)
        BY <1>9, <4>1 DEF Grown
      <4>3. QED BY <3>1, <4>1, <4>2
    <3>4. QED BY <3>2, <3>3
  <2> HIDE DEF g
  <2>3. QED BY <2>1, <2>2 DEF Grown
<1>13. QED
  <2> HIDE DEF g
  <2>1. QED BY <1>4, <1>11, <1>12 DEF Has

\* The string of a byte array is made of digits and commas, is that of its byte
\* if there is one only, and has a comma if there are more.
LEMMA ArrayToStringForms ==
  ASSUME NEW b \in Seq(Bytes)
  PROVE  /\ ArrayToString(b) \in Seq(Chars)
         /\ Len(b) = 0 => ArrayToString(b) = <<>>
         /\ Len(b) = 1 => ArrayToString(b) = Digits(b[1])
         /\ Len(b) > 1 => \E j \in 1 .. Len(ArrayToString(b)) :
                             ArrayToString(b)[j] = Comma
<1> DEFINE n == Len(b)
           body(f) == [i \in 0 .. n |-> IF i = 0 THEN <<>> ELSE f[i - 1] \o Element(b, i)]
           text == CHOOSE f : f = body(f)
<1>1. ArrayToString(b) = text[n]
  BY DEF ArrayToString
<1>2. \E f : f = body(f)
  <2>1. PICK f \in [0 .. n -> Seq(Chars)] : Grown(b, f, n)
    BY GrownExists
  <2>2. \A i \in 0 .. n : f[i] = IF i = 0 THEN <<>> ELSE f[i - 1] \o Element(b, i)
    <3> HIDE DEF n
    <3>1. \A i \in 0 .. n : i = 0 \/ i \in 1 .. n
      OBVIOUS
    <3>2. QED BY <2>1, <3>1 DEF Grown
  <2>3. f = [i \in 0 .. n |-> f[i]]
    BY <2>1
  <2>4. f = body(f)
    BY <2>2, <2>3
  <2>5. QED BY <2>4
<1>3. text = body(text)
  <2> HIDE DEF body
  <2>1. QED BY <1>2, Zenon
<1> HIDE DEF text
<1>4. n \in Nat
  OBVIOUS
<1>5. /\ text[0] = <<>>
      /\ \A i \in 1 .. n : text[i] = text[i - 1] \o Element(b, i)
  <2>1. \A i \in 0 .. n : text[i] = IF i = 0 THEN <<>> ELSE text[i - 1] \o Element(b, i)
    BY <1>3
  <2> HIDE DEF n, body
  <2>2. 0 \in 0 .. n /\ \A i \in 1 .. n : i \in 0 .. n /\ i # 0
    BY <1>4
  <2>3. QED BY <2>1, <2>2
<1> HIDE DEF body, n
<1>6. \A i \in 0 .. n : text[i] \in Seq(Chars)
  <2> DEFINE T == {i \in 0 .. n : text[i] \notin Seq(Chars)}
  <2>1. SUFFICES ASSUME T # {} PROVE FALSE
    OBVIOUS
  <2>2. T \in SUBSET Nat
    OBVIOUS
  <2> HIDE DEF T
  <2>3. PICK i \in T : \A y \in T : i <= y
    BY <2>1, <2>2, LeastNumber
  <2>4. i \in 0 .. n /\ text[i] \notin Seq(Chars)
    BY DEF T
  <2>5. i # 0
    <3>1. text[0] \in Seq(Chars)
      BY <1>5, EmptySeq
    <3>2. QED BY <2>4, <3>1
  <2>6. i - 1 \in 0 .. n /\ i - 1 \notin T
    <3>1. i \in Nat /\ i - 1 \in 0 .. n /\ ~ (i <= i - 1)
      BY <1>4, <2>4, <2>5
    <3>2. QED BY <2>3, <3>1
  <2>7. text[i - 1] \in Seq(Chars)
    BY <2>6 DEF T
  <2>8. i \in 1 .. Len(b)
    BY <2>4, <2>5 DEF n
  <2>9. Element(b, i) \in Seq(Chars)
    BY <2>8, ElementType
  <2>10. text[i - 1] \o Element(b, i) \in Seq(Chars)
    BY <2>7, <2>9, ConcatProperties
  <2>11. text[i] = text[i - 1] \o Element(b, i)
    BY <1>5, <2>8 DEF n
  <2>12. QED BY <2>4, <2>10, <2>11
<1>7. n = 1 => text[n] = Digits(b[1])
  <2>1. SUFFICES ASSUME n = 1 PROVE text[n] = Digits(b[1])
    OBVIOUS
  <2>2. text[1] = <<>> \o Element(b, 1)
    <3>1. 1 \in 1 .. n /\ 1 - 1 = 0
      BY <2>1
    <3>2. text[1] = text[1 - 1] \o Element(b, 1)
      BY <1>5, <3>1
    <3>3. QED BY <1>5, <3>1, <3>2
  <2>3. Element(b, 1) \in Seq(Chars) /\ Element(b, 1) = Digits(b[1])
    BY <2>1, ElementType DEF n
  <2>4. <<>> \o Element(b, 1) = Element(b, 1)
    BY <2>3, ConcatEmptySeq
  <2>5. QED BY <2>1, <2>2, <2>3, <2>4
<1>8. n > 1 => \E j \in 1 .. Len(text[n]) : text[n][j] = Comma
  <2>1. SUFFICES ASSUME n > 1 PROVE \E j \in 1 .. Len(text[n]) : text[n][j] = Comma
    OBVIOUS
  <2>2. n \in 1 .. n /\ n # 1 /\ n - 1 \in 0 .. n
    BY <1>4, <2>1
  <2>3. text[n] = text[n - 1] \o Element(b, n)
    BY <1>5, <2>2
  <2>4. /\ Element(b, n) \in Seq(Chars) /\ Len(Element(b, n)) > 0
        /\ Element(b, n)[1] = Comma
    BY <2>2, ElementType DEF n
  <2>5. text[n - 1] \in Seq(Chars)
    BY <1>6, <2>2
  <2> DEFINE s == text[n - 1]
             e == Element(b, n)
  <2> HIDE DEF s, e
  <2>6. /\ Len(s \o e) = Len(s) + Len(e)
        /\ \A i \in 1 .. Len(s) + Len(e) :
              (s \o e)[i] = IF i <= Len(s) THEN s[i] ELSE e[i - Len(s)]
    BY <2>4, <2>5, ConcatProperties DEF s, e
  <2>7. Len(s) \in Nat /\ Len(e) \in Nat /\ Len(e) > 0 /\ e[1] = Comma
    BY <2>4, <2>5 DEF s, e
  <2>8. /\ Len(s) + 1 \in 1 .. Len(s \o e)
        /\ (s \o e)[Len(s) + 1] = Comma
    BY <2>6, <2>7
  <2>9. QED BY <2>3, <2>8 DEF s, e
<1>9. n \in 0 .. n
  BY <1>4
<1>10. QED BY <1>1, <1>5, <1>6, <1>7, <1>8, <1>9 DEF n

\* Without "=" nothing is taken off.
LEMMA NoPads ==
  ASSUME NEW text \in Seq(Chars)
  PROVE  Stripped(text) = text
<1>1. Pads(text) = 0
  <2>1. Pad \notin Chars
    BY DEF Pad, Comma, Chars, Sextets
  <2>2. Len(text) = 0 \/ Len(text) \in 1 .. Len(text)
    OBVIOUS
  <2>3. Len(text) = 0 \/ text[Len(text)] # Pad
    BY <2>1, <2>2
  <2>4. QED BY <2>3 DEF Pads
<1>2. Len(text) \in Nat /\ Len(text) - 0 = Len(text)
  OBVIOUS
<1>3. SubSeq(text, 1, Len(text)) = text
  BY <1>2
<1>4. QED BY <1>1, <1>2, <1>3 DEF Stripped

LEMMA CharType ==
  ASSUME NEW s \in Seq(Nat), NEW i \in 1 .. ((6 * Len(s)) \div 8)
  PROVE  Char(s, i) \in Bytes
<1> DEFINE m == Len(s)
<1>1. m \in Nat /\ 1 .. m = DOMAIN s
  OBVIOUS
<1>2. 8 * i <= 6 * m
  <2> HIDE DEF m
  <2>1. 8 * ((6 * m) \div 8) <= 6 * m
    BY <1>1
  <2>2. (6 * m) \div 8 \in Nat
    BY <1>1
  <2>3. i \in 1 .. ((6 * m) \div 8)
    BY DEF m
  <2>4. QED BY <1>1, <2>1, <2>2, <2>3
<1>3. PICK k \in Nat, r \in 1 .. 3 : i = 3 * k + r
  <2>1. /\ (i - 1) \div 3 \in Nat /\ (i - 1) % 3 \in 0 .. 2
        /\ i - 1 = 3 * ((i - 1) \div 3) + ((i - 1) % 3)
    OBVIOUS
  <2>2. i = 3 * ((i - 1) \div 3) + (((i - 1) % 3) + 1) /\ ((i - 1) % 3) + 1 \in 1 .. 3
    BY <2>1
  <2>3. QED BY <2>1, <2>2
<1>4. ASSUME NEW j \in 1 .. m, j + 1 <= m
      PROVE  s[j] * 64 + s[j + 1] \in Nat
  <2>1. j + 1 \in 1 .. m
    BY <1>1, <1>4
  <2>2. s[j] \in Nat /\ s[j + 1] \in Nat
    BY <2>1
  <2>3. \A x, y \in Nat : x * 64 + y \in Nat
    OBVIOUS
  <2>4. QED BY <2>2, <2>3, Zenon
<1>5. ASSUME NEW v \in Nat, NEW d \in {16, 4, 1}
      PROVE  (v \div d) % 256 \in Bytes
  <2>1. v \div d \in Nat
    BY <1>5
  <2>2. QED BY <2>1 DEF Bytes
<1>6. CASE r = 1
  <2>1. 4*k+1 \in 1 .. m /\ 4*k+1+1 <= m /\ 4*k+1+1 = 4*k+2
    BY <1>1, <1>2, <1>3, <1>6
  <2>2. s[4*k+1] * 64 + s[4*k+2] \in Nat
    BY <1>4, <2>1
  <2>3. ((s[4*k+1] * 64 + s[4*k+2]) \div 16) % 256 \in Bytes
    BY <1>5, <2>2
  <2>4. QED BY <1>3, <1>6, <2>3, CharForms
<1>7. CASE r = 2
  <2>1. 4*k+2 \in 1 .. m /\ 4*k+2+1 <= m /\ 4*k+2+1 = 4*k+3
    BY <1>1, <1>2, <1>3, <1>7
  <2>2. s[4*k+2] * 64 + s[4*k+3] \in Nat
    BY <1>4, <2>1
  <2>3. ((s[4*k+2] * 64 + s[4*k+3]) \div 4) % 256 \in Bytes
    BY <1>5, <2>2
  <2>4. QED BY <1>3, <1>7, <2>3, CharForms
<1>8. CASE r = 3
  <2>1. 4*k+3 \in 1 .. m /\ 4*k+3+1 <= m /\ 4*k+3+1 = 4*k+4
    BY <1>1, <1>2, <1>3, <1>8
  <2>2. s[4*k+3] * 64 + s[4*k+4] \in Nat
    BY <1>4, <2>1
  <2>3. ((s[4*k+3] * 64 + s[4*k+4]) \div 1) % 256 \in Bytes
    BY <1>5, <2>2
  <2>4. QED BY <1>3, <1>8, <2>3, CharForms
<1>9. QED BY <1>3, <1>6, <1>7, <1>8

LEMMA AtobType ==
  ASSUME NEW text \in Seq(Chars)
  PROVE  /\ Atob(text) \in Seq(Bytes)
         /\ Len(Atob(text)) = (6 * Len(text)) \div 8
         /\ Atob(text) = [i \in 1 .. ((6 * Len(text)) \div 8) |-> Char(text, i)]
<1> DEFINE n == (6 * Len(text)) \div 8
<1>1. Atob(text) = [i \in 1 .. n |-> Char(text, i)]
  BY NoPads DEF Atob, Char
<1>2. text \in Seq(Nat)
  <2>1. Chars \subseteq Nat
    BY DEF Chars, Sextets, Comma
  <2>2. QED BY <2>1, SeqMonotonic
<1>3. \A i \in 1 .. n : Char(text, i) \in Bytes
  BY <1>2, CharType
<1>4. n \in Nat
  <2>1. Len(text) \in Nat
    OBVIOUS
  <2> DEFINE l == Len(text)
  <2> HIDE DEF l
  <2>2. (6 * l) \div 8 \in Nat
    BY <2>1 DEF l
  <2>3. QED BY <2>2 DEF l
<1> HIDE DEF n
<1>5. [i \in 1 .. n |-> Char(text, i)] \in Seq(Bytes)
  BY <1>3, <1>4
<1>6. Len([i \in 1 .. n |-> Char(text, i)]) = n
  BY <1>4
<1>7. QED BY <1>1, <1>5, <1>6 DEF n

LEMMA ByteArrayIsIdentity ==
  ASSUME NEW chars \in Seq(Bytes)
  PROVE  ByteArray(chars) = chars
  BY DEF ByteArray

\* A byte array is never decoded to its own bytes.
LEMMA ArrayIsNotDecoded ==
  ASSUME NEW b \in Seq(Bytes), b # <<>>
  PROVE  \/ AtobThrows(ArrayToString(b))
         \/ Atob(ArrayToString(b)) # b
<1> DEFINE text == ArrayToString(b)
<1>1. text \in Seq(Chars) /\ Stripped(text) = text
  BY ArrayToStringForms, NoPads
<1>2. Len(b) \in Nat /\ Len(b) # 0
  BY EmptySeq
<1>3. CASE Len(b) > 1
  <2>1. PICK j \in 1 .. Len(text) : text[j] = Comma
    BY <1>3, ArrayToStringForms
  <2> HIDE DEF text
  <2>2. j \in DOMAIN Stripped(text) /\ Stripped(text)[j] > 63
    BY <1>1, <2>1 DEF Comma
  <2>3. AtobThrows(text)
    BY <2>2 DEF AtobThrows
  <2>4. QED BY <2>3 DEF text
<1>4. CASE Len(b) = 1
  <2> DEFINE n == b[1]
  <2>1. n \in Bytes /\ text = Digits(n)
    BY <1>4, ArrayToStringForms
  <2> HIDE DEF text, n
  <2>2. CASE Digits(n) = <<52 + n>>
    <3>1. Len(Stripped(text)) = 1
      BY <1>1, <2>1, <2>2
    <3>2. AtobThrows(text)
      BY <3>1 DEF AtobThrows
    <3>3. QED BY <3>2 DEF text
  <2>3. ASSUME NEW c \in 1 .. 9, NEW d \in 0 .. 9, n = 10 * c + d,
               Digits(n) = <<52 + c, 52 + d>>
        PROVE  Atob(text) # b
    <3>1. Len(text) = 2 /\ text[1] = 52 + c /\ text[2] = 52 + d
      BY <2>1, <2>3
    <3>2. (6 * Len(text)) \div 8 = 1
      BY <3>1
    <3>3. Atob(text) = [i \in 1 .. 1 |-> Char(text, i)]
      BY <1>1, <3>2, AtobType
    <3>4. Atob(text)[1] = Char(text, 1)
      BY <3>3
    <3>5. Char(text, 1) = ((text[1] * 64 + text[2]) \div 16) % 256
      <4>1. 3 * 0 + 1 = 1 /\ 4 * 0 + 1 = 1 /\ 4 * 0 + 2 = 2 /\ 0 \in Nat
        OBVIOUS
      <4>2. Char(text, 3 * 0 + 1) = ((text[4 * 0 + 1] * 64 + text[4 * 0 + 2]) \div 16) % 256
        BY <4>1, CharForms
      <4>3. QED BY <4>1, <4>2
    <3>6. (((52 + c) * 64 + (52 + d)) \div 16) % 256 > 99
      OBVIOUS
    <3>7. n <= 99
      BY <2>3
    <3>8. QED BY <2>1, <3>1, <3>4, <3>5, <3>6, <3>7 DEF n, Bytes
  <2>4. ASSUME NEW c \in 1 .. 2, NEW d \in 0 .. 9, NEW e \in 0 .. 9,
               Digits(n) = <<52 + c, 52 + d, 52 + e>>
        PROVE  Atob(text) # b
    <3>1. Len(text) = 3
      BY <2>1, <2>4
    <3>2. (6 * Len(text)) \div 8 = 2
      BY <3>1
    <3>3. Len(Atob(text)) = 2
      BY <1>1, <3>2, AtobType
    <3>4. QED BY <1>4, <3>3
  <2>5. \/ Digits(n) = <<52 + n>>
        \/ \E c \in 1 .. 9, d \in 0 .. 9 :
              n = 10 * c + d /\ Digits(n) = <<52 + c, 52 + d>>
        \/ \E c \in 1 .. 2, d \in 0 .. 9, e \in 0 .. 9 :
              n = 100 * c + 10 * d + e /\ Digits(n) = <<52 + c, 52 + d, 52 + e>>
    BY <2>1, DigitsForms, Zenon
  <2>6. AtobThrows(text) \/ Atob(text) # b
    BY <2>2, <2>3, <2>4, <2>5, Zenon DEF text
  <2>7. QED BY <2>6 DEF text
<1>5. Len(b) = 1 \/ Len(b) > 1
  <2>1. \A l \in Nat : l # 0 => l = 1 \/ l > 1
    OBVIOUS
  <2>2. QED BY <1>2, <2>1, Zenon
<1>6. QED BY <1>3, <1>4, <1>5, Zenon

-----------------------------------------------------------------------------
(* The saved download *)

LEMMA ArgumentForms ==
  ASSUME NEW c \in Contents, ~ AtobThrows(Argument(c))
  PROVE  ByteArray(Atob(Argument(c))) \in Seq(Bytes)
<1>1. c \in Seq(Bytes)
  BY HelpersAssumption DEF Bytes
<1>2. Atob(Argument(c)) \in Seq(Bytes)
  BY <1>1, ArrayToStringForms, AtobType DEF Argument
<1>3. QED BY <1>2, ByteArrayIsIdentity

\* Only a download writes saved.
LEMMA SavedUnchanged ==
  ASSUME [Next]_vars
  PROVE  UNCHANGED saved \/ \E c \in Contents : DownloadFile(c)
  BY DEF Next, vars, InitializeFileDropZone, DragOver, DragLeave, Drop,
     ShowToast, ToastShown, HideToast, ToastHidden, PointerEnters, PointerLeaves,
     CloseToast, AnimateSecurityBadges, AnimateBadge, SimulateUploadProgress, Tick,
     CancelProgress

LEMMA DownloadForms ==
  ASSUME NEW c, DownloadFile(c)
  PROVE  /\ saved'.content = c
         /\ \/ /\ AtobThrows(Argument(c))
               /\ saved'.outcome = "threw" /\ saved'.blob = <<>>
            \/ /\ ~ AtobThrows(Argument(c))
               /\ saved'.outcome = "saved"
               /\ saved'.blob = ByteArray(Atob(Argument(c)))
  BY DEF DownloadFile

SavedOK ==
    /\ saved.content \in Contents \cup {<<>>}
    /\ saved.outcome \in {"none", "saved", "threw"}
    /\ saved.blob \in Seq(0..255)

LEMMA SavedStep ==
  ASSUME SavedOK, [Next]_vars
  PROVE  SavedOK'
<1>1. CASE UNCHANGED saved
  BY <1>1 DEF SavedOK
<1>2. ASSUME NEW c \in Contents, DownloadFile(c) PROVE SavedOK'
  <2>1. saved'.blob \in Seq(Bytes)
    BY <1>2, DownloadForms, ArgumentForms, EmptySeq
  <2>2. saved'.content = c /\ saved'.outcome \in {"saved", "threw"}
    BY <1>2, DownloadForms
  <2>3. QED BY <2>1, <2>2 DEF SavedOK, Bytes
<1>3. QED BY <1>1, <1>2, SavedUnchanged

-----------------------------------------------------------------------------
(* Types *)

\* The toasts, the badges, the zone and the simulation.
RestOK ==
    /\ children \subseteq Toasts
    /\ toast \in [Toasts -> {"none", "showing", "shown", "hiding", "hidden"}]
    /\ armed \in [Toasts -> BOOLEAN]
    /\ hover \in [Toasts -> BOOLEAN]
    /\ sim \in [state: {"none", "running", "ended", "cancelled"},
                duration: Durations \cup {0}, ticks: Nat, report: 0..100]
    /\ animated \in 0..Badges
    /\ {scheduled, listening, dragging, highlight} \subseteq BOOLEAN

LEMMA RestStep ==
  ASSUME RestOK, [Next]_vars
  PROVE  RestOK'
<1> USE DEF RestOK, toastVars, zoneVars, badgeVars
<1>1. ASSUME NEW c \in Contents, DownloadFile(c) PROVE RestOK'
  BY <1>1 DEF DownloadFile
<1>2. CASE InitializeFileDropZone \/ DragOver \/ DragLeave \/ Drop
  BY <1>2 DEF InitializeFileDropZone, DragOver, DragLeave, Drop
<1>3. ASSUME NEW t \in Toasts, ShowToast(t) \/ ToastShown(t) \/ HideToast(t)
      PROVE  RestOK'
  BY <1>3 DEF ShowToast, ToastShown, HideToast
<1>4. ASSUME NEW t \in Toasts, ToastHidden(t) PROVE RestOK'
  BY <1>4 DEF ToastHidden
<1>5. ASSUME NEW t \in Toasts, PointerEnters(t) \/ CloseToast(t) PROVE RestOK'
  BY <1>5 DEF PointerEnters, CloseToast
<1>6. ASSUME NEW t \in Toasts, PointerLeaves(t) PROVE RestOK'
  BY <1>6 DEF PointerLeaves
<1>7. CASE AnimateSecurityBadges
  BY <1>7 DEF AnimateSecurityBadges
<1>8. CASE AnimateBadge
  <2>1. animated + 1 \in 0 .. Badges
    <3>1. Badges \in Nat /\ animated \in 0 .. Badges /\ animated < Badges
      BY <1>8, HelpersAssumption DEF AnimateBadge
    <3>2. QED BY <3>1
  <2>2. QED BY <1>8, <2>1 DEF AnimateBadge
<1>9. ASSUME NEW d \in Durations, SimulateUploadProgress(d) PROVE RestOK'
  BY <1>9 DEF SimulateUploadProgress
<1>10. CASE Tick
  <2>1. sim.ticks + 1 \in Nat /\ sim.duration \in Nat
    <3>1. sim.ticks \in Nat /\ sim.duration \in Durations \cup {0}
      OBVIOUS
    <3>2. \A d \in Durations \cup {0} : d \in Nat
      BY HelpersAssumption
    <3>3. sim.duration \in Nat
      BY <3>1, <3>2, Zenon
    <3>4. \A n \in Nat : n + 1 \in Nat
      OBVIOUS
    <3>5. QED BY <3>1, <3>3, <3>4, Zenon
  <2>2. \E full \in BOOLEAN : \E n \in 0 .. 100 :
           sim' = [sim EXCEPT !.ticks = sim.ticks + 1, !.report = n,
                              !.state = IF full THEN "ended" ELSE @]
    <3>1. PICK full \in BOOLEAN : \E n \in Report(full, sim.ticks + 1, sim.duration) :
             sim' = [sim EXCEPT !.ticks = sim.ticks + 1, !.report = n,
                                !.state = IF full THEN "ended" ELSE @]
      BY <1>10 DEF Tick, Advance
    <3>2. PICK n \in Report(full, sim.ticks + 1, sim.duration) :
             sim' = [sim EXCEPT !.ticks = sim.ticks + 1, !.report = n,
                                !.state = IF full THEN "ended" ELSE @]
      BY <3>1
    <3>3. n \in 0 .. 100
      BY ReportBound
    <3>4. QED BY <3>2, <3>3, Zenon
  <2>3. sim' \in [state: {"none", "running", "ended", "cancelled"},
                  duration: Durations \cup {0}, ticks: Nat, report: 0..100]
    BY <2>1, <2>2
  <2>4. QED BY <1>10, <2>3 DEF Tick
<1>11. CASE CancelProgress
  BY <1>11 DEF CancelProgress
<1>12. CASE UNCHANGED vars
  BY <1>12 DEF vars
<1>13. QED
  BY <1>1, <1>2, <1>3, <1>4, <1>5, <1>6, <1>7, <1>8, <1>9, <1>10, <1>11, <1>12 DEF Next

\* The types of the helpers' state; whatever is saved is a sequence of bytes.
THEOREM TypeCorrect == Spec => []TypeOK
<1>1. TypeOK <=> RestOK /\ SavedOK
  BY DEF TypeOK, RestOK, SavedOK
<1>2. Init => RestOK /\ SavedOK
  <2>1. Badges \in Nat /\ <<>> \in Seq(0..255)
    BY HelpersAssumption, EmptySeq
  <2>2. SUFFICES ASSUME Init PROVE RestOK /\ SavedOK
    OBVIOUS
  <2>3. SavedOK
    BY <2>1, <2>2 DEF Init, SavedOK
  <2>4. RestOK
    <3>1. animated \in 0 .. Badges
      BY <2>1, <2>2 DEF Init
    <3>2. sim \in [state: {"none", "running", "ended", "cancelled"},
                   duration: Durations \cup {0}, ticks: Nat, report: 0..100]
      BY <2>2 DEF Init
    <3>3. {scheduled, listening, dragging, highlight} \subseteq BOOLEAN
      BY <2>2 DEF Init
    <3>4. /\ children \subseteq Toasts
          /\ toast \in [Toasts -> {"none", "showing", "shown", "hiding", "hidden"}]
          /\ armed \in [Toasts -> BOOLEAN]
          /\ hover \in [Toasts -> BOOLEAN]
      BY <2>2 DEF Init
    <3>5. QED BY <3>1, <3>2, <3>3, <3>4 DEF RestOK
  <2>5. QED BY <2>3, <2>4
<1>3. RestOK /\ SavedOK /\ [Next]_vars => (RestOK /\ SavedOK)'
  BY RestStep, SavedStep
<1>4. QED BY <1>1, <1>2, <1>3, PTL DEF Spec

-----------------------------------------------------------------------------
(* What is saved *)

\* downloadFile saves no content but the empty one as it was: what is saved for
\* any other is nothing, or something else (downloadFile, fileHelpers.js).
THEOREM ByteArrayDownloadsFail ==
  Spec => [](saved.blob = saved.content => saved.content = <<>>)
<1> DEFINE OnlyEmpty == saved.blob = saved.content => saved.content = <<>>
<1>1. Init => OnlyEmpty
  BY DEF Init
<1>2. OnlyEmpty /\ [Next]_vars => OnlyEmpty'
  <2>1. SUFFICES ASSUME OnlyEmpty, [Next]_vars PROVE OnlyEmpty'
    OBVIOUS
  <2>2. CASE UNCHANGED saved
    BY <2>1, <2>2
  <2>3. ASSUME NEW c \in Contents, DownloadFile(c) PROVE OnlyEmpty'
    <3>1. c \in Seq(Bytes)
      BY HelpersAssumption DEF Bytes
    <3>2. Argument(c) = ArrayToString(c)
      BY DEF Argument
    <3>3. c = <<>> \/ AtobThrows(Argument(c)) \/ Atob(Argument(c)) # c
      BY <3>1, <3>2, ArrayIsNotDecoded
    <3>4. ~ AtobThrows(Argument(c)) =>
             ByteArray(Atob(Argument(c))) = Atob(Argument(c))
      BY <3>1, <3>2, ArrayToStringForms, AtobType, ByteArrayIsIdentity
    <3>5. QED BY <2>3, <3>3, <3>4, DownloadForms
  <2>4. QED BY <2>1, <2>2, <2>3, SavedUnchanged
<1>3. QED BY <1>1, <1>2, PTL DEF Spec
=============================================================================
