----------------------------- MODULE FileHelpers -----------------------------
(***************************************************************************)
(* wwwroot/js/fileHelpers.js.  The file list calls downloadFile and the    *)
(* login page showToast; the two modal functions are in ShareDialog, with  *)
(* the handlers that call them.  The drop zone, the badges and the upload  *)
(* progress are offered to the pages, and none calls them yet.  A function *)
(* runs to completion; between two of them the event loop may run any      *)
(* timer, transition end or pointer event.                                 *)
(***************************************************************************)
EXTENDS Integers, Sequences

CONSTANTS
    Toasts,      \* calls of showToast
    Badges,      \* number of elements matching .security-badges .badge
    Durations,   \* durations passed to simulateUploadProgress, in ms
    Contents     \* file contents, as sequences of bytes

\* Some 11 hours.  Adding an increment is off by 2^-47 at most; up to this
\* duration all of that is less than half of 1/d, the least distance of an exact
\* sum from a half or a whole number that it does not equal.
Precise == 40000000

ASSUME HelpersAssumption ==
    /\ Badges \in Nat
    /\ Durations \subseteq 0..Precise
    /\ Contents \subseteq Seq(0..255)

VARIABLES
    children,    \* the toast elements in .toast-container
    toast,       \* the state Bootstrap keeps each toast in
    armed,       \* its autohide timer is running
    hover,       \* the pointer is over it
    sim,         \* simulateUploadProgress: its interval and what it reported
    animated,    \* badges whose animation has been set
    scheduled,   \* animateSecurityBadges has been called
    listening,   \* initializeFileDropZone has found its two elements
    dragging,    \* files are being dragged over the drop zone
    highlight,   \* the drop zone has the class drag-over
    saved        \* the last download: its content and the blob saved for it

toastVars == <<children, toast, armed, hover>>
zoneVars  == <<listening, dragging, highlight>>
badgeVars == <<animated, scheduled>>
vars == <<toastVars, sim, badgeVars, zoneVars, saved>>

\* The interval of setInterval, in ms.
Interval == 50

TypeOK ==
    /\ children \subseteq Toasts
    /\ toast \in [Toasts -> {"none", "showing", "shown", "hiding", "hidden"}]
    /\ armed \in [Toasts -> BOOLEAN]
    /\ hover \in [Toasts -> BOOLEAN]
    /\ sim \in [state: {"none", "running", "ended", "cancelled"},
                duration: Durations \cup {0}, ticks: Nat, report: 0..100]
    /\ animated \in 0..Badges
    /\ {scheduled, listening, dragging, highlight} \subseteq BOOLEAN
    /\ saved.content \in Contents \cup {<<>>}
    /\ saved.outcome \in {"none", "saved", "threw"}
    /\ saved.blob \in Seq(0..255)

Init ==
    /\ children = {}
    /\ toast = [t \in Toasts |-> "none"]
    /\ armed = [t \in Toasts |-> FALSE]
    /\ hover = [t \in Toasts |-> FALSE]
    /\ sim = [state |-> "none", duration |-> 0, ticks |-> 0, report |-> 0]
    /\ animated = 0
    /\ scheduled = FALSE
    /\ listening = FALSE
    /\ dragging = FALSE
    /\ highlight = FALSE
    /\ saved = [content |-> <<>>, outcome |-> "none", blob |-> <<>>]

-----------------------------------------------------------------------------
(* Strings: 0..63 are the symbols of the base64 alphabet by their value     *)

Pad   == 64    \* the symbol "="
Comma == 65

\* The decimal digits of a byte; the digit 0 has the base64 value 52.
Digits(n) ==
    (IF n > 99 THEN <<52 + n \div 100>> ELSE <<>>)
        \o (IF n > 9 THEN <<52 + ((n \div 10) % 10)>> ELSE <<>>)
        \o <<52 + (n % 10)>>

\* What element i adds to the string of a Uint8Array.
Element(b, i) == (IF i = 1 THEN <<>> ELSE <<Comma>>) \o Digits(b[i])

\* A Uint8Array as a string: its elements, separated by commas.
ArrayToString(b) ==
    LET text[i \in 0 .. Len(b)] ==
            IF i = 0 THEN <<>> ELSE text[i - 1] \o Element(b, i)
    IN  text[Len(b)]

\* What atob is given: the page passes a byte[], which .NET 8 marshals as a
\* Uint8Array.
Argument(content) == ArrayToString(content)

\* One or two "=" after whole groups of four are taken off.
Pads(text) ==
    LET n == Len(text)
    IN  IF n = 0 \/ n % 4 # 0 \/ text[n] # Pad THEN 0
        ELSE IF text[n - 1] # Pad THEN 1 ELSE 2

Stripped(text) == SubSeq(text, 1, Len(text) - Pads(text))

\* atob throws on a symbol outside the alphabet and on a last group of one.
AtobThrows(text) ==
    \/ \E j \in DOMAIN Stripped(text) : Stripped(text)[j] > 63
    \/ Len(Stripped(text)) % 4 = 1

\* atob: eight bits of the symbols for each character; bits left over are dropped.
Atob(text) ==
    [i \in 1 .. ((6 * Len(Stripped(text))) \div 8) |->
        LET j == (8 * (i - 1)) \div 6 + 1
        IN  ((Stripped(text)[j] * 64 + Stripped(text)[j + 1])
                \div 2^(4 - ((8 * (i - 1)) % 6))) % 256]

-----------------------------------------------------------------------------
(* downloadFile *)

\* The Uint8Array filled with the character codes of the decoded string.
ByteArray(chars) == [i \in 1 .. Len(chars) |-> chars[i]]

\* The object URL and the link are made, clicked and removed in one go; when
\* atob throws there is none of them.
DownloadFile(content) ==
    /\ saved' = IF AtobThrows(Argument(content))
                THEN [content |-> content, outcome |-> "threw", blob |-> <<>>]
                ELSE [content |-> content, outcome |-> "saved",
                      blob |-> ByteArray(Atob(Argument(content)))]
    /\ UNCHANGED <<toastVars, sim, badgeVars, zoneVars>>

-----------------------------------------------------------------------------
(* initializeFileDropZone *)

\* Both elements exist, otherwise the function returns; it is called once for
\* a zone, since every call adds its listeners again.
InitializeFileDropZone ==
    /\ ~listening
    /\ listening' = TRUE
    /\ UNCHANGED <<toastVars, sim, badgeVars, dragging, highlight, saved>>

\* The browser fires dragover all the time files are held over the zone.
DragOver ==
    /\ dragging' = TRUE
    /\ highlight' = (listening \/ highlight)
    /\ UNCHANGED <<toastVars, sim, badgeVars, listening, saved>>

\* The drag leaves the zone for good, or is given up.
DragLeave ==
    /\ dragging
    /\ dragging' = FALSE
    /\ highlight' = FALSE
    /\ UNCHANGED <<toastVars, sim, badgeVars, listening, saved>>

\* mutant: a drop leaves the class on the zone
Drop_highlighted ==
    /\ dragging
    /\ dragging' = FALSE
    /\ UNCHANGED <<toastVars, sim, badgeVars, listening, highlight, saved>>

\* The files go to the file input, whose change event the page handles
\* (OnFileSelected in FileManager).
Drop ==
    /\ dragging
    /\ dragging' = FALSE
    /\ highlight' = FALSE
    /\ UNCHANGED <<toastVars, sim, badgeVars, listening, saved>>

-----------------------------------------------------------------------------
(* showToast; the states are those of bootstrap.Toast *)

ShowToast(t) ==
    /\ toast[t] = "none"
    /\ children' = children \cup {t}
    /\ toast' = [toast EXCEPT ![t] = "showing"]
    /\ UNCHANGED <<armed, hover, sim, badgeVars, zoneVars, saved>>

\* The fade is over: with autohide the 5 s begin, unless the pointer is there.
ToastShown(t) ==
    /\ toast[t] = "showing"
    /\ toast' = [toast EXCEPT ![t] = "shown"]
    /\ armed' = [armed EXCEPT ![t] = ~hover[t]]
    /\ UNCHANGED <<children, hover, sim, badgeVars, zoneVars, saved>>

PointerEnters(t) ==
    /\ toast[t] \in {"showing", "shown"} /\ ~hover[t]
    /\ hover' = [hover EXCEPT ![t] = TRUE]
    /\ armed' = [armed EXCEPT ![t] = FALSE]
    /\ UNCHANGED <<children, toast, sim, badgeVars, zoneVars, saved>>

PointerLeaves(t) ==
    /\ hover[t]
    /\ hover' = [hover EXCEPT ![t] = FALSE]
    /\ armed' = [armed EXCEPT ![t] = toast[t] = "shown"]
    /\ UNCHANGED <<children, toast, sim, badgeVars, zoneVars, saved>>

\* The 5 s are over, or the close button (data-bs-dismiss) is pressed.
HideToast(t) ==
    /\ toast[t] = "shown" /\ armed[t]
    /\ toast' = [toast EXCEPT ![t] = "hiding"]
    /\ armed' = [armed EXCEPT ![t] = FALSE]
    /\ UNCHANGED <<children, hover, sim, badgeVars, zoneVars, saved>>

CloseToast(t) ==
    /\ toast[t] \in {"showing", "shown"}
    /\ toast' = [toast EXCEPT ![t] = "hiding"]
    /\ UNCHANGED <<children, armed, hover, sim, badgeVars, zoneVars, saved>>

\* mutant: nothing listens for hidden.bs.toast
ToastHidden_kept(t) ==
    /\ toast[t] = "hiding"
    /\ toast' = [toast EXCEPT ![t] = "hidden"]
    /\ UNCHANGED <<children, armed, hover, sim, badgeVars, zoneVars, saved>>

\* hidden.bs.toast: the listener takes the element out of the container.
ToastHidden(t) ==
    /\ toast[t] = "hiding"
    /\ toast' = [toast EXCEPT ![t] = "hidden"]
    /\ children' = children \ {t}
    /\ hover' = [hover EXCEPT ![t] = FALSE]
    /\ UNCHANGED <<armed, sim, badgeVars, zoneVars, saved>>

-----------------------------------------------------------------------------
(* animateSecurityBadges: one timer per badge, 200 ms apart, so in order *)

AnimateSecurityBadges ==
    /\ ~scheduled
    /\ scheduled' = TRUE
    /\ UNCHANGED <<toastVars, sim, animated, zoneVars, saved>>

AnimateBadge ==
    /\ scheduled /\ animated < Badges
    /\ animated' = animated + 1
    /\ UNCHANGED <<toastVars, sim, scheduled, zoneVars, saved>>

-----------------------------------------------------------------------------
(* simulateUploadProgress *)

\* mutant: the progress starts at one increment
SumMayBe_ahead(full, k, d) ==
    IF full THEN Interval * (k + 1) >= d ELSE Interval * (k + 1) <= d

\* Whether the sum of k increments of 100 * interval / duration may be 100 or
\* more, and whether it may be below.  The sum is one of doubles: for 50000 ms
\* the thousand increments of 0.1 stay below 100, for 3000 ms the sixty do not.
SumMayBe(full, k, d) == IF full THEN Interval * k >= d ELSE Interval * k <= d

\* Math.round of the sum of k increments: at a half the doubles may be on either
\* side.
Rounded(k, d) ==
    {n \in 0..100 : /\ 2 * d * n - d <= 200 * Interval * k
                    /\ 200 * Interval * k <= 2 * d * n + d}

\* mutant: the sum that ends the interval is reported as it is
Report_unclamped(full, k, d) ==
    IF full /\ d > 0 THEN {(100 * Interval * k) \div d} ELSE Rounded(k, d)

\* What is reported: 100 for a sum of 100 or more.
Report(full, k, d) == IF full THEN {100} ELSE Rounded(k, d)

SimulateUploadProgress(d) ==
    /\ sim.state = "none"
    /\ sim' = [state |-> "running", duration |-> d, ticks |-> 0, report |-> 0]
    /\ UNCHANGED <<toastVars, badgeVars, zoneVars, saved>>

\* What a call of the interval's function does to the progress.
Advance(k) ==
    \E full \in BOOLEAN :
        /\ SumMayBe(full, k, sim.duration)
        /\ \E n \in Report(full, k, sim.duration) :
              sim' = [sim EXCEPT !.ticks = k, !.report = n,
                                 !.state = IF full THEN "ended" ELSE @]

\* mutant: a tick after clearInterval still reports
Tick_late ==
    /\ sim.state \in {"running", "cancelled"}
    /\ Advance(sim.ticks + 1)
    /\ UNCHANGED <<toastVars, badgeVars, zoneVars, saved>>

\* mutant: at 100 the count begins again and the interval goes on
Tick_wraps ==
    /\ sim.state = "running"
    /\ IF SumMayBe(TRUE, sim.ticks + 1, sim.duration)
       THEN sim' = [sim EXCEPT !.ticks = 0, !.report = 100]
       ELSE Advance(sim.ticks + 1)
    /\ UNCHANGED <<toastVars, badgeVars, zoneVars, saved>>

\* One call of the interval's function: the interval is cleared before the
\* callback is told.
Tick ==
    /\ sim.state = "running"
    /\ Advance(sim.ticks + 1)
    /\ UNCHANGED <<toastVars, badgeVars, zoneVars, saved>>

\* The caller clears the interval that was returned to it.
CancelProgress ==
    /\ sim.state = "running"
    /\ sim' = [sim EXCEPT !.state = "cancelled"]
    /\ UNCHANGED <<toastVars, badgeVars, zoneVars, saved>>

-----------------------------------------------------------------------------
(* Specification *)

Next ==
    \/ \E c \in Contents : DownloadFile(c)
    \/ InitializeFileDropZone \/ DragOver \/ DragLeave \/ Drop
    \/ \E t \in Toasts :
          \/ ShowToast(t) \/ ToastShown(t) \/ HideToast(t) \/ ToastHidden(t)
          \/ PointerEnters(t) \/ PointerLeaves(t) \/ CloseToast(t)
    \/ AnimateSecurityBadges \/ AnimateBadge
    \/ \E d \in Durations : SimulateUploadProgress(d)
    \/ Tick \/ CancelProgress

Spec == Init /\ [][Next]_vars

\* The browser fires every timer and ends every transition; what the user does
\* is not assumed.
FairSpec ==
    /\ Spec
    /\ WF_vars(Tick)
    /\ WF_vars(AnimateBadge)
    /\ \A t \in Toasts :
          WF_vars(ToastShown(t)) /\ WF_vars(HideToast(t)) /\ WF_vars(ToastHidden(t))

-----------------------------------------------------------------------------
(* Properties *)

\* Whatever is saved is the content that was to be downloaded, and the helper
\* does not throw.  This is what the Download button promises
\* (FileManager.razor:221) and the page does not keep.
SavedFileIsTheContent ==
    saved.outcome # "none" => saved.outcome = "saved" /\ saved.blob = saved.content

\* The drop zone is marked only while files are held over it.
HighlightMeansDrag == highlight => dragging

\* The simulation ends with a report of 100, after its duration and at most one
\* interval later, be the duration a multiple of the interval, shorter than it or
\* zero, and whichever way the doubles are rounded.
ProgressEndsAt100 ==
    sim.state = "ended" =>
        /\ sim.report = 100
        /\ sim.ticks >= 1
        /\ sim.duration <= Interval * sim.ticks
        /\ Interval * sim.ticks <= sim.duration + Interval

\* Reports never go back, and none comes, not even of the same value, once the
\* interval has been cleared by the simulation or by its caller.
ProgressOnlyAdvances ==
    [][<<sim'.ticks, sim'.report>> # <<sim.ticks, sim.report>> =>
          sim.state = "running" /\ sim'.report >= sim.report]_vars

\* A running simulation ends unless its caller ends it.
ProgressEnds == sim.state = "running" ~> sim.state \in {"ended", "cancelled"}

\* A toast goes away by itself, also after the pointer has kept it on screen:
\* the element leaves the container unless the pointer comes (back) to it.
ToastIsRemoved ==
    \A t \in Toasts : t \in children ~> (t \notin children \/ hover[t])
=============================================================================
