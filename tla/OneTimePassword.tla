-------------------------- MODULE OneTimePassword ---------------------------
(***************************************************************************)
(* The one-time passwords of pkg/goauth: OTPConfig.Authenticate accepts a  *)
(* scratch code, the code of a counter (HOTP) or the code of a time step   *)
(* (TOTP), and changes the configuration so that it is not accepted again. *)
(* The comment of OTPConfig leaves it to the caller to save that change:   *)
(* here the caller saves when it likes and a crash brings the saved one    *)
(* back.  Calls for one configuration follow each other: there is no lock, *)
(* the caller has to have one.  The clock never goes back.                 *)
(*                                                                         *)
(* ComputeCode is the operator Code: which numbers it gives does not       *)
(* matter, two steps or counters may share one.  A password that is not    *)
(* well formed changes nothing and is left out.                            *)
(***************************************************************************)
EXTENDS Integers

CONSTANTS Code(_),      \* ComputeCode with the secret, of a counter or a time step
          WindowSize,   \* OTPConfig.WindowSize
          StartCounters,\* where HotpCounter may start, 0 for time-based codes
          Scratch,      \* ScratchCodes at first, each listed once
          MaxInt,       \* the largest int
          MaxTime       \* bound on the clock

\* The parameters are as Services assumes them.
OtpAssumption ==
  /\ MaxInt \in Nat /\ MaxTime \in Nat
  /\ WindowSize \in 0..MaxInt
  /\ StartCounters \subseteq 0..MaxInt
  /\ Scratch \subseteq Int

VARIABLES
  now,      \* the time step, time.Now().Unix() / 30
  counter,  \* HotpCounter
  disallow, \* DisallowReuse, not nil: a sorted list without repetitions
  scratch,  \* ScratchCodes
  accepted, \* history: what has been accepted, << kind, value >>
  saved,    \* these four as last saved
  twice     \* history: what has been accepted again

config == << counter, disallow, scratch, accepted >>
vars == << now, config, saved, twice >>

Init ==
  /\ now = 0
  /\ counter \in StartCounters /\ disallow = {} /\ scratch = Scratch
  /\ accepted = {} /\ twice = {}
  /\ saved = config

\* int addition
Wrap(n) == IF n > MaxInt THEN n - 2 * (MaxInt + 1) ELSE n

Accept(what) ==
  /\ accepted' = accepted \cup {what}
  /\ twice' = IF what \in accepted THEN twice \cup {what} ELSE twice

\* n is the least of the numbers 'from' to 'to' that has the code.
FirstWith(code, n, from, to) ==
  /\ n \in from..to
  /\ Code(Wrap(n)) = code
  /\ \A i \in from..(n - 1) : Code(Wrap(i)) # code

-----------------------------------------------------------------------------
(* Authenticate *)

\* checkScratchCodes; a code that is not listed changes nothing.
CheckScratch(s) ==
  /\ s \in scratch
  /\ scratch' = scratch \ {s}
  /\ Accept(<< "scratch", s >>)
  /\ UNCHANGED << now, counter, disallow, saved >>

\* checkHotpCode: a counter of the window has the code, and it moves past it,
HotpAccept(code) ==
  /\ counter > 0
  /\ \E n \in counter..(counter + WindowSize - 1) :
       /\ FirstWith(code, n, counter, counter + WindowSize - 1)
       /\ counter' = Wrap(n + 1)
       /\ Accept(<< "hotp", Wrap(n) >>)
  /\ UNCHANGED << now, disallow, scratch, saved >>

\* or none has, and the counter still moves by one.
HotpRefuse(code) ==
  /\ counter > 0
  /\ \A n \in counter..(counter + WindowSize - 1) : Code(Wrap(n)) # code
  /\ counter' = Wrap(counter + 1)
  /\ UNCHANGED << now, disallow, scratch, accepted, saved, twice >>

MinT == now - (WindowSize \div 2)
MaxT == now + (WindowSize \div 2)

\* A bug to detect: the oldest step of the window is forgotten, too.
TrimTooMuch(steps) == {t \in steps : t > MinT}

\* A bug to detect: nothing is ever forgotten.
TrimNothing(steps) == steps

\* remove all time codes outside the valid window
Trim(steps) == {t \in steps : t >= MinT}

\* checkTotpCode; once the counter has overflowed it is time that counts. A
\* code whose first step is disallowed is refused and changes nothing.
TotpAccept(code) ==
  /\ counter <= 0
  /\ \E t \in MinT..MaxT :
       /\ FirstWith(code, t, MinT, MaxT)
       /\ t \notin disallow
       /\ disallow' = Trim(disallow \cup {t})
       /\ Accept(<< "totp", t >>)
  /\ UNCHANGED << now, counter, scratch, saved >>

Codes == {Code(n) : n \in -(MaxInt + 1 + WindowSize)..(MaxInt + MaxTime + WindowSize)}

Authenticate ==
  \/ \E s \in Scratch : CheckScratch(s)
  \/ \E code \in Codes : HotpAccept(code) \/ HotpRefuse(code) \/ TotpAccept(code)

-----------------------------------------------------------------------------
(* The caller and the clock *)

Tick ==
  /\ now < MaxTime
  /\ now' = now + 1
  /\ UNCHANGED << config, saved, twice >>

Save == saved' = config /\ UNCHANGED << now, config, twice >>

\* What was accepted and not saved is forgotten, and may be accepted again.
Crash ==
  /\ counter' = saved[1] /\ disallow' = saved[2]
  /\ scratch' = saved[3] /\ accepted' = saved[4]
  /\ UNCHANGED << now, saved, twice >>

-----------------------------------------------------------------------------
Next == Authenticate \/ Tick \/ Save \/ Crash

Spec == Init /\ [][Next]_vars

-----------------------------------------------------------------------------
(* The properties *)

Accepted == {"scratch", "hotp", "totp"} \X Int

Config == (-(MaxInt + 1)..MaxInt) \X (SUBSET Int) \X (SUBSET Scratch)
            \X (SUBSET Accepted)

OtpTypeOK ==
  /\ now \in 0..MaxTime
  /\ config \in Config /\ saved \in Config
  /\ twice \subseteq Accepted

\* No scratch code, no value of the counter and no time step is accepted twice,
\* whether the counter overflows or the window moves past what is remembered,
\* unless a crash came before the caller had saved what it was accepted with.
NoCodeTwice == twice = {}

\* What is remembered is no more than one window: the list does not grow.
RemembersOneWindow ==
  \E t \in 0..now :
    disallow \subseteq (t - (WindowSize \div 2))..(t + (WindowSize \div 2))
=============================================================================
