-------------------------- MODULE Services_proofs ---------------------------
(***************************************************************************)
(* Theorems about the services of Services.  They share no state, so the   *)
(* invariants are those of one service each, inductive for its own         *)
(* next-state relation, and a step of Services is one of each service or   *)
(* leaves its variables alone (the lemmas called Frame).                   *)
(***************************************************************************)
EXTENDS Services, FiniteSetTheorems, SequenceTheorems, WellFoundedInduction, TLAPS

-----------------------------------------------------------------------------
(* A step of the whole is one of each service, or leaves it alone *)

LEMMA QueueFrame == ASSUME [Next]_vars PROVE [Queue!Next]_(Queue!vars)
BY DEF Next, vars, queueVars, Queue!vars, Queue!lookup, Queue!service

LEMMA OtpFrame == ASSUME [Next]_vars PROVE [Otp!Next]_(Otp!vars)
BY DEF Next, vars, otpVars, Otp!vars, Otp!config

LEMMA AppFrame == ASSUME [Next]_vars PROVE [App!Next]_(App!vars)
BY DEF Next, vars, appVars, App!vars, App!registry, App!cron

LEMMA BrokerFrame == ASSUME [Next]_vars PROVE [Broker!Next]_(Broker!vars)
BY DEF Next, vars, brokerVars, Broker!vars, Broker!client, Broker!broker

-----------------------------------------------------------------------------
\* What a configuration has accepted it does not accept again from the time
\* 'now' on: a scratch code is off its list, the counter has moved past what it
\* accepted, unless it has overflowed, and a time step is remembered or too old.
OtpSound(c) ==
  /\ c[1] \in Int /\ c[1] <= MaxInt
  /\ \A s : << "scratch", s >> \in c[4] => s \notin c[3]
  /\ c[1] > 0 => \A n : << "hotp", n >> \in c[4] => n \in 1..(c[1] - 1)
  /\ \A t \in Int : << "totp", t >> \in c[4] /\ t >= Otp!MinT => t \in c[2]

\* The saved configuration is one the caller may be thrown back to.
OtpIInv ==
  /\ now \in Nat
  /\ OtpSound(Otp!config) /\ OtpSound(saved)
  /\ twice = {}

OtpWindow(steps) ==
  \E t \in 0..now :
    steps \subseteq (t - (WindowSize \div 2))..(t + (WindowSize \div 2))

OtpWindowInv ==
  /\ now \in Nat
  /\ OtpWindow(disallow) /\ OtpWindow(saved[2])

-----------------------------------------------------------------------------
(* What a step does to a configuration *)

LEMMA OtpInitSound == ASSUME Otp!OtpAssumption, Otp!Init PROVE OtpIInv
<1>1. /\ counter \in Int /\ counter <= MaxInt
      /\ now = 0 /\ twice = {} /\ accepted = {}
  BY DEF Otp!OtpAssumption, Otp!Init
<1>2. /\ Otp!config[1] = counter /\ Otp!config[4] = accepted
  BY DEF Otp!config
<1>3. OtpSound(Otp!config)
  BY <1>1, <1>2 DEF OtpSound
<1>4. saved = Otp!config
  BY DEF Otp!Init
<1> QED  BY <1>1, <1>3, <1>4 DEF OtpIInv

LEMMA OtpScratchSound ==
  ASSUME Otp!OtpAssumption, OtpIInv, NEW s \in Scratch, Otp!CheckScratch(s)
  PROVE  OtpIInv'
<1>1. << "scratch", s >> \notin accepted
  BY DEF OtpIInv, OtpSound, Otp!config, Otp!CheckScratch
<1>2. accepted' = accepted \cup {<< "scratch", s >>} /\ twice' = twice
  BY <1>1 DEF Otp!CheckScratch, Otp!Accept
<1>3. /\ scratch' = scratch \ {s}
      /\ now' = now /\ counter' = counter /\ disallow' = disallow /\ saved' = saved
  BY DEF Otp!CheckScratch
<1>4. OtpSound(Otp!config)'
  BY <1>2, <1>3 DEF OtpIInv, OtpSound, Otp!config, Otp!MinT
<1>5. OtpSound(saved)'
  BY <1>3 DEF OtpIInv, OtpSound, Otp!MinT
<1> QED  BY <1>2, <1>3, <1>4, <1>5 DEF OtpIInv

LEMMA OtpWrapRange ==
  ASSUME Otp!OtpAssumption, NEW n \in Int
  PROVE  /\ Otp!Wrap(n) \in Int
         /\ n <= MaxInt => Otp!Wrap(n) = n
         /\ n > MaxInt /\ n <= 2 * MaxInt => Otp!Wrap(n) < 0
         /\ n <= 2 * MaxInt => Otp!Wrap(n) <= MaxInt
BY DEF Otp!OtpAssumption, Otp!Wrap

\* The window starts at the counter: what it has accepted is below.
LEMMA OtpHotpSound ==
  ASSUME Otp!OtpAssumption, OtpIInv, NEW code, Otp!HotpAccept(code)
  PROVE  OtpIInv'
<1>1. counter \in Int /\ counter > 0 /\ counter <= MaxInt
  BY DEF Otp!HotpAccept, OtpIInv, OtpSound, Otp!config
<1>2. PICK n \in counter..(counter + WindowSize - 1) :
        /\ counter' = Otp!Wrap(n + 1)
        /\ Otp!Accept(<< "hotp", Otp!Wrap(n) >>)
  BY DEF Otp!HotpAccept
<1>3. /\ scratch' = scratch /\ now' = now
      /\ disallow' = disallow /\ saved' = saved
  BY DEF Otp!HotpAccept
<1>. DEFINE v == Otp!Wrap(n)
<1>4. n \in Int /\ n >= counter /\ n < 2 * MaxInt
  BY <1>1, <1>2 DEF Otp!OtpAssumption
<1>5. v \in Int /\ (v >= counter \/ v < 1)
  <2>1. /\ v \in Int
        /\ n <= MaxInt => v = n
        /\ n > MaxInt => v < 0
    BY <1>4, OtpWrapRange DEF Otp!OtpAssumption
  <2> QED  BY <1>1, <1>4, <2>1 DEF Otp!OtpAssumption
<1>6. << "hotp", v >> \notin accepted
  BY <1>1, <1>5 DEF OtpIInv, OtpSound, Otp!config
<1>7. accepted' = accepted \cup {<< "hotp", v >>} /\ twice' = twice
  BY <1>2, <1>6 DEF Otp!Accept
<1>8. /\ counter' \in Int /\ counter' <= MaxInt
      /\ counter' > 0 => v = n /\ counter' = n + 1
  <2>1. n + 1 \in Int /\ n + 1 <= 2 * MaxInt
    BY <1>4 DEF Otp!OtpAssumption
  <2>2. /\ Otp!Wrap(n + 1) \in Int /\ Otp!Wrap(n + 1) <= MaxInt
        /\ n + 1 <= MaxInt => Otp!Wrap(n + 1) = n + 1
        /\ n + 1 > MaxInt => Otp!Wrap(n + 1) < 0
    BY <2>1, OtpWrapRange
  <2>3. n + 1 <= MaxInt => v = n
    BY <1>4, OtpWrapRange DEF Otp!OtpAssumption
  <2> QED  BY <1>2, <1>4, <2>2, <2>3 DEF Otp!OtpAssumption
<1>9. OtpSound(Otp!config)'
  <2>1. \A s : << "scratch", s >> \in accepted' => s \notin scratch'
    BY <1>3, <1>7 DEF OtpIInv, OtpSound, Otp!config
  <2>2. \A t \in Int : << "totp", t >> \in accepted' /\ t >= Otp!MinT' => t \in disallow'
    BY <1>3, <1>7 DEF OtpIInv, OtpSound, Otp!config, Otp!MinT
  <2>3. counter' > 0 =>
          \A m : << "hotp", m >> \in accepted' => m \in 1..(counter' - 1)
    <3> SUFFICES ASSUME counter' > 0, NEW m, << "hotp", m >> \in accepted'
                 PROVE  m \in 1..(counter' - 1)
      OBVIOUS
    <3>1. CASE m = v
      BY <3>1, <1>1, <1>4, <1>8
    <3>2. CASE << "hotp", m >> \in accepted
      <4>1. m \in 1..(counter - 1)
        BY <3>2, <1>1 DEF OtpIInv, OtpSound, Otp!config
      <4> QED  BY <4>1, <1>1, <1>4, <1>8
    <3> QED  BY <3>1, <3>2, <1>7
  <2> QED  BY <1>8, <2>1, <2>2, <2>3 DEF OtpSound, Otp!config
<1>10. OtpSound(saved)'
  BY <1>3 DEF OtpIInv, OtpSound, Otp!MinT
<1> QED  BY <1>3, <1>7, <1>9, <1>10 DEF OtpIInv

LEMMA OtpHotpRefuseSound ==
  ASSUME Otp!OtpAssumption, OtpIInv, NEW code, Otp!HotpRefuse(code)
  PROVE  OtpIInv'
<1>1. /\ counter \in Int /\ counter > 0 /\ counter <= MaxInt
      /\ counter' = Otp!Wrap(counter + 1)
      /\ scratch' = scratch /\ now' = now /\ disallow' = disallow
      /\ saved' = saved /\ accepted' = accepted /\ twice' = twice
  BY DEF Otp!HotpRefuse, OtpIInv, OtpSound, Otp!config
<1>2. /\ counter' \in Int /\ counter' <= MaxInt
      /\ counter' > 0 => counter' = counter + 1
  <2>1. counter + 1 \in Int /\ counter + 1 <= 2 * MaxInt
    BY <1>1 DEF Otp!OtpAssumption
  <2>2. /\ Otp!Wrap(counter + 1) \in Int /\ Otp!Wrap(counter + 1) <= MaxInt
        /\ counter + 1 <= MaxInt => Otp!Wrap(counter + 1) = counter + 1
        /\ counter + 1 > MaxInt => Otp!Wrap(counter + 1) < 0
    BY <2>1, OtpWrapRange
  <2> QED  BY <1>1, <2>2 DEF Otp!OtpAssumption
<1>3. OtpSound(Otp!config)'
  BY <1>1, <1>2 DEF OtpIInv, OtpSound, Otp!config, Otp!MinT
<1>4. OtpSound(saved)'
  BY <1>1 DEF OtpIInv, OtpSound, Otp!MinT
<1> QED  BY <1>1, <1>3, <1>4 DEF OtpIInv

\* A step of the window that was accepted is remembered.
LEMMA OtpTotpSound ==
  ASSUME Otp!OtpAssumption, OtpIInv, NEW code, Otp!TotpAccept(code)
  PROVE  OtpIInv'
<1>1. PICK t \in Otp!MinT..Otp!MaxT :
        /\ t \notin disallow
        /\ disallow' = Otp!Trim(disallow \cup {t})
        /\ Otp!Accept(<< "totp", t >>)
  BY DEF Otp!TotpAccept
<1>2. /\ counter' = counter /\ scratch' = scratch /\ now' = now /\ saved' = saved
  BY DEF Otp!TotpAccept
<1>3. Otp!MinT \in Int /\ Otp!MinT' = Otp!MinT /\ t \in Int /\ t >= Otp!MinT
  BY <1>1, <1>2 DEF OtpIInv, Otp!MinT, Otp!MaxT, Otp!OtpAssumption
<1>4. << "totp", t >> \notin accepted
  BY <1>1, <1>3 DEF OtpIInv, OtpSound, Otp!config
<1>5. accepted' = accepted \cup {<< "totp", t >>} /\ twice' = twice
  BY <1>1, <1>4 DEF Otp!Accept
<1>6. OtpSound(Otp!config)'
  <2>1. \A s : << "scratch", s >> \in accepted' => s \notin scratch'
    BY <1>2, <1>5 DEF OtpIInv, OtpSound, Otp!config
  <2>2. /\ counter' \in Int /\ counter' <= MaxInt
        /\ counter' > 0 =>
             \A n : << "hotp", n >> \in accepted' => n \in 1..(counter' - 1)
    BY <1>2, <1>5 DEF OtpIInv, OtpSound, Otp!config
  <2>3. \A u \in Int : << "totp", u >> \in accepted' /\ u >= Otp!MinT' => u \in disallow'
    BY <1>1, <1>2, <1>3, <1>5 DEF OtpIInv, OtpSound, Otp!config, Otp!Trim
  <2> QED  BY <2>1, <2>2, <2>3 DEF OtpSound, Otp!config
<1>7. OtpSound(saved)'
  BY <1>2, <1>3 DEF OtpIInv, OtpSound
<1> QED  BY <1>2, <1>5, <1>6, <1>7 DEF OtpIInv

\* The window moves on: fewer steps have to be remembered.
LEMMA OtpTickSound == ASSUME Otp!OtpAssumption, OtpIInv, Otp!Tick PROVE OtpIInv'
<1>1. /\ now' = now + 1 /\ now \in Nat
      /\ counter' = counter /\ disallow' = disallow /\ scratch' = scratch
      /\ accepted' = accepted /\ saved' = saved /\ twice' = twice
  BY DEF Otp!Tick, Otp!config, OtpIInv
<1>2. Otp!MinT \in Int /\ Otp!MinT' = Otp!MinT + 1
  BY <1>1 DEF Otp!MinT, Otp!OtpAssumption
<1>3. \A t \in Int : t >= Otp!MinT' => t >= Otp!MinT
  BY <1>2
<1>4. OtpSound(Otp!config)'
  BY <1>1, <1>3 DEF OtpIInv, OtpSound, Otp!config
<1>5. OtpSound(saved)'
  BY <1>1, <1>3 DEF OtpIInv, OtpSound
<1> QED  BY <1>1, <1>4, <1>5 DEF OtpIInv

LEMMA OtpNextSound ==
  ASSUME Otp!OtpAssumption, OtpIInv, [Otp!Next]_(Otp!vars)
  PROVE  OtpIInv'
<1>1. ASSUME NEW s \in Scratch, Otp!CheckScratch(s) PROVE OtpIInv'
  BY <1>1, OtpScratchSound
<1>2. ASSUME NEW code \in Otp!Codes, Otp!HotpAccept(code) \/ Otp!HotpRefuse(code) \/ Otp!TotpAccept(code)
      PROVE  OtpIInv'
  BY <1>2, OtpHotpSound, OtpHotpRefuseSound, OtpTotpSound
<1>3. CASE Otp!Tick
  BY <1>3, OtpTickSound
<1>4. CASE Otp!Save
  BY <1>4 DEF Otp!Save, OtpIInv, OtpSound, Otp!config, Otp!MinT
<1>5. CASE Otp!Crash
  BY <1>5 DEF Otp!Crash, OtpIInv, OtpSound, Otp!config, Otp!MinT
<1>6. CASE UNCHANGED Otp!vars
  BY <1>6 DEF Otp!vars, OtpIInv, OtpSound, Otp!config, Otp!MinT
<1> QED  BY <1>1, <1>2, <1>3, <1>4, <1>5, <1>6 DEF Otp!Next, Otp!Authenticate

-----------------------------------------------------------------------------
\* Authenticate accepts nothing twice, whatever the window, the codes and the
\* largest int, as long as the caller saves what it changes.
THEOREM AcceptedOnce == Spec => []NoCodeTwice
<1>1. Otp!Init => OtpIInv
  BY ServicesAssumption, OtpInitSound
<1>2. OtpIInv /\ [Otp!Next]_(Otp!vars) => OtpIInv'
  BY ServicesAssumption, OtpNextSound
<1>3. OtpIInv => NoCodeTwice
  BY DEF OtpIInv, NoCodeTwice, Otp!NoCodeTwice
<1>4. Init => Otp!Init
  BY DEF Init
<1>5. [Next]_vars => [Otp!Next]_(Otp!vars)
  BY OtpFrame
<1> QED  BY <1>1, <1>2, <1>3, <1>4, <1>5, PTL DEF Spec

LEMMA OtpNextWindow ==
  ASSUME Otp!OtpAssumption, OtpWindowInv, [Otp!Next]_(Otp!vars)
  PROVE  OtpWindowInv'
<1>1. ASSUME NEW code, Otp!TotpAccept(code) PROVE OtpWindowInv'
  <2>1. PICK t \in Otp!MinT..Otp!MaxT : disallow' = Otp!Trim(disallow \cup {t})
    BY <1>1 DEF Otp!TotpAccept
  <2>2. now' = now /\ saved' = saved
    BY <1>1 DEF Otp!TotpAccept
  <2>3. PICK u \in 0..now :
          disallow \subseteq (u - (WindowSize \div 2))..(u + (WindowSize \div 2))
    BY DEF OtpWindowInv, OtpWindow
  <2>4. disallow' \subseteq (now - (WindowSize \div 2))..(now + (WindowSize \div 2))
    <3>. DEFINE h == WindowSize \div 2
    <3>1. h \in Int
      BY DEF Otp!OtpAssumption
    <3>2. t \in Int /\ t <= now + h
      BY <2>1, <3>1 DEF Otp!MinT, Otp!MaxT, OtpWindowInv
    <3>3. \A v \in disallow : v \in Int /\ v <= now + h
      <4>. HIDE DEF h
      <4> QED  BY <2>3, <3>1 DEF OtpWindowInv, h
    <3>4. \A v \in disallow' : v \in Int /\ v >= now - h /\ v <= now + h
      BY <2>1, <3>2, <3>3 DEF Otp!Trim, Otp!MinT
    <3> QED  BY <3>1, <3>4 DEF OtpWindowInv
  <2>5. now \in 0..now
    BY DEF OtpWindowInv
  <2> QED  BY <2>2, <2>4, <2>5 DEF OtpWindowInv, OtpWindow
<1>2. CASE Otp!Tick
  BY <1>2 DEF Otp!Tick, Otp!config, OtpWindowInv, OtpWindow
<1>3. CASE Otp!Save
  BY <1>3 DEF Otp!Save, Otp!config, OtpWindowInv, OtpWindow
<1>4. CASE Otp!Crash
  BY <1>4 DEF Otp!Crash, OtpWindowInv, OtpWindow
<1>5. CASE UNCHANGED << now, disallow, saved >>
  BY <1>5 DEF OtpWindowInv, OtpWindow
<1>6. ASSUME NEW s, Otp!CheckScratch(s) PROVE OtpWindowInv'
  BY <1>5, <1>6 DEF Otp!CheckScratch
<1>7. ASSUME NEW code, Otp!HotpAccept(code) \/ Otp!HotpRefuse(code) PROVE OtpWindowInv'
  BY <1>5, <1>7 DEF Otp!HotpAccept, Otp!HotpRefuse
<1>8. CASE UNCHANGED Otp!vars
  BY <1>5, <1>8 DEF Otp!vars, Otp!config
<1> QED  BY <1>1, <1>2, <1>3, <1>4, <1>6, <1>7, <1>8 DEF Otp!Next, Otp!Authenticate

\* The list of used time steps spans one window at most, for every window.
THEOREM ListIsBounded == Spec => []RemembersOneWindow
<1>1. Otp!Init => OtpWindowInv
  BY DEF Otp!Init, Otp!config, OtpWindowInv, OtpWindow
<1>2. OtpWindowInv /\ [Otp!Next]_(Otp!vars) => OtpWindowInv'
  BY ServicesAssumption, OtpNextWindow
<1>3. OtpWindowInv => RemembersOneWindow
  BY DEF OtpWindowInv, OtpWindow, RemembersOneWindow, Otp!RemembersOneWindow
<1>4. Init => Otp!Init
  BY DEF Init
<1>5. [Next]_vars => [Otp!Next]_(Otp!vars)
  BY OtpFrame
<1> QED  BY <1>1, <1>2, <1>3, <1>4, <1>5, PTL DEF Spec

-----------------------------------------------------------------------------
LEMMA AppFinite == \A S : App!IsFiniteSet(S) <=> IsFiniteSet(S)
BY DEF App!IsFiniteSet, IsFiniteSet

LEMMA AppCardinality == \A S : App!Cardinality(S) = Cardinality(S)
BY DEF App!Cardinality, Cardinality, App!IsFiniteSet, IsFiniteSet

AppTyped ==
  /\ map \in [Names -> Objects \cup {NoObject}]
  /\ remover \in [Removers -> {"new", "close", "delete", "done"}]
  /\ name \in [Removers -> Names]
  /\ object \in [Removers -> Objects \cup {NoObject}]
  /\ closed \in [Objects -> Nat] /\ removed \in [Objects -> Nat]

AppRemoving(u) == remover[u] \in {"close", "delete"}

\* A call of Unregister under way has its name for itself, and what it has
\* loaded is what the map still has: the name is not free for another.
AppHolds ==
  /\ \A u \in Removers : AppRemoving(u) => object[u] # NoObject /\ map[name[u]] = object[u]
  /\ \A u, v \in Removers : AppRemoving(u) /\ AppRemoving(v) /\ name[u] = name[v] => u = v

AppCounted ==
  \A o \in Objects : closed[o] = removed[o] + Cardinality(App!Closing(o))

AppIInv == AppTyped /\ (overlap = {} => AppHolds /\ AppCounted)

LEMMA AppInitCorrect == ASSUME App!AppAssumption, App!Init PROVE AppIInv
<1>1. AppTyped
  BY DEF App!AppAssumption, App!Init, AppTyped
<1>2. AppHolds
  BY DEF App!Init, AppHolds, AppRemoving
<1>3. AppCounted
  <2>1. \A o \in Objects : App!Closing(o) = {} /\ closed[o] = 0 /\ removed[o] = 0
    BY DEF App!Init, App!Closing
  <2> QED  BY <2>1, FS_EmptySet DEF AppCounted
<1> QED  BY <1>1, <1>2, <1>3 DEF AppIInv

LEMMA AppRegisterCorrect ==
  ASSUME App!AppAssumption, AppIInv, NEW n \in Names, NEW o \in Objects, App!Register(n, o)
  PROVE  AppIInv'
<1>1. UNCHANGED << remover, name, object, closed, removed, overlap >>
  BY DEF App!Register
<1>2. App!Key(n) \in Names
  BY DEF App!Key, App!AppAssumption
<1>3. \/ map' = map
      \/ map[App!Key(n)] = NoObject /\ map' = [map EXCEPT ![App!Key(n)] = o]
  BY DEF App!Register, App!Free
<1>4. AppTyped'
  BY <1>1, <1>2, <1>3 DEF AppIInv, AppTyped
<1>5. ASSUME AppHolds PROVE AppHolds'
  <2>1. \A k \in Names : map[k] # NoObject => map'[k] = map[k]
    BY <1>2, <1>3 DEF AppIInv, AppTyped
  <2>2. \A u \in Removers : AppRemoving(u) => map'[name[u]] = map[name[u]]
    BY <1>5, <2>1 DEF AppHolds, AppIInv, AppTyped
  <2> QED  BY <1>1, <1>5, <2>2 DEF AppHolds, AppRemoving
<1>6. ASSUME AppCounted PROVE AppCounted'
  BY <1>1, <1>6 DEF AppCounted, App!Closing
<1> QED  BY <1>1, <1>4, <1>5, <1>6 DEF AppIInv

LEMMA AppLoadCorrect ==
  ASSUME App!AppAssumption, AppIInv, NEW u \in Removers, NEW n \in Names, App!UnregisterLoad(u, n)
  PROVE  AppIInv'
<1>1. remover[u] = "new" /\ UNCHANGED << map, closed, removed >>
  BY DEF App!UnregisterLoad
<1>2. CASE /\ remover' = [remover EXCEPT ![u] = "done"]
           /\ UNCHANGED << name, object, overlap >>
  <2>1. AppTyped'
    BY <1>1, <1>2 DEF AppIInv, AppTyped
  <2>2. \A v \in Removers : /\ AppRemoving(v)' <=> AppRemoving(v)
                            /\ remover'[v] = "delete" <=> remover[v] = "delete"
    BY <1>1, <1>2 DEF AppIInv, AppTyped, AppRemoving
  <2>3. AppHolds => AppHolds'
    BY <1>1, <1>2, <2>2 DEF AppHolds
  <2>4. \A o : App!Closing(o)' = App!Closing(o)
    BY <1>2, <2>2 DEF App!Closing
  <2>5. AppCounted => AppCounted'
    BY <1>1, <2>4 DEF AppCounted
  <2> QED  BY <1>2, <2>1, <2>3, <2>5 DEF AppIInv
<1>3. CASE /\ map[n] # NoObject
           /\ remover' = [remover EXCEPT ![u] = "close"]
           /\ name' = [name EXCEPT ![u] = n]
           /\ object' = [object EXCEPT ![u] = map[n]]
           /\ overlap' = IF App!Busy(n) = {} THEN overlap ELSE overlap \cup {n}
  <2>1. AppTyped'
    BY <1>1, <1>3 DEF AppIInv, AppTyped
  <2>2. \A v \in Removers :
          /\ v # u => remover'[v] = remover[v] /\ name'[v] = name[v] /\ object'[v] = object[v]
          /\ v = u => remover'[v] = "close" /\ name'[v] = n /\ object'[v] = map[n]
    BY <1>3 DEF AppIInv, AppTyped
  <2>3. ASSUME overlap' = {} PROVE AppHolds' /\ AppCounted'
    <3>1. App!Busy(n) = {} /\ overlap = {}
      BY <1>3, <2>3
    <3>2. AppHolds /\ AppCounted
      BY <3>1 DEF AppIInv
    <3>3. \A v \in Removers : AppRemoving(v) => name[v] # n
      BY <3>1 DEF App!Busy, AppRemoving
    <3>4. AppHolds'
      BY <1>1, <1>3, <2>2, <3>2, <3>3 DEF AppHolds, AppRemoving
    <3>5. \A o : App!Closing(o)' = App!Closing(o)
      BY <1>1, <2>2 DEF App!Closing
    <3>6. AppCounted'
      BY <1>1, <3>2, <3>5 DEF AppCounted
    <3> QED  BY <3>4, <3>6
  <2> QED  BY <2>1, <2>3 DEF AppIInv
<1> QED  BY <1>2, <1>3 DEF App!UnregisterLoad

LEMMA AppClosingFinite ==
  ASSUME App!AppAssumption, NEW o
  PROVE  IsFiniteSet(App!Closing(o)) /\ Cardinality(App!Closing(o)) \in Nat
<1>1. App!Closing(o) \subseteq Removers
  BY DEF App!Closing
<1> QED  BY <1>1, FS_Subset, FS_CardinalityType, AppFinite DEF App!AppAssumption

LEMMA AppCloseCorrect ==
  ASSUME App!AppAssumption, AppIInv, NEW u \in Removers, App!UnregisterClose(u)
  PROVE  AppIInv'
<1>1. /\ remover[u] = "close"
      /\ remover' = [remover EXCEPT ![u] = "delete"]
      /\ closed' = [closed EXCEPT ![object[u]] = closed[object[u]] + 1]
      /\ UNCHANGED << map, name, object, removed, overlap >>
  BY DEF App!UnregisterClose
<1>2. AppTyped'
  <2>1. closed' \in [Objects -> Nat]
    <3>1. closed \in [Objects -> Nat]
      BY DEF AppIInv, AppTyped
    <3>2. CASE object[u] \in Objects
      BY <1>1, <3>1, <3>2
    <3>3. CASE object[u] \notin Objects
      BY <1>1, <3>1, <3>3
    <3> QED  BY <3>2, <3>3
  <2> QED  BY <1>1, <2>1 DEF AppIInv, AppTyped
<1>3. \A v \in Removers : /\ v # u => remover'[v] = remover[v]
                          /\ v = u => remover'[v] = "delete"
  BY <1>1 DEF AppIInv, AppTyped
<1>4. ASSUME overlap' = {} PROVE AppHolds' /\ AppCounted'
  <2>1. AppHolds /\ AppCounted
    BY <1>1, <1>4 DEF AppIInv
  <2>2. AppHolds'
    BY <1>1, <1>3, <2>1 DEF AppHolds, AppRemoving
  <2>3. ASSUME NEW o \in Objects
        PROVE  closed'[o] = removed'[o] + Cardinality(App!Closing(o)')
    <3>1. closed[o] = removed[o] + Cardinality(App!Closing(o))
      BY <2>1 DEF AppCounted
    <3>2. closed[o] \in Nat /\ removed[o] \in Nat /\ Cardinality(App!Closing(o)) \in Nat
      BY AppClosingFinite DEF AppIInv, AppTyped
    <3>3. CASE o = object[u]
      <4>1. closed'[o] = closed[o] + 1
        BY <1>1, <3>3 DEF AppIInv, AppTyped
      <4>2. App!Closing(o)' = App!Closing(o) \cup {u} /\ u \notin App!Closing(o)
        BY <1>1, <1>3, <3>3 DEF App!Closing
      <4>3. Cardinality(App!Closing(o)') = Cardinality(App!Closing(o)) + 1
        BY <4>2, AppClosingFinite, FS_AddElement
      <4> QED  BY <1>1, <3>1, <3>2, <4>1, <4>3
    <3>4. CASE o # object[u]
      <4>1. closed'[o] = closed[o]
        BY <1>1, <3>4 DEF AppIInv, AppTyped
      <4>2. App!Closing(o)' = App!Closing(o)
        BY <1>1, <1>3, <3>4 DEF App!Closing
      <4> QED  BY <1>1, <3>1, <4>1, <4>2
    <3> QED  BY <3>3, <3>4
  <2> QED  BY <2>2, <2>3 DEF AppCounted
<1> QED  BY <1>2, <1>4 DEF AppIInv

LEMMA AppDeleteCorrect ==
  ASSUME App!AppAssumption, AppIInv, NEW u \in Removers, App!UnregisterDelete(u)
  PROVE  AppIInv'
<1>1. /\ remover[u] = "delete"
      /\ remover' = [remover EXCEPT ![u] = "done"]
      /\ map' = [map EXCEPT ![name[u]] = NoObject]
      /\ removed' = [o \in Objects |->
                       IF map[name[u]] = o THEN removed[o] + 1 ELSE removed[o]]
      /\ UNCHANGED << name, object, closed, overlap >>
  BY DEF App!UnregisterDelete
<1>2. AppTyped'
  <2>1. \A o \in Objects : removed[o] \in Nat /\ removed[o] + 1 \in Nat
    BY DEF AppIInv, AppTyped
  <2>2. removed' \in [Objects -> Nat]
    BY <1>1, <2>1
  <2> QED  BY <1>1, <2>2 DEF AppIInv, AppTyped
<1>3. \A v \in Removers : /\ v # u => remover'[v] = remover[v]
                          /\ v = u => remover'[v] = "done"
  BY <1>1 DEF AppIInv, AppTyped
<1>4. ASSUME overlap' = {} PROVE AppHolds' /\ AppCounted'
  <2>1. AppHolds /\ AppCounted
    BY <1>1, <1>4 DEF AppIInv
  <2>2. map[name[u]] = object[u] /\ name[u] \in Names
    BY <1>1, <2>1 DEF AppHolds, AppRemoving, AppIInv, AppTyped
  <2>3. \A k \in Names : k # name[u] => map'[k] = map[k]
    BY <1>1, <2>2 DEF AppIInv, AppTyped
  <2>4. \A v \in Removers : v # u /\ AppRemoving(v) => name[v] # name[u] /\ name[v] \in Names
    BY <1>1, <2>1 DEF AppHolds, AppRemoving, AppIInv, AppTyped
  <2>5. AppHolds'
    BY <1>1, <1>3, <2>1, <2>3, <2>4 DEF AppHolds, AppRemoving
  <2>6. ASSUME NEW o \in Objects
        PROVE  closed'[o] = removed'[o] + Cardinality(App!Closing(o)')
    <3>1. closed[o] = removed[o] + Cardinality(App!Closing(o))
      BY <2>1 DEF AppCounted
    <3>2. closed[o] \in Nat /\ removed[o] \in Nat /\ Cardinality(App!Closing(o)) \in Nat
      BY AppClosingFinite DEF AppIInv, AppTyped
    <3>3. CASE o = object[u]
      <4>1. removed'[o] = removed[o] + 1
        BY <1>1, <2>2, <3>3
      <4>2. App!Closing(o)' = App!Closing(o) \ {u} /\ u \in App!Closing(o)
        BY <1>1, <1>3, <3>3 DEF App!Closing
      <4>3. Cardinality(App!Closing(o)') = Cardinality(App!Closing(o)) - 1
        BY <4>2, AppClosingFinite, FS_RemoveElement
      <4> QED  BY <1>1, <3>1, <3>2, <4>1, <4>3
    <3>4. CASE o # object[u]
      <4>1. removed'[o] = removed[o]
        BY <1>1, <2>2, <3>4
      <4>2. App!Closing(o)' = App!Closing(o)
        BY <1>1, <1>3, <3>4 DEF App!Closing
      <4> QED  BY <1>1, <3>1, <4>1, <4>2
    <3> QED  BY <3>3, <3>4
  <2> QED  BY <2>5, <2>6 DEF AppCounted
<1> QED  BY <1>2, <1>4 DEF AppIInv

LEMMA AppNextCorrect ==
  ASSUME App!AppAssumption, AppIInv, [App!Next]_(App!vars)
  PROVE  AppIInv'
<1>1. CASE \E n \in Names, o \in Objects : App!Register(n, o)
  BY <1>1, AppRegisterCorrect
<1>2. CASE \E u \in Removers : App!Unregister(u)
  BY <1>2, AppLoadCorrect, AppCloseCorrect, AppDeleteCorrect DEF App!Unregister
<1>3. CASE App!Crontab \/ UNCHANGED App!vars
  <2>1. UNCHANGED App!registry
    BY <1>3 DEF App!Crontab, App!AddJobs, App!StartJob, App!StopJob, App!Start,
       App!Stop, App!vars
  <2> QED  BY <2>1 DEF App!registry, AppIInv, AppTyped, AppHolds,
              AppRemoving, AppCounted, App!Closing
<1> QED  BY <1>1, <1>2, <1>3 DEF App!Next

-----------------------------------------------------------------------------
\* An object is closed once each time Unregister takes it out of a registry, with
\* any number of names, objects and calls, under whatever names it is and however
\* often it is registered, unless two calls of Unregister have a name at a time.
THEOREM RemovedCorrect == Spec => []RemovedIsClosed
<1>1. App!Init => AppIInv
  BY ServicesAssumption, AppInitCorrect
<1>2. AppIInv /\ [App!Next]_(App!vars) => AppIInv'
  BY ServicesAssumption, AppNextCorrect
<1>3. AppIInv => RemovedIsClosed
  BY AppCardinality DEF AppIInv, AppCounted, RemovedIsClosed, App!RemovedIsClosed
<1>4. Init => App!Init
  BY DEF Init
<1>5. [Next]_vars => [App!Next]_(App!vars)
  BY AppFrame
<1> QED  BY <1>1, <1>2, <1>3, <1>4, <1>5, PTL DEF Spec

\* Every cron job that ticks is among the workers that Stop and StopJob know.
THEOREM TickingCorrect == Spec => []TickingCanBeStopped
<1>1. App!Init => TickingCanBeStopped
  BY DEF App!Init, TickingCanBeStopped, App!TickingCanBeStopped
<1>2. TickingCanBeStopped /\ [App!Next]_(App!vars) => TickingCanBeStopped'
  <2> SUFFICES ASSUME App!TickingCanBeStopped, [App!Next]_(App!vars)
               PROVE  App!TickingCanBeStopped'
    BY DEF TickingCanBeStopped
  <2>1. CASE App!Crontab
    BY <2>1 DEF App!TickingCanBeStopped, App!Crontab, App!AddJobs, App!Start,
       App!StartJob,
                App!StopJob, App!Stop, App!WorkersNow
  <2>2. CASE UNCHANGED App!cron
    BY <2>2 DEF App!TickingCanBeStopped, App!cron
  <2> QED  BY <2>1, <2>2 DEF App!Next, App!Register, App!Unregister, App!UnregisterLoad,
                             App!UnregisterClose, App!UnregisterDelete, App!vars
<1>3. Init => App!Init
  BY DEF Init
<1>4. [Next]_vars => [App!Next]_(App!vars)
  BY AppFrame
<1> QED  BY <1>1, <1>2, <1>3, <1>4, PTL DEF Spec

-----------------------------------------------------------------------------
BrokerEngaged(m) == message[m] \in {"handling", "answering"}

\* The part of the type that the argument needs
BrokerPlaces == {"new", "connect", "dial", "make", "assign", "check", "subscribe",
           "send", "returned", "failed"}

BrokerTyped ==
  /\ call \in [Broker!Callers -> BrokerPlaces]
  /\ err \in [BrokerConsumers -> BOOLEAN]
  /\ message \in [Messages -> {"unsent", "ready", "handling", "answering", "acked"}]

\* A consumer is engaged with one message at most.  What it answers has been
\* handled, or came early, or is marked as failed; while Consumer has not
\* returned, and may yet clear that mark, it did come early.
BrokerIInv ==
  /\ BrokerTyped
  /\ \A m, n \in Messages : BrokerEngaged(m) /\ BrokerEngaged(n) /\ To[m] = To[n] => m = n
  /\ \A m \in Messages : message[m] = "answering" =>
       /\ m \in succeeded \cup early \/ err[To[m]]
       /\ call[To[m]] # "returned" => m \in early
  /\ Broker!AckedWasHandledOrEarly

LEMMA BrokerCallersOf ==
  ASSUME Broker!BrokerAssumption, NEW m \in Messages
  PROVE  To[m] \in BrokerConsumers /\ To[m] \in Broker!Callers /\ m \in Broker!Callers
BY DEF Broker!BrokerAssumption, Broker!Callers

LEMMA BrokerInitCorrect == ASSUME Broker!BrokerAssumption, Broker!Init PROVE BrokerIInv
BY DEF Broker!Init, BrokerIInv, BrokerTyped, BrokerPlaces, BrokerEngaged,
   Broker!AckedWasHandledOrEarly, Broker!Callers

\* A call moves from one place to another, neither of them behind "returned",
\* and touches no message that is being handled.
LEMMA BrokerCallMoves ==
  ASSUME Broker!BrokerAssumption, BrokerIInv, NEW p \in Broker!Callers, NEW to \in BrokerPlaces,
         call[p] # "returned", Broker!Goes(p, to), UNCHANGED << err, Broker!broker >>
  PROVE  BrokerIInv'
<1> USE BrokerCallersOf DEF BrokerIInv, Broker!Goes, Broker!broker
<1>1. BrokerTyped'
  BY DEF BrokerTyped
<1>2. \A m \in Messages : call[To[m]] = "returned" => call'[To[m]] = "returned"
  BY DEF BrokerTyped
<1>3. \A m \in Messages : message'[m] = "answering" =>
        /\ m \in succeeded' \cup early' \/ err'[To[m]]
        /\ call'[To[m]] # "returned" => m \in early'
  BY <1>2
<1>4. \A m, n \in Messages : (BrokerEngaged(m) /\ BrokerEngaged(n) /\ To[m] = To[n])' => m = n
  BY DEF BrokerEngaged
<1>5. Broker!AckedWasHandledOrEarly'
  BY DEF Broker!AckedWasHandledOrEarly
<1> QED  BY <1>1, <1>3, <1>4, <1>5 DEF Broker!BrokerAssumption

LEMMA BrokerConsumerCorrect ==
  ASSUME Broker!BrokerAssumption, BrokerIInv, NEW c \in BrokerConsumers, Broker!Consumer(c)
  PROVE  BrokerIInv'
<1>1. c \in Broker!Callers
  BY DEF Broker!Callers
<1>2. CASE Broker!LockConsumers(c)
  BY <1>1, <1>2, BrokerCallMoves DEF BrokerPlaces, Broker!LockConsumers
<1>3. CASE Broker!Connect(c)
  BY <1>1, <1>3, BrokerCallMoves DEF BrokerPlaces, Broker!Connect
<1>4. CASE Broker!Dial(c)
  BY <1>1, <1>4, BrokerCallMoves DEF BrokerPlaces, Broker!Dial
<1>5. CASE Broker!MakeRabbitConsumer(c)
  BY <1>1, <1>5, BrokerCallMoves DEF BrokerPlaces, Broker!MakeRabbitConsumer,
     Broker!Fails
<1>6. CASE Broker!MakeRocketConsumer(c)
  BY <1>1, <1>6, BrokerCallMoves DEF BrokerPlaces, Broker!MakeRocketConsumer,
     Broker!Fails
<1>7. CASE Broker!AssignErr(c)
  <2>1. /\ call[c] = "assign" /\ err' = [err EXCEPT ![c] = FALSE]
        /\ call' = [call EXCEPT ![c] = "check"]
        /\ UNCHANGED Broker!broker
    BY <1>7 DEF Broker!AssignErr, Broker!Goes
  <2>2. BrokerTyped'
    BY <1>1, <2>1 DEF BrokerIInv, BrokerTyped, BrokerPlaces, Broker!broker
  <2>3. ASSUME NEW m \in Messages, message'[m] = "answering"
        PROVE  /\ m \in succeeded' \cup early' \/ err'[To[m]]
               /\ call'[To[m]] # "returned" => m \in early'
    <3>1. To[m] \in BrokerConsumers /\ To[m] \in Broker!Callers
      BY BrokerCallersOf
    <3>2. CASE To[m] = c
      BY <2>1, <2>3, <3>1, <3>2 DEF BrokerIInv, BrokerTyped, Broker!broker
    <3>3. CASE To[m] # c
      BY <1>1, <2>1, <2>3, <3>1, <3>3 DEF BrokerIInv, BrokerTyped, Broker!broker
    <3> QED  BY <3>2, <3>3
  <2>4. \A m, n \in Messages : (BrokerEngaged(m) /\ BrokerEngaged(n) /\ To[m] = To[n])' => m = n
    BY <2>1 DEF BrokerIInv, BrokerEngaged, Broker!broker
  <2>5. Broker!AckedWasHandledOrEarly'
    BY <2>1 DEF BrokerIInv, Broker!AckedWasHandledOrEarly, Broker!broker
  <2> QED  BY <2>2, <2>3, <2>4, <2>5 DEF BrokerIInv
<1>8. CASE Broker!CheckErr(c)
  BY <1>1, <1>8, BrokerCallMoves DEF BrokerPlaces, Broker!CheckErr
<1>9. CASE Broker!Subscribe(c)
  BY <1>1, <1>9, BrokerCallMoves DEF BrokerPlaces, Broker!Subscribe
<1> QED  BY <1>2, <1>3, <1>4, <1>5, <1>6, <1>7, <1>8, <1>9 DEF Broker!Consumer

\* A message becomes ready, acknowledged or delivered; what was handled stays.
LEMMA BrokerSendCorrect ==
  ASSUME Broker!BrokerAssumption, BrokerIInv, NEW m \in Messages, Broker!Send(m)
  PROVE  BrokerIInv'
<1>1. CASE Broker!Goes(m, "failed") /\ UNCHANGED message
  BY <1>1, BrokerCallMoves, BrokerCallersOf DEF BrokerPlaces, Broker!Send, Broker!broker
<1>2. CASE Broker!Goes(m, "returned") /\ message' = [message EXCEPT ![m] = "ready"]
  <2>1. /\ call[m] = "send" /\ call' = [call EXCEPT ![m] = "returned"]
        /\ err' = err /\ succeeded' = succeeded /\ early' = early
    BY <1>2 DEF Broker!Send, Broker!Goes
  <2>2. BrokerTyped'
    BY <1>2, <2>1, BrokerCallersOf DEF BrokerIInv, BrokerTyped, BrokerPlaces
  <2>3. \A n \in Messages : /\ n # m => message'[n] = message[n]
                            /\ n = m => message'[n] = "ready"
    BY <1>2 DEF BrokerIInv, BrokerTyped
  <2>4. \A n \in Messages : call'[To[n]] # "returned" => call[To[n]] # "returned"
    BY <2>1, BrokerCallersOf DEF BrokerIInv, BrokerTyped
  <2>5. \A n \in Messages : message'[n] = "answering" =>
          /\ n \in succeeded' \cup early' \/ err'[To[n]]
          /\ call'[To[n]] # "returned" => n \in early'
    BY <2>1, <2>3, <2>4 DEF BrokerIInv
  <2>6. \A i, n \in Messages : (BrokerEngaged(i) /\ BrokerEngaged(n) /\ To[i] = To[n])' => i = n
    BY <2>3 DEF BrokerIInv, BrokerEngaged
  <2>7. Broker!AckedWasHandledOrEarly'
    BY <2>1, <2>3 DEF BrokerIInv, Broker!AckedWasHandledOrEarly
  <2> QED  BY <2>2, <2>5, <2>6, <2>7 DEF BrokerIInv
<1> QED  BY <1>1, <1>2 DEF Broker!Send

LEMMA BrokerPublishCorrect ==
  ASSUME Broker!BrokerAssumption, BrokerIInv, NEW m \in Messages, Broker!Publish(m)
  PROVE  BrokerIInv'
<1>1. m \in Broker!Callers
  BY DEF Broker!Callers
<1>2. CASE Broker!FindProducer(m)
  BY <1>1, <1>2, BrokerCallMoves DEF BrokerPlaces, Broker!FindProducer
<1>3. CASE Broker!Connect(m)
  BY <1>1, <1>3, BrokerCallMoves DEF BrokerPlaces, Broker!Connect
<1>4. CASE Broker!Dial(m)
  BY <1>1, <1>4, BrokerCallMoves DEF BrokerPlaces, Broker!Dial
<1>5. CASE Broker!MakeRabbitProducer(m)
  BY <1>1, <1>5, BrokerCallMoves DEF BrokerPlaces, Broker!MakeRabbitProducer,
     Broker!Made
<1>6. CASE Broker!MakeRocketProducer(m)
  BY <1>1, <1>6, BrokerCallMoves DEF BrokerPlaces, Broker!MakeRocketProducer,
     Broker!Made
<1>7. CASE Broker!Send(m)
  BY <1>7, BrokerSendCorrect
<1> QED  BY <1>2, <1>3, <1>4, <1>5, <1>6, <1>7 DEF Broker!Publish

-----------------------------------------------------------------------------
(* The closure *)

\* FiniteSets is the same wherever it is extended.
LEMMA BrokerCardinality == ASSUME NEW S PROVE Broker!Cardinality(S) = Cardinality(S)
BY DEF Broker!Cardinality, Cardinality

LEMMA BrokerFinite == ASSUME NEW S PROVE Broker!IsFiniteSet(S) <=> IsFiniteSet(S)
BY DEF Broker!IsFiniteSet, IsFiniteSet

\* Deliver finds the consumer idle when it runs one closure at a time.
LEMMA BrokerNobodyBusy ==
  ASSUME Broker!BrokerAssumption, Concurrency = 1, NEW m \in Messages, Broker!Deliver(m)
  PROVE  \A n \in Messages : To[n] = To[m] => ~BrokerEngaged(n)
<1>1. IsFiniteSet(Broker!Busy(To[m]))
  BY BrokerFinite, FS_Subset DEF Broker!BrokerAssumption, Broker!Busy
<1>2. Cardinality(Broker!Busy(To[m])) \in Nat /\ Cardinality(Broker!Busy(To[m])) < 1
  BY <1>1, BrokerCardinality, FS_CardinalityType DEF Broker!Deliver
<1>3. Broker!Busy(To[m]) = {}
  BY <1>1, <1>2, FS_EmptySet
<1> QED  BY <1>3 DEF Broker!Busy, BrokerEngaged

LEMMA BrokerDeliverCorrect ==
  ASSUME Broker!BrokerAssumption, Concurrency = 1, BrokerIInv, NEW m \in Messages, Broker!Deliver(m)
  PROVE  BrokerIInv'
<1>1. /\ message' = [message EXCEPT ![m] = "handling"]
      /\ call' = call /\ err' = err /\ succeeded' = succeeded /\ early' = early
  BY DEF Broker!Deliver
<1>2. BrokerTyped'
  BY <1>1 DEF BrokerIInv, BrokerTyped
<1>3. \A n \in Messages : /\ n # m => message'[n] = message[n]
                          /\ n = m => message'[n] = "handling"
  BY <1>1 DEF BrokerIInv, BrokerTyped
<1>4. \A i, n \in Messages : (BrokerEngaged(i) /\ BrokerEngaged(n) /\ To[i] = To[n])' => i = n
  BY <1>3, BrokerNobodyBusy DEF BrokerIInv, BrokerEngaged
<1>5. \A n \in Messages : message'[n] = "answering" =>
        /\ n \in succeeded' \cup early' \/ err'[To[n]]
        /\ call'[To[n]] # "returned" => n \in early'
  BY <1>1, <1>3 DEF BrokerIInv
<1>6. Broker!AckedWasHandledOrEarly'
  BY <1>1, <1>3 DEF BrokerIInv, Broker!AckedWasHandledOrEarly
<1> QED  BY <1>2, <1>4, <1>5, <1>6 DEF BrokerIInv

\* err is assigned while no other message of the consumer waits to be answered.
LEMMA BrokerHandlerCorrect ==
  ASSUME Broker!BrokerAssumption, BrokerIInv, NEW m \in Messages, Broker!HandlerReturns(m)
  PROVE  BrokerIInv'
<1>1. /\ message[m] = "handling"
      /\ message' = [message EXCEPT ![m] = "answering"]
      /\ call' = call
      /\ early' = IF call[To[m]] = "returned" THEN early ELSE early \cup {m}
  BY DEF Broker!HandlerReturns
<1>2. To[m] \in BrokerConsumers
  BY BrokerCallersOf
<1>3. \/ err' = [err EXCEPT ![To[m]] = FALSE] /\ succeeded' = succeeded \cup {m}
      \/ err' = [err EXCEPT ![To[m]] = TRUE] /\ succeeded' = succeeded
  BY DEF Broker!HandlerReturns
<1>4. BrokerTyped'
  BY <1>1, <1>2, <1>3 DEF BrokerIInv, BrokerTyped
<1>5. \A n \in Messages : /\ n # m => message'[n] = message[n]
                          /\ n = m => message'[n] = "answering"
  BY <1>1 DEF BrokerIInv, BrokerTyped
<1>6. \A i, n \in Messages : (BrokerEngaged(i) /\ BrokerEngaged(n) /\ To[i] = To[n])' => i = n
  BY <1>1, <1>5 DEF BrokerIInv, BrokerEngaged
<1>7. ASSUME NEW n \in Messages, message'[n] = "answering"
      PROVE  /\ n \in succeeded' \cup early' \/ err'[To[n]]
             /\ call'[To[n]] # "returned" => n \in early'
  <2>1. To[n] \in BrokerConsumers
    BY BrokerCallersOf
  <2>2. CASE n = m
    BY <1>1, <1>2, <1>3, <2>2 DEF BrokerIInv, BrokerTyped
  <2>3. CASE n # m
    <3>1. message[n] = "answering" /\ To[n] # To[m]
      BY <1>1, <1>5, <1>7, <2>3 DEF BrokerIInv, BrokerEngaged
    <3>2. err'[To[n]] = err[To[n]]
      BY <1>3, <2>1, <3>1 DEF BrokerIInv, BrokerTyped
    <3> QED  BY <1>1, <1>3, <3>1, <3>2 DEF BrokerIInv
  <2> QED  BY <2>2, <2>3
<1>8. Broker!AckedWasHandledOrEarly'
  BY <1>1, <1>3, <1>5 DEF BrokerIInv, Broker!AckedWasHandledOrEarly
<1> QED  BY <1>4, <1>6, <1>7, <1>8 DEF BrokerIInv

LEMMA BrokerAnswerCorrect ==
  ASSUME Broker!BrokerAssumption, BrokerIInv, NEW m \in Messages, Broker!Answer(m)
  PROVE  BrokerIInv'
<1>1. /\ message[m] = "answering"
      /\ call' = call /\ err' = err /\ succeeded' = succeeded /\ early' = early
  BY DEF Broker!Answer
<1>2. PICK to \in {"ready", "acked"} :
        /\ message' = [message EXCEPT ![m] = to]
        /\ to = "acked" => ~err[To[m]]
  BY DEF Broker!Answer, Broker!AnswerOf
<1>3. BrokerTyped'
  BY <1>1, <1>2 DEF BrokerIInv, BrokerTyped
<1>4. \A n \in Messages : /\ n # m => message'[n] = message[n]
                          /\ n = m => message'[n] = to
  BY <1>2 DEF BrokerIInv, BrokerTyped
<1>5. \A i, n \in Messages : (BrokerEngaged(i) /\ BrokerEngaged(n) /\ To[i] = To[n])' => i = n
  BY <1>4 DEF BrokerIInv, BrokerEngaged
<1>6. \A n \in Messages : message'[n] = "answering" =>
        /\ n \in succeeded' \cup early' \/ err'[To[n]]
        /\ call'[To[n]] # "returned" => n \in early'
  BY <1>1, <1>4 DEF BrokerIInv
<1>7. to = "acked" => m \in succeeded \cup early
  BY <1>1, <1>2 DEF BrokerIInv
<1>8. Broker!AckedWasHandledOrEarly'
  BY <1>1, <1>4, <1>7 DEF BrokerIInv, Broker!AckedWasHandledOrEarly
<1> QED  BY <1>3, <1>5, <1>6, <1>8 DEF BrokerIInv

LEMMA BrokerNextCorrect ==
  ASSUME Broker!BrokerAssumption, Concurrency = 1, BrokerIInv, [Broker!Next]_(Broker!vars)
  PROVE  BrokerIInv'
<1>1. ASSUME NEW c \in BrokerConsumers, Broker!Consumer(c) PROVE BrokerIInv'
  BY <1>1, BrokerConsumerCorrect
<1>2. ASSUME NEW m \in Messages, Broker!Publish(m) PROVE BrokerIInv'
  BY <1>2, BrokerPublishCorrect
<1>3. ASSUME NEW m \in Messages, Broker!Closure(m) PROVE BrokerIInv'
  BY <1>3, BrokerDeliverCorrect, BrokerHandlerCorrect, BrokerAnswerCorrect DEF
     Broker!Closure
<1>4. ASSUME UNCHANGED << call, err, Broker!broker >> PROVE BrokerIInv'
  BY <1>4 DEF BrokerIInv, BrokerTyped, BrokerEngaged, Broker!AckedWasHandledOrEarly,
     Broker!broker
<1>5. CASE Broker!Run \/ Broker!Shutdown
  BY <1>4, <1>5 DEF Broker!Run, Broker!Shutdown
<1>6. CASE UNCHANGED Broker!vars
  BY <1>4, <1>6 DEF Broker!vars
<1> QED  BY <1>1, <1>2, <1>3, <1>5, <1>6 DEF Broker!Next

-----------------------------------------------------------------------------
\* With one goroutine per consumer a message that a RabbitMQ or RocketMQ
\* consumer acknowledges has been handled, or was given to the handler while
\* Consumer had yet to return, for any number of messages and consumers.
THEOREM AckedCorrect == ASSUME Concurrency = 1 PROVE Spec => []AckedWasHandledOrEarly
<1>1. Broker!Init => BrokerIInv
  BY ServicesAssumption, BrokerInitCorrect
<1>2. BrokerIInv /\ [Broker!Next]_(Broker!vars) => BrokerIInv'
  BY ServicesAssumption, BrokerNextCorrect
<1>3. BrokerIInv => AckedWasHandledOrEarly
  BY DEF BrokerIInv, AckedWasHandledOrEarly
<1>4. Init => Broker!Init
  BY DEF Init
<1>5. [Next]_vars => [Broker!Next]_(Broker!vars)
  BY BrokerFrame
<1> QED  BY <1>1, <1>2, <1>3, <1>4, <1>5, PTL DEF Spec

-----------------------------------------------------------------------------
(* The queue in memory: what MemoryQueue_proofs shows of it, for Queue here *)

Proof == INSTANCE MemoryQueue_proofs WITH Consumers <- QueueConsumers

LEMMA QueueCallersGiven == Proof!QueueCallersAssumption
BY ServicesAssumption DEF Proof!QueueCallersAssumption, Queue!QueueCallersAssumption,
   Queue!Callers, Proof!Callers

LEMMA QueueInit == ASSUME Init PROVE Proof!Init
BY DEF Init, Queue!Init, Proof!Init, Proof!Callers, Queue!Callers, Proof!NoQueue,
   Queue!NoQueue

\* Both instances of MemoryQueue take the same steps.
LEMMA QueueStep == ASSUME [Queue!Next]_(Queue!vars) PROVE [Proof!Next]_(Proof!vars)
<1>1. ASSUME NEW p PROVE Queue!Load(p) <=> Proof!Load(p)
  BY DEF Queue!Load, Proof!Load, Queue!NoQueue, Proof!NoQueue, Queue!service,
     Proof!service
<1>2. ASSUME NEW p PROVE Queue!Store(p) <=> Proof!Store(p)
  BY DEF Queue!Store, Proof!Store, Queue!service, Proof!service
<1>3. ASSUME NEW p PROVE Queue!Send(p) <=> Proof!Send(p)
  BY DEF Queue!Send, Proof!Send, Queue!service, Proof!service, Queue!HasRoom,
     Proof!HasRoom
<1>4. ASSUME NEW p, NEW c PROVE Queue!SendTo(p, c) <=> Proof!SendTo(p, c)
  BY DEF Queue!SendTo, Proof!SendTo, Queue!service, Proof!service, Queue!Idle,
     Proof!Idle
<1>5. ASSUME NEW c PROVE Queue!Receive(c) <=> Proof!Receive(c)
  BY DEF Queue!Receive, Proof!Receive, Queue!Idle, Proof!Idle, Queue!lookup,
     Proof!lookup, Queue!service, Proof!service
<1>6. ASSUME NEW c PROVE Queue!Handle(c) <=> Proof!Handle(c)
  BY DEF Queue!Handle, Proof!Handle, Queue!lookup, Proof!lookup, Queue!service,
     Proof!service
<1>7. ASSUME NEW c PROVE Queue!Fail(c) <=> Proof!Fail(c)
  BY DEF Queue!Fail, Proof!Fail, Queue!lookup, Proof!lookup, Queue!service,
     Proof!service
<1>8. ASSUME NEW c PROVE Queue!PutBack(c) <=> Proof!PutBack(c)
  BY DEF Queue!PutBack, Proof!PutBack, Queue!lookup, Proof!lookup, Queue!service,
     Proof!service, Queue!HasRoom, Proof!HasRoom
<1>9. ASSUME NEW c, NEW d PROVE Queue!PutBackTo(c, d) <=> Proof!PutBackTo(c, d)
  BY DEF Queue!PutBackTo, Proof!PutBackTo, Queue!lookup, Proof!lookup, Queue!service,
     Proof!service, Queue!Idle, Proof!Idle
<1>10. Queue!Service <=> Proof!Service
  BY DEF Queue!Service, Proof!Service, Queue!lookup, Proof!lookup, Queue!Run, Proof!Run,
     Queue!Shutdown, Proof!Shutdown, Queue!RunReturns, Proof!RunReturns
<1>11. UNCHANGED Queue!vars <=> UNCHANGED Proof!vars
  BY DEF Queue!vars, Proof!vars, Queue!lookup, Proof!lookup, Queue!service,
     Proof!service
<1>12. \A m : Queue!Publish(m) <=> Proof!Publish(m)
  BY <1>1, <1>2, <1>3, <1>4 DEF Queue!Publish, Proof!Publish
<1>13. \A c : Queue!Consumer(c) <=> Proof!Consumer(c)
  BY <1>1, <1>2, <1>5, <1>6, <1>7, <1>8, <1>9 DEF Queue!Consumer, Proof!Consumer
<1> QED BY <1>10, <1>11, <1>12, <1>13 DEF Queue!Next, Proof!Next

LEMMA SameWork == Proof!workOf = Queue!workOf
BY DEF Proof!workOf, Queue!workOf

LEMMA PromiseInit == ASSUME Proof!Promise!Init PROVE Queue!Promise!Init
BY SameWork DEF Proof!Promise!Init, Queue!Promise!Init

LEMMA QueueStepRefines ==
  ASSUME Proof!IInv, Proof!IInv', [Proof!Next]_(Proof!vars)
  PROVE  [Proof!Promise!Next]_(Proof!workOf)
BY QueueCallersGiven, Proof!NextRefines

LEMMA PromiseStep ==
  ASSUME [Proof!Promise!Next]_(Proof!workOf)
  PROVE  [Queue!Promise!Next]_(Queue!workOf)
<1>1. Proof!workOf = Queue!workOf
  BY SameWork
<1>2. Proof!workOf' = Queue!workOf'
  BY DEF Proof!workOf, Queue!workOf
<1>3. ASSUME NEW m PROVE Proof!Promise!Submit(m) => Queue!Promise!Submit(m)
  BY <1>1, <1>2 DEF Proof!Promise!Submit, Queue!Promise!Submit
<1>4. ASSUME NEW m PROVE Proof!Promise!Succeed(m) => Queue!Promise!Succeed(m)
  BY <1>1, <1>2 DEF Proof!Promise!Succeed, Queue!Promise!Succeed
<1>5. ASSUME NEW m PROVE Proof!Promise!GiveBack(m) => Queue!Promise!GiveBack(m)
  BY <1>1, <1>2 DEF Proof!Promise!GiveBack, Queue!Promise!GiveBack
<1>6. ASSUME NEW m, NEW c PROVE Proof!Promise!Begin(m, c) => Queue!Promise!Begin(m, c)
  BY <1>1, <1>2 DEF Proof!Promise!Begin, Queue!Promise!Begin
<1> QED  BY <1>1, <1>2, <1>3, <1>4, <1>5, <1>6 DEF Proof!Promise!Next,
            Queue!Promise!Next

\* The queue in memory keeps the promise of WorkQueue for any callers, keys and
\* capacity, with calls of Publish and Consumer looking queues up at the same time.
THEOREM QueueImplements == Spec => ImplementsWorkQueue
<1>1. Init => Proof!Init
  BY QueueInit
<1>2. [Next]_vars => [Proof!Next]_(Proof!vars)
  BY QueueFrame, QueueStep
<1>3. Proof!Init => Proof!IInv
  BY QueueCallersGiven, Proof!InitCorrect
<1>4. Proof!IInv /\ [Proof!Next]_(Proof!vars) => Proof!IInv'
  BY QueueCallersGiven, Proof!NextCorrect
<1>5. Proof!Init => Queue!Promise!Init
  BY QueueCallersGiven, PromiseInit, Proof!InitRefines
<1>6. Proof!IInv /\ Proof!IInv' /\ [Proof!Next]_(Proof!vars) => [Queue!Promise!Next]_(Queue!workOf)
  BY QueueStepRefines, PromiseStep
<1> QED BY <1>1, <1>2, <1>3, <1>4, <1>5, <1>6, PTL DEF Spec, ImplementsWorkQueue,
           Queue!ImplementsWorkQueue, Queue!Promise!Spec

-----------------------------------------------------------------------------
(* The caches *)

LEMMA CacheFrame == ASSUME [Next]_vars PROVE [Cache!Next]_(Cache!vars)
BY DEF Next, vars, cacheVars, Cache!vars, Cache!store, Cache!client,
       Cache!counting, Cache!captchas

\* What a client has in hand, by where it is.  The counter is as far from 0 as
\* there have been calls at most, so that it is never taken for no value.
CacheHand(c) ==
  /\ Cache!Updating(c) =>
       /\ ~redis /\ num[c] \in {-1, 0, 1}
       /\ got[c] \in -calls..calls /\ got[c] + num[c] \in -calls..calls
  /\ at[c] \in {"delete", "compare"} =>
       got[c] \in (1..sets) \cup {Cache!Absent} /\ num[c] \in 0..MaxSets

CachePlaces == {"idle", "getexpire", "set", "setexpire", "delete", "compare"}

CacheTyped ==
  /\ redis \in BOOLEAN
  /\ value \in [Cache!CacheKeys -> Int] /\ ttl \in [Cache!CacheKeys -> BOOLEAN]
  /\ at \in [Clients -> CachePlaces] /\ got \in [Clients -> Int]
  /\ left \in [Clients -> {"none", "some", "gone"}] /\ num \in [Clients -> Int]
  /\ clear \in [Clients -> BOOLEAN] /\ DOMAIN before = Clients
  /\ sets \in 0..MaxSets /\ calls \in 0..MaxCalls
  /\ value[Cache!Counter] \in (-calls..calls) \cup {Cache!Absent}
  /\ value[Cache!Captcha] \in (1..sets) \cup {Cache!Absent}
  /\ \A c \in Clients : CacheHand(c)

\* As long as no two calls have met, whoever is in one has read what is there.
CounterInv ==
  ~clash =>
    /\ value[Cache!Counter] = exact /\ exact \in -calls..calls
    /\ \A c \in Clients : Cache!Updating(c) =>
         /\ got[c] = exact
         /\ at[c] = "set" => left[c] # "gone"
         /\ at[c] = "setexpire" => num[c] = 0

LEMMA CacheInitTyped ==
  ASSUME Cache!CacheAssumption, Cache!Init PROVE CacheTyped /\ CounterInv
<1>1. \A c \in Clients : at[c] = "idle" /\ got[c] = Cache!Absent /\ num[c] = 0
  BY DEF Cache!Init
<1>2. value[Cache!Counter] = 0 /\ value[Cache!Captcha] = Cache!Absent
  BY DEF Cache!Init, Cache!CacheKeys, Cache!Counter, Cache!Captcha
<1>3. CounterInv
  BY <1>1, <1>2 DEF Cache!Init, CounterInv, Cache!Updating
<1>4. \A c \in Clients : CacheHand(c)
  BY <1>1 DEF CacheHand, Cache!Updating
<1>5. Cache!Absent \in Int
  BY DEF Cache!Absent, Cache!CacheAssumption
<1>6. value \in [Cache!CacheKeys -> Int]
  BY <1>5 DEF Cache!Init
<1>7. got \in [Clients -> Int] /\ num \in [Clients -> Int] /\ DOMAIN before = Clients
  BY <1>5 DEF Cache!Init
<1>8. /\ redis \in BOOLEAN /\ ttl \in [Cache!CacheKeys -> BOOLEAN]
      /\ at \in [Clients -> CachePlaces] /\ left \in [Clients -> {"none", "some", "gone"}]
      /\ clear \in [Clients -> BOOLEAN]
      /\ sets \in 0..MaxSets /\ calls \in 0..MaxCalls
      /\ value[Cache!Counter] \in (-calls..calls) \cup {Cache!Absent}
  BY <1>2 DEF Cache!Init, Cache!CacheAssumption, CachePlaces
<1> QED  BY <1>2, <1>3, <1>4, <1>6, <1>7, <1>8 DEF CacheTyped

LEMMA CacheLapse ==
  ASSUME Cache!CacheAssumption, CacheTyped, CounterInv, NEW k \in Cache!CacheKeys,
         Cache!Lapse(k)
  PROVE  CacheTyped' /\ CounterInv'
BY DEF Cache!CacheAssumption, Cache!Lapse, Cache!Put, CacheTyped, CachePlaces,
   CacheHand, CounterInv,
       Cache!CacheKeys, Cache!Counter, Cache!Captcha, Cache!Absent, Cache!Updating,
       Cache!client, Cache!captchas

LEMMA CacheRedisCalculate ==
  ASSUME Cache!CacheAssumption, CacheTyped, CounterInv, NEW c \in Clients,
         NEW n \in {1, -1}, Cache!RedisCalculate(c, n)
  PROVE  CacheTyped' /\ CounterInv'
BY DEF Cache!CacheAssumption, Cache!RedisCalculate, Cache!Put, CacheTyped, CachePlaces,
   CacheHand,
       CounterInv, Cache!CacheKeys, Cache!Counter, Cache!Captcha, Cache!Absent,
       Cache!Updating, Cache!client, Cache!captchas

LEMMA CacheRedisExpire ==
  ASSUME Cache!CacheAssumption, CacheTyped, CounterInv, NEW c \in Clients,
         Cache!RedisExpire(c)
  PROVE  CacheTyped' /\ CounterInv'
BY DEF Cache!CacheAssumption, Cache!RedisExpire, CacheTyped, CachePlaces, CacheHand,
       CounterInv, Cache!CacheKeys, Cache!Counter, Cache!Captcha, Cache!Absent,
       Cache!Updating, Cache!client, Cache!captchas, Cache!counting

LEMMA CacheGetItem ==
  ASSUME Cache!CacheAssumption, CacheTyped, CounterInv, NEW c \in Clients,
         NEW n \in {-1, 0, 1}, NEW next,
         next = "getexpire" \/ (next = "setexpire" /\ n = 0),
         Cache!GetItem(c, n, next)
  PROVE  CacheTyped' /\ CounterInv'
BY DEF Cache!CacheAssumption, Cache!GetItem, CacheTyped, CachePlaces, CacheHand,
   Cache!Goes,
       CounterInv, Cache!CacheKeys, Cache!Counter, Cache!Captcha, Cache!Absent,
       Cache!Updating, Cache!store, Cache!captchas

LEMMA CacheGetExpire ==
  ASSUME Cache!CacheAssumption, CacheTyped, CounterInv, NEW c \in Clients,
         Cache!GetExpire(c)
  PROVE  CacheTyped' /\ CounterInv'
BY DEF Cache!CacheAssumption, Cache!GetExpire, CacheTyped, CachePlaces, CacheHand,
   Cache!Goes,
       CounterInv, Cache!CacheKeys, Cache!Counter, Cache!Captcha, Cache!Absent,
       Cache!Updating, Cache!store, Cache!captchas, Cache!counting

LEMMA CacheSetItem ==
  ASSUME Cache!CacheAssumption, CacheTyped, CounterInv, NEW c \in Clients,
         Cache!SetItem(c)
  PROVE  CacheTyped' /\ CounterInv'
<1>1. PICK v :
        /\ value' = [value EXCEPT ![Cache!Counter] = v]
        /\ \/ at[c] = "set" /\ left[c] = "gone" /\ v = Cache!Absent
           \/ v = got[c] + num[c]
           \/ at[c] = "setexpire" /\ v = got[c]
  BY DEF Cache!SetItem, Cache!Put, Cache!Sum
<1>7. ttl' \in [Cache!CacheKeys -> BOOLEAN]
  BY DEF Cache!SetItem, Cache!Put, CacheTyped
<1>2. redis' = redis
  BY DEF Cache!SetItem, Cache!Put
<1>3. Cache!Updating(c)
  BY DEF Cache!SetItem, Cache!Updating
<1>4. v \in (-calls..calls) \cup {Cache!Absent} /\ v \in Int
  BY <1>1, <1>3 DEF CacheTyped, CacheHand, Cache!Absent, Cache!CacheAssumption
<1>5. CacheTyped'
  BY <1>1, <1>2, <1>4, <1>7
     DEF Cache!CacheAssumption, Cache!SetItem, CacheTyped, CachePlaces, CacheHand,
         Cache!Goes, Cache!CacheKeys, Cache!Counter, Cache!Captcha, Cache!Absent,
         Cache!Updating, Cache!captchas
<1>6. CounterInv'
  <2> SUFFICES ASSUME ~clash'
               PROVE  /\ value'[Cache!Counter] = exact' /\ exact' \in -calls..calls
                      /\ \A d \in Clients : ~Cache!Updating(d)'
    BY DEF CounterInv, Cache!SetItem, Cache!captchas
  <2>1. ~clash /\ \A d \in Clients \ {c} : ~Cache!Updating(d)
    BY DEF Cache!SetItem
  <2>2. at' = [at EXCEPT ![c] = "idle"] /\ exact' = exact + num[c]
    BY DEF Cache!SetItem, Cache!Goes
  <2>3. got[c] = exact /\ (at[c] = "set" => left[c] # "gone")
        /\ (at[c] = "setexpire" => num[c] = 0)
    BY <1>3, <2>1 DEF CounterInv
  <2>4. v = exact + num[c] /\ v \in -calls..calls
    BY <1>1, <1>3, <2>3 DEF CacheTyped, CacheHand
  <2>5. value'[Cache!Counter] = v
    BY <1>1 DEF CacheTyped, Cache!CacheKeys
  <2> QED  BY <2>1, <2>2, <2>4, <2>5 DEF CacheTyped, Cache!Updating
<1> QED  BY <1>5, <1>6

LEMMA CacheSetCaptcha ==
  ASSUME Cache!CacheAssumption, CacheTyped, CounterInv, Cache!SetCaptcha
  PROVE  CacheTyped' /\ CounterInv'
BY DEF Cache!CacheAssumption, Cache!SetCaptcha, CacheTyped, CachePlaces, CacheHand,
   Cache!Put,
       CounterInv, Cache!CacheKeys, Cache!Counter, Cache!Captcha, Cache!Absent,
       Cache!Updating, Cache!client, Cache!counting

LEMMA CacheVerifyGet ==
  ASSUME Cache!CacheAssumption, CacheTyped, CounterInv, NEW c \in Clients,
         NEW answer \in 0..MaxSets, NEW clr \in BOOLEAN, Cache!VerifyGet(c, answer, clr)
  PROVE  CacheTyped' /\ CounterInv'
BY DEF Cache!CacheAssumption, Cache!VerifyGet, CacheTyped, CachePlaces, CacheHand,
   Cache!Goes,
       CounterInv, Cache!CacheKeys, Cache!Counter, Cache!Captcha, Cache!Absent,
       Cache!Updating, Cache!store, Cache!counting, Cache!AfterGet

LEMMA CacheVerifyDel ==
  ASSUME Cache!CacheAssumption, CacheTyped, CounterInv, NEW c \in Clients,
         Cache!VerifyDel(c)
  PROVE  CacheTyped' /\ CounterInv'
<1>1. redis' = redis /\ at' = [at EXCEPT ![c] = "compare"] /\ at[c] = "delete"
  BY DEF Cache!VerifyDel, Cache!Put, Cache!Goes, Cache!store
<1>2. /\ value' \in [Cache!CacheKeys -> Int] /\ ttl' \in [Cache!CacheKeys -> BOOLEAN]
      /\ value'[Cache!Counter] = value[Cache!Counter]
      /\ value'[Cache!Captcha] \in {value[Cache!Captcha], Cache!Absent}
  <2>1. ttl' \in [Cache!CacheKeys -> BOOLEAN]
    BY DEF Cache!VerifyDel, Cache!Put, Cache!store, CacheTyped
  <2>2. \/ value' = [value EXCEPT ![Cache!Captcha] = Cache!Absent]
        \/ value' = value
    BY DEF Cache!VerifyDel, Cache!Put, Cache!store
  <2> QED  BY <2>1, <2>2 DEF CacheTyped, Cache!CacheKeys, Cache!Counter, Cache!Captcha,
              Cache!Absent, Cache!CacheAssumption
<1>3. UNCHANGED << got, left, num, clear, calls, exact, clash, sets, before >>
  BY DEF Cache!VerifyDel, Cache!counting
<1>4. \A d \in Clients : Cache!Updating(d)' <=> Cache!Updating(d)
  BY <1>1 DEF CacheTyped, Cache!Updating
<1>9. \A d \in Clients : Cache!Updating(d) => at'[d] = at[d]
  BY <1>1 DEF CacheTyped, Cache!Updating
<1>5. \A d \in Clients : CacheHand(d)'
  BY <1>1, <1>3, <1>4 DEF CacheTyped, CacheHand, Cache!Absent
<1>6. at' \in [Clients -> CachePlaces]
  BY <1>1 DEF CacheTyped, CachePlaces
<1>7. CacheTyped'
  <2>1. value'[Cache!Captcha] \in (1..sets) \cup {Cache!Absent}
    BY <1>2 DEF CacheTyped
  <2> QED  BY <1>1, <1>2, <1>3, <1>5, <1>6, <2>1 DEF CacheTyped, Cache!Absent
<1>8. CounterInv'
  BY <1>2, <1>3, <1>4, <1>9 DEF CounterInv
<1> QED  BY <1>7, <1>8

LEMMA CacheVerifyReturn ==
  ASSUME Cache!CacheAssumption, CacheTyped, CounterInv, NEW c \in Clients,
         Cache!VerifyReturn(c)
  PROVE  CacheTyped' /\ CounterInv'
BY DEF Cache!CacheAssumption, Cache!VerifyReturn, CacheTyped, CachePlaces, CacheHand,
   Cache!Goes,
       CounterInv, Cache!CacheKeys, Cache!Counter, Cache!Captcha, Cache!Absent,
       Cache!Updating, Cache!store, Cache!counting

LEMMA CacheNextTyped ==
  ASSUME Cache!CacheAssumption, CacheTyped, CounterInv, [Cache!Next]_(Cache!vars)
  PROVE  CacheTyped' /\ CounterInv'
<1>1. ASSUME NEW k \in Cache!CacheKeys, Cache!Lapse(k) PROVE CacheTyped' /\ CounterInv'
  BY <1>1, CacheLapse
<1>2. ASSUME NEW c \in Clients, Cache!Update(c) PROVE CacheTyped' /\ CounterInv'
  <2>1. ASSUME NEW n \in {1, -1}, Cache!RedisCalculate(c, n)
        PROVE  CacheTyped' /\ CounterInv'
    BY <2>1, CacheRedisCalculate
  <2>2. ASSUME NEW n \in {1, -1}, Cache!GetItem(c, n, "getexpire")
        PROVE  CacheTyped' /\ CounterInv'
    BY <2>2, CacheGetItem
  <2>3. CASE Cache!GetItem(c, 0, "setexpire")
    BY <2>3, CacheGetItem
  <2> QED  BY <1>2, <2>1, <2>2, <2>3, CacheRedisExpire, CacheGetExpire, CacheSetItem
           DEF Cache!Update
<1>3. ASSUME NEW c \in Clients, Cache!Verify(c) PROVE CacheTyped' /\ CounterInv'
  <2>1. ASSUME NEW answer \in 0..MaxSets, NEW clr \in BOOLEAN,
               Cache!VerifyGet(c, answer, clr)
        PROVE  CacheTyped' /\ CounterInv'
    BY <2>1, CacheVerifyGet
  <2> QED  BY <1>3, <2>1, CacheVerifyDel, CacheVerifyReturn DEF Cache!Verify
<1>4. CASE Cache!SetCaptcha
  BY <1>4, CacheSetCaptcha
<1>5. CASE UNCHANGED Cache!vars
  BY <1>5 DEF CacheTyped, CacheHand, CounterInv, Cache!Updating, Cache!vars,
     Cache!store, Cache!client, Cache!counting, Cache!captchas
<1> QED  BY <1>1, <1>2, <1>3, <1>4, <1>5 DEF Cache!Next

\* Calls of Increase, Decrease and Expire that do not meet add up, for any number
\* of clients and calls, in either cache, and in Redis also when they do meet.
THEOREM CounterCorrect == Spec => []CounterExact
<1>1. Cache!Init => CacheTyped /\ CounterInv
  BY ServicesAssumption, CacheInitTyped
<1>2. CacheTyped /\ CounterInv /\ [Cache!Next]_(Cache!vars) => (CacheTyped /\ CounterInv)'
  BY ServicesAssumption, CacheNextTyped
<1>3. CounterInv => CounterExact
  BY DEF CounterInv, CounterExact, Cache!CounterExact
<1>4. Init => Cache!Init
  BY DEF Init
<1>5. [Next]_vars => [Cache!Next]_(Cache!vars)
  BY CacheFrame
<1> QED  BY <1>1, <1>2, <1>3, <1>4, <1>5, PTL DEF Spec

\* A captcha that has been spent is in the cache no more, nor with a client who
\* began after, unless its deletion failed; a client who asked for one to be
\* deleted does not compare before that.
CaptchaReused ==
  /\ reused \subseteq (1..sets) \X (0..MaxSets)
  /\ \A p \in reused : p[2] # Cache!Empty => p[1] \in undeleted

CaptchaInv ==
  /\ spent \subseteq 1..sets
  /\ value[Cache!Captcha] \notin spent \ undeleted
  /\ before \in [Clients -> SUBSET (1..sets)]
  /\ \A c \in Clients :
       /\ at[c] \in {"delete", "compare"} => got[c] \notin before[c] \ undeleted
       /\ at[c] = "compare" /\ clear[c] /\ got[c] # Cache!Absent =>
            got[c] \in undeleted \/ value[Cache!Captcha] # got[c]
  /\ CaptchaReused

LEMMA CaptchaUpdate ==
  ASSUME CacheTyped, CaptchaInv, NEW c \in Clients, Cache!Update(c)
  PROVE  CaptchaInv'
<1>1. UNCHANGED << sets, spent, before, reused, undeleted, clear >>
  BY DEF Cache!Update, Cache!RedisCalculate, Cache!GetItem, Cache!RedisExpire,
         Cache!GetExpire, Cache!SetItem, Cache!captchas, Cache!client
<1>2. value'[Cache!Captcha] = value[Cache!Captcha]
  BY DEF Cache!Update, Cache!RedisCalculate, Cache!GetItem, Cache!RedisExpire,
         Cache!GetExpire, Cache!SetItem, Cache!Put, Cache!store, CacheTyped,
         Cache!Captcha, Cache!Counter, Cache!CacheKeys
<1>3. \A d \in Clients : at'[d] \in {"delete", "compare"} => at'[d] = at[d] /\ got'[d] = got[d]
  BY DEF Cache!Update, Cache!RedisCalculate, Cache!GetItem, Cache!RedisExpire,
         Cache!GetExpire, Cache!SetItem, Cache!Goes, Cache!client, CacheTyped
<1> QED  BY <1>1, <1>2, <1>3 DEF CaptchaInv, CaptchaReused, Cache!Absent

LEMMA CaptchaLapse ==
  ASSUME Cache!CacheAssumption, CacheTyped, CaptchaInv, NEW k \in Cache!CacheKeys, Cache!Lapse(k)
  PROVE  CaptchaInv'
<1>1. UNCHANGED << at, got, clear, sets, spent, before, reused, undeleted >>
  BY DEF Cache!Lapse, Cache!captchas, Cache!client
<1>2. value'[Cache!Captcha] \in {value[Cache!Captcha], Cache!Absent}
  BY DEF Cache!Lapse, Cache!Put, CacheTyped, Cache!CacheKeys, Cache!Captcha
<1>3. Cache!Absent \notin 1..sets
  BY DEF Cache!Absent, CacheTyped, Cache!CacheAssumption
<1> QED  BY <1>1, <1>2, <1>3 DEF CaptchaInv, CaptchaReused, Cache!Absent

LEMMA CaptchaSet ==
  ASSUME Cache!CacheAssumption, CacheTyped, CaptchaInv, Cache!SetCaptcha
  PROVE  CaptchaInv'
<1>1. UNCHANGED << at, got, clear, spent, before, reused, undeleted >>
  BY DEF Cache!SetCaptcha, Cache!client
<1>2. value'[Cache!Captcha] = sets + 1 /\ sets' = sets + 1 /\ sets \in Nat
  BY DEF Cache!SetCaptcha, Cache!Put, CacheTyped, Cache!CacheKeys, Cache!Captcha
<1>3. \A c \in Clients : at[c] = "compare" => got[c] \in (1..sets) \cup {Cache!Absent}
  BY DEF CacheTyped, CacheHand
<1>4. 1..sets \subseteq 1..(sets + 1) /\ sets + 1 \notin 1..sets
  BY <1>2
<1>5. before' \in [Clients -> SUBSET (1..sets')]
  BY <1>1, <1>2, <1>4 DEF CaptchaInv
<1>6. CaptchaReused'
  BY <1>1, <1>2, <1>4 DEF CaptchaInv, CaptchaReused
<1> QED  BY <1>1, <1>2, <1>3, <1>4, <1>5, <1>6 DEF CaptchaInv, Cache!Absent

LEMMA CaptchaGet ==
  ASSUME Cache!CacheAssumption, CacheTyped, CaptchaInv, NEW c \in Clients,
         NEW answer \in 0..MaxSets, NEW clr \in BOOLEAN, Cache!VerifyGet(c, answer, clr)
  PROVE  CaptchaInv'
<1>1. /\ UNCHANGED << value, sets, spent, reused, undeleted >>
      /\ before' = [before EXCEPT ![c] = spent] /\ clear' = [clear EXCEPT ![c] = clr]
  BY DEF Cache!VerifyGet, Cache!store
<1>2. \E v, p : /\ got' = [got EXCEPT ![c] = v] /\ at' = [at EXCEPT ![c] = p]
                /\ \/ v = value[Cache!Captcha] /\ p = Cache!AfterGet(answer, clr)
                   \/ v = Cache!Absent
  BY DEF Cache!VerifyGet, Cache!Goes
<1>3. PICK v, p : /\ got' = [got EXCEPT ![c] = v] /\ at' = [at EXCEPT ![c] = p]
                  /\ \/ v = value[Cache!Captcha] /\ p = Cache!AfterGet(answer, clr)
                     \/ v = Cache!Absent
  BY <1>2
<1>4. Cache!Absent \notin 1..sets
  BY DEF Cache!Absent, CacheTyped, Cache!CacheAssumption
<1>5. v \notin spent \ undeleted
  BY <1>3, <1>4 DEF CaptchaInv
<1>6. p = "compare" /\ clr => v = Cache!Absent
  BY <1>3 DEF Cache!AfterGet
<1>7. before' \in [Clients -> SUBSET (1..sets)]
  BY <1>1 DEF CaptchaInv
<1>8. ASSUME NEW d \in Clients
      PROVE  /\ at'[d] \in {"delete", "compare"} => got'[d] \notin before'[d] \ undeleted
             /\ at'[d] = "compare" /\ clear'[d] /\ got'[d] # Cache!Absent =>
                  got'[d] \in undeleted \/ value[Cache!Captcha] # got'[d]
  <2>1. CASE d = c
    BY <2>1, <1>1, <1>3, <1>5, <1>6 DEF CacheTyped, CaptchaInv
  <2>2. CASE d # c
    BY <2>2, <1>1, <1>3 DEF CacheTyped, CaptchaInv
  <2> QED  BY <2>1, <2>2
<1>9. CaptchaReused'
  BY <1>1 DEF CaptchaInv, CaptchaReused
<1> QED  BY <1>1, <1>5, <1>7, <1>8, <1>9 DEF CaptchaInv, Cache!Absent

LEMMA CaptchaDelete ==
  ASSUME Cache!CacheAssumption, CacheTyped, CaptchaInv, NEW c \in Clients,
         Cache!VerifyDel(c)
  PROVE  CaptchaInv'
<1>1. /\ UNCHANGED << got, clear, sets, spent, before, reused >>
      /\ at' = [at EXCEPT ![c] = "compare"] /\ at[c] = "delete"
  BY DEF Cache!VerifyDel, Cache!Goes
<1>2. \/ value'[Cache!Captcha] = Cache!Absent /\ undeleted' = undeleted
      \/ value' = value /\ undeleted' = undeleted \cup ({got[c]} \ {Cache!Absent})
  <2>1. CASE Cache!Put(Cache!Captcha, Cache!Absent, FALSE) /\ undeleted' = undeleted
    BY <2>1 DEF Cache!Put, CacheTyped, Cache!CacheKeys
  <2> QED  BY <2>1 DEF Cache!VerifyDel, Cache!store
<1>3. Cache!Absent \notin 1..sets
  BY DEF Cache!Absent, CacheTyped, Cache!CacheAssumption
<1>4. \A d \in Clients : at'[d] = at[d] \/ (d = c /\ at'[d] = "compare")
  BY <1>1 DEF CacheTyped
<1>5. CaptchaReused'
  BY <1>1, <1>2 DEF CaptchaInv, CaptchaReused
<1> QED  BY <1>1, <1>2, <1>3, <1>4, <1>5 DEF CaptchaInv, Cache!Absent

LEMMA CaptchaReturn ==
  ASSUME Cache!CacheAssumption, CacheTyped, CaptchaInv, NEW c \in Clients,
         Cache!VerifyReturn(c)
  PROVE  CaptchaInv'
<1>1. /\ UNCHANGED << value, sets, undeleted >>
      /\ at[c] = "compare" /\ at' = [at EXCEPT ![c] = "idle"]
      /\ got' = [got EXCEPT ![c] = Cache!Absent]
      /\ clear' = [clear EXCEPT ![c] = FALSE] /\ before' = [before EXCEPT ![c] = {}]
      /\ spent' = IF clear[c] /\ got[c] # Cache!Absent THEN spent \cup {got[c]} ELSE spent
      /\ reused' = reused \cup
           {p \in before[c] \X {num[c]} : Cache!Accepts(c) /\ num[c] \in {p[1], Cache!Empty}}
  BY DEF Cache!VerifyReturn, Cache!Goes, Cache!store
<1>2. got[c] \in (1..sets) \cup {Cache!Absent}
  BY <1>1 DEF CacheTyped, CacheHand
<1>3. spent' \subseteq 1..sets /\ value[Cache!Captcha] \notin spent' \ undeleted
  BY <1>1, <1>2 DEF CaptchaInv
<1>4. CaptchaReused'
  <2>1. CaptchaReused /\ before[c] \subseteq 1..sets
    BY DEF CaptchaInv
  <2>2. num[c] \in 0..MaxSets
    BY <1>1 DEF CacheTyped, CacheHand
  <2>3. ASSUME NEW s \in before[c], Cache!Accepts(c), num[c] = s PROVE s \in undeleted
    <3>1. got[c] = s
      BY <2>1, <2>3 DEF Cache!Accepts, Cache!Empty
    <3> QED  BY <1>1, <3>1 DEF CaptchaInv
  <2>4. ASSUME NEW p \in reused' \ reused
        PROVE  /\ p \in (1..sets) \X (0..MaxSets)
               /\ p[2] # Cache!Empty => p[1] \in undeleted
    <3>1. PICK s \in before[c] : /\ p = << s, num[c] >> /\ Cache!Accepts(c)
                                 /\ num[c] \in {s, Cache!Empty}
      BY <1>1
    <3>2. p[1] = s /\ p[2] = num[c] /\ s \in 1..sets
      BY <2>1, <3>1
    <3> QED  BY <2>2, <2>3, <3>1, <3>2
  <2> QED  BY <1>1, <2>1, <2>4 DEF CaptchaReused
<1>5. \A d \in Clients : /\ at'[d] \in {"delete", "compare"} =>
                              d # c /\ at'[d] = at[d] /\ got'[d] = got[d]
                         /\ d # c => before'[d] = before[d] /\ clear'[d] = clear[d]
  BY <1>1 DEF CacheTyped
<1>6. before' \in [Clients -> SUBSET (1..sets)]
  BY <1>1 DEF CaptchaInv
<1> QED  BY <1>1, <1>3, <1>4, <1>5, <1>6 DEF CaptchaInv, Cache!Absent

LEMMA CaptchaInit == ASSUME Cache!Init PROVE CaptchaInv
<1>1. /\ spent = {} /\ reused = {} /\ before = [c \in Clients |-> {}]
      /\ \A c \in Clients : at[c] = "idle"
  BY DEF Cache!Init
<1> QED  BY <1>1 DEF CaptchaInv, CaptchaReused

LEMMA CaptchaNext ==
  ASSUME Cache!CacheAssumption, CacheTyped, CaptchaInv, [Cache!Next]_(Cache!vars)
  PROVE  CaptchaInv'
<1>1. ASSUME UNCHANGED Cache!vars PROVE CaptchaInv'
  BY <1>1 DEF CaptchaInv, CaptchaReused, Cache!vars, Cache!store, Cache!client,
     Cache!captchas,
     Cache!Absent
<1>2. ASSUME NEW c \in Clients, Cache!Verify(c) PROVE CaptchaInv'
  BY <1>2, CaptchaGet, CaptchaDelete, CaptchaReturn DEF Cache!Verify
<1> QED  BY <1>1, <1>2, CaptchaUpdate, CaptchaLapse, CaptchaSet DEF Cache!Next

\* The answer of a captcha that a call had cleared is good for no call made after
\* that one has returned, however many clients, captchas and expiries there are,
\* but for a captcha whose deletion Redis failed; the empty answer may be.
THEOREM CaptchaOnce == Spec => []SpentIsSpent
<1>1. Cache!Init => CacheTyped /\ CounterInv /\ CaptchaInv
  BY ServicesAssumption, CacheInitTyped, CaptchaInit
<1>2. CacheTyped /\ CounterInv /\ CaptchaInv /\ [Cache!Next]_(Cache!vars)
        => (CacheTyped /\ CounterInv /\ CaptchaInv)'
  BY ServicesAssumption, CacheNextTyped, CaptchaNext
<1>3. CaptchaInv => SpentIsSpent
  BY DEF CaptchaInv, CaptchaReused, SpentIsSpent, Cache!SpentIsSpent
<1>4. Init => Cache!Init
  BY DEF Init
<1>5. [Next]_vars => [Cache!Next]_(Cache!vars)
  BY CacheFrame
<1> QED  BY <1>1, <1>2, <1>3, <1>4, <1>5, PTL DEF Spec

-----------------------------------------------------------------------------
(* The rooms *)

LEMMA RoomsFrame == ASSUME [Next]_vars PROVE [Rooms!Next]_(Rooms!vars)
BY DEF Next, vars, roomsVars, Rooms!vars

RoomsTyped ==
  /\ open \in [Rooms!Buckets -> SUBSET RoomIds]
  /\ inRoom \in [Rooms!Buckets -> [RoomIds -> SUBSET Members]]
  /\ joined \in [Members -> SUBSET RoomIds]
  /\ noting \in [Members -> {Rooms!Nothing} \cup ({"join", "leave"} \X RoomIds)]
  /\ router \in [Members -> {"up", "leaving", "ended"}]
  /\ guests \in [Members -> SUBSET RoomIds]

OpenRooms == {p \in Rooms!Buckets \X RoomIds : p[2] \in open[p[1]]}

RoomsCounted ==
  /\ roomCount = Cardinality(OpenRooms)
  /\ \A b \in Rooms!Buckets, r \in RoomIds : r \in open[b] <=> inRoom[b][r] # {}

\* Who is in a room has noted it, is about to, or was put there by the
\* application, and an ended connection has noted nothing.
MemberNoted(c) ==
  /\ \A r \in RoomIds : c \in inRoom[Rooms!GetBucket(c)][r] =>
       /\ r \in guests[c] \cup joined[c] \/ noting[c] = << "join", r >>
       /\ noting[c] = << "leave", r >> => r \in guests[c]
  /\ router[c] # "up" => noting[c] = Rooms!Nothing
  /\ router[c] = "ended" => joined[c] = {}

RoomsInv == RoomsTyped /\ RoomsCounted /\ \A c \in Members : MemberNoted(c)

LEMMA RoomsBucket ==
  ASSUME Rooms!RoomsAssumption, NEW c \in Members
  PROVE  Rooms!GetBucket(c) \in Rooms!Buckets
BY DEF Rooms!RoomsAssumption, Rooms!GetBucket, Rooms!Buckets

\* The operators of FiniteSets are the same in the instance.
LEMMA RoomsFinite == \A S : Rooms!IsFiniteSet(S) <=> IsFiniteSet(S)
BY DEF Rooms!IsFiniteSet, IsFiniteSet

LEMMA RoomsCardinality == \A S : Rooms!Cardinality(S) = Cardinality(S)
BY DEF Rooms!Cardinality, Cardinality, Rooms!IsFiniteSet, IsFiniteSet

LEMMA OpenRoomsFinite ==
  ASSUME Rooms!RoomsAssumption PROVE IsFiniteSet(OpenRooms)
<1>1. IsFiniteSet(Rooms!Buckets)
  BY FS_Interval DEF Rooms!Buckets, Rooms!RoomsAssumption
<1>2. IsFiniteSet(Rooms!Buckets \X RoomIds)
  BY <1>1, FS_Product, RoomsFinite DEF Rooms!RoomsAssumption
<1> QED  BY <1>2, FS_Subset DEF OpenRooms

\* A connection enters a room.
LEMMA RoomsEntered ==
  ASSUME Rooms!RoomsAssumption, RoomsTyped, RoomsCounted, NEW c \in Members,
         NEW r \in RoomIds, Rooms!JoinRoom(c, r)
  PROVE  /\ open' \in [Rooms!Buckets -> SUBSET RoomIds]
         /\ inRoom' \in [Rooms!Buckets -> [RoomIds -> SUBSET Members]]
         /\ RoomsCounted'
         /\ c \notin inRoom[Rooms!GetBucket(c)][r]
         /\ \A d \in Members, q \in RoomIds :
              d \in inRoom'[Rooms!GetBucket(d)][q] =>
                d \in inRoom[Rooms!GetBucket(d)][q] \/ (d = c /\ q = r)
<1>. DEFINE b == Rooms!GetBucket(c)
<1>1. b \in Rooms!Buckets
  BY RoomsBucket
<1>2. /\ c \notin inRoom[b][r]
      /\ inRoom' = [inRoom EXCEPT ![b][r] = @ \cup {c}]
      /\ open' = [open EXCEPT ![b] = @ \cup {r}]
      /\ roomCount' = IF r \in open[b] THEN roomCount ELSE roomCount + 1
  BY DEF Rooms!JoinRoom, Rooms!Enter
<1>. HIDE DEF b
<1>3. /\ open' \in [Rooms!Buckets -> SUBSET RoomIds]
      /\ inRoom' \in [Rooms!Buckets -> [RoomIds -> SUBSET Members]]
  BY <1>1, <1>2 DEF RoomsTyped
<1>4. \A a \in Rooms!Buckets : open'[a] = IF a = b THEN open[a] \cup {r} ELSE open[a]
  BY <1>1, <1>2 DEF RoomsTyped
<1>5. \A a \in Rooms!Buckets, q \in RoomIds :
        inRoom'[a][q] = IF a = b /\ q = r THEN inRoom[a][q] \cup {c} ELSE inRoom[a][q]
  BY <1>1, <1>2 DEF RoomsTyped
<1>6. \A a \in Rooms!Buckets, q \in RoomIds : q \in open'[a] <=> inRoom'[a][q] # {}
  <2> SUFFICES ASSUME NEW a \in Rooms!Buckets, NEW q \in RoomIds
               PROVE  q \in open'[a] <=> inRoom'[a][q] # {}
    OBVIOUS
  <2>1. q \in open[a] <=> inRoom[a][q] # {}
    BY DEF RoomsCounted
  <2>2. CASE a = b /\ q = r
    BY <2>2, <1>4, <1>5
  <2>3. CASE ~(a = b /\ q = r)
    BY <2>1, <2>3, <1>4, <1>5
  <2> QED  BY <2>2, <2>3
<1>7. OpenRooms' = OpenRooms \cup {<< b, r >>}
  <2>1. ASSUME NEW a \in Rooms!Buckets, NEW q \in RoomIds
        PROVE  << a, q >> \in OpenRooms' <=> << a, q >> \in OpenRooms \cup {<< b, r >>}
    <3>1. << a, q >> \in OpenRooms <=> q \in open[a]
      BY DEF OpenRooms
    <3>2. << a, q >> \in OpenRooms' <=> q \in open'[a]
      BY DEF OpenRooms
    <3> QED  BY <1>4, <3>1, <3>2
  <2>2. OpenRooms' \subseteq Rooms!Buckets \X RoomIds
    BY DEF OpenRooms
  <2>3. OpenRooms \cup {<< b, r >>} \subseteq Rooms!Buckets \X RoomIds
    BY <1>1 DEF OpenRooms
  <2> QED  BY <2>1, <2>2, <2>3
<1>8. << b, r >> \in OpenRooms <=> r \in open[b]
  BY <1>1 DEF OpenRooms
<1>9. roomCount' = Cardinality(OpenRooms')
  BY <1>2, <1>7, <1>8, OpenRoomsFinite, FS_AddElement DEF RoomsCounted
<1>10. \A d \in Members, q \in RoomIds :
         d \in inRoom'[Rooms!GetBucket(d)][q] =>
           d \in inRoom[Rooms!GetBucket(d)][q] \/ (d = c /\ q = r)
  BY <1>5, RoomsBucket
<1> QED  BY <1>2, <1>3, <1>6, <1>9, <1>10 DEF RoomsCounted, b

\* A connection leaves a room.
LEMMA RoomsExited ==
  ASSUME Rooms!RoomsAssumption, RoomsTyped, RoomsCounted, NEW c \in Members,
         NEW r \in RoomIds, Rooms!LeaveRoom(c, r)
  PROVE  /\ open' \in [Rooms!Buckets -> SUBSET RoomIds]
         /\ inRoom' \in [Rooms!Buckets -> [RoomIds -> SUBSET Members]]
         /\ RoomsCounted'
         /\ c \notin inRoom'[Rooms!GetBucket(c)][r]
         /\ \A d \in Members, q \in RoomIds :
              d \in inRoom'[Rooms!GetBucket(d)][q] => d \in inRoom[Rooms!GetBucket(d)][q]
<1>. DEFINE b == Rooms!GetBucket(c)
<1>1. b \in Rooms!Buckets
  BY RoomsBucket
<1>2. /\ c \in inRoom[b][r]
      /\ inRoom' = [inRoom EXCEPT ![b][r] = @ \ {c}]
      /\ open' = IF inRoom'[b][r] = {} THEN [open EXCEPT ![b] = @ \ {r}] ELSE open
      /\ roomCount' = IF inRoom'[b][r] = {} THEN roomCount - 1 ELSE roomCount
  BY DEF Rooms!LeaveRoom, Rooms!Exit, Rooms!Emptied
<1>. HIDE DEF b
<1>3. /\ open' \in [Rooms!Buckets -> SUBSET RoomIds]
      /\ inRoom' \in [Rooms!Buckets -> [RoomIds -> SUBSET Members]]
  BY <1>1, <1>2 DEF RoomsTyped
<1>4. \A a \in Rooms!Buckets :
        open'[a] = IF a = b /\ inRoom'[b][r] = {} THEN open[a] \ {r} ELSE open[a]
  BY <1>1, <1>2 DEF RoomsTyped
<1>5. \A a \in Rooms!Buckets, q \in RoomIds :
        inRoom'[a][q] = IF a = b /\ q = r THEN inRoom[a][q] \ {c} ELSE inRoom[a][q]
  BY <1>1, <1>2 DEF RoomsTyped
<1>6. \A a \in Rooms!Buckets, q \in RoomIds : q \in open'[a] <=> inRoom'[a][q] # {}
  <2> SUFFICES ASSUME NEW a \in Rooms!Buckets, NEW q \in RoomIds
               PROVE  q \in open'[a] <=> inRoom'[a][q] # {}
    OBVIOUS
  <2>1. q \in open[a] <=> inRoom[a][q] # {}
    BY DEF RoomsCounted
  <2>2. CASE a = b /\ q = r
    BY <2>1, <2>2, <1>1, <1>2, <1>4, <1>5
  <2>3. CASE ~(a = b /\ q = r)
    BY <2>1, <2>3, <1>4, <1>5
  <2> QED  BY <2>2, <2>3
<1>7. << b, r >> \in OpenRooms
  BY <1>1, <1>2 DEF OpenRooms, RoomsCounted
<1>8. OpenRooms' = IF inRoom'[b][r] = {} THEN OpenRooms \ {<< b, r >>} ELSE OpenRooms
  <2>. DEFINE after == IF inRoom'[b][r] = {} THEN OpenRooms \ {<< b, r >>} ELSE OpenRooms
  <2>1. ASSUME NEW a \in Rooms!Buckets, NEW q \in RoomIds
        PROVE  << a, q >> \in OpenRooms' <=> << a, q >> \in after
    BY <1>4 DEF OpenRooms
  <2>2. OpenRooms' \subseteq Rooms!Buckets \X RoomIds
    BY DEF OpenRooms
  <2>3. after \subseteq Rooms!Buckets \X RoomIds
    BY DEF OpenRooms
  <2>. HIDE DEF after
  <2>4. OpenRooms' = after
    BY <2>1, <2>2, <2>3
  <2> QED  BY <2>4 DEF after
<1>9. roomCount' = Cardinality(OpenRooms')
  BY <1>2, <1>7, <1>8, OpenRoomsFinite, FS_RemoveElement DEF RoomsCounted
<1>10. \A d \in Members, q \in RoomIds :
         d \in inRoom'[Rooms!GetBucket(d)][q] => d \in inRoom[Rooms!GetBucket(d)][q]
  BY <1>5, RoomsBucket
<1>11. c \notin inRoom'[b][r]
  BY <1>1, <1>5
<1> QED  BY <1>3, <1>6, <1>9, <1>10, <1>11 DEF RoomsCounted, b

LEMMA RoomsInitCorrect ==
  ASSUME Rooms!RoomsAssumption, Rooms!Init PROVE RoomsInv
<1>1. RoomsTyped
  BY DEF Rooms!Init, RoomsTyped
<1>2. OpenRooms = {}
  BY DEF Rooms!Init, OpenRooms
<1>3. RoomsCounted
  BY <1>2, FS_EmptySet DEF Rooms!Init, RoomsCounted
<1>4. \A c \in Members : MemberNoted(c)
  BY RoomsBucket DEF Rooms!Init, MemberNoted
<1> QED  BY <1>1, <1>3, <1>4 DEF RoomsInv

LEMMA RoomsHandleJoin ==
  ASSUME Rooms!RoomsAssumption, RoomsInv, NEW c \in Members, NEW r \in RoomIds,
         Rooms!HandleJoin(c, r)
  PROVE  RoomsInv'
<1>1. RoomsTyped /\ RoomsCounted /\ Rooms!JoinRoom(c, r)
  BY DEF RoomsInv, Rooms!HandleJoin
<1>2. /\ router[c] = "up" /\ noting[c] = Rooms!Nothing
      /\ noting' = [noting EXCEPT ![c] = << "join", r >>]
      /\ UNCHANGED << joined, router, guests >>
  BY DEF Rooms!HandleJoin, Rooms!Free
<1>3. RoomsTyped' /\ RoomsCounted'
  BY <1>1, <1>2, RoomsEntered DEF RoomsTyped
<1>4. \A d \in Members : MemberNoted(d)'
  <2> SUFFICES ASSUME NEW d \in Members PROVE MemberNoted(d)'
    OBVIOUS
  <2>1. MemberNoted(d) /\ MemberNoted(c)
    BY DEF RoomsInv
  <2>2. \A q \in RoomIds : d \in inRoom'[Rooms!GetBucket(d)][q] =>
          d \in inRoom[Rooms!GetBucket(d)][q] \/ (d = c /\ q = r)
    BY <1>1, RoomsEntered
  <2>3. CASE d = c
    BY <2>1, <2>2, <2>3, <1>2, <1>3 DEF RoomsTyped, MemberNoted, Rooms!Nothing
  <2>4. CASE d # c
    BY <2>1, <2>2, <2>4, <1>2, <1>3 DEF RoomsTyped, MemberNoted
  <2> QED  BY <2>3, <2>4
<1> QED  BY <1>3, <1>4 DEF RoomsInv

LEMMA RoomsHandleLeave ==
  ASSUME Rooms!RoomsAssumption, RoomsInv, NEW c \in Members, NEW r \in RoomIds,
         Rooms!HandleLeave(c, r)
  PROVE  RoomsInv'
<1>1. RoomsTyped /\ RoomsCounted /\ Rooms!LeaveRoom(c, r)
  BY DEF RoomsInv, Rooms!HandleLeave
<1>2. /\ router[c] = "up" /\ noting[c] = Rooms!Nothing
      /\ noting' = [noting EXCEPT ![c] = << "leave", r >>]
      /\ UNCHANGED << joined, router, guests >>
  BY DEF Rooms!HandleLeave, Rooms!Free
<1>3. RoomsTyped' /\ RoomsCounted'
  BY <1>1, <1>2, RoomsExited DEF RoomsTyped
<1>4. \A d \in Members : MemberNoted(d)'
  <2> SUFFICES ASSUME NEW d \in Members PROVE MemberNoted(d)'
    OBVIOUS
  <2>1. MemberNoted(d) /\ MemberNoted(c)
    BY DEF RoomsInv
  <2>2. \A q \in RoomIds : d \in inRoom'[Rooms!GetBucket(d)][q] =>
          d \in inRoom[Rooms!GetBucket(d)][q]
    BY <1>1, RoomsExited
  <2>5. c \notin inRoom'[Rooms!GetBucket(c)][r]
    BY <1>1, RoomsExited
  <2>3. CASE d = c
    BY <2>1, <2>2, <2>3, <1>2, <1>3, <2>5 DEF RoomsTyped, MemberNoted, Rooms!Nothing
  <2>4. CASE d # c
    BY <2>1, <2>2, <2>4, <1>2, <1>3 DEF RoomsTyped, MemberNoted
  <2> QED  BY <2>3, <2>4
<1> QED  BY <1>3, <1>4 DEF RoomsInv

LEMMA RoomsNote ==
  ASSUME RoomsInv, NEW c \in Members, Rooms!Note(c)
  PROVE  RoomsInv'
<1>1. PICK k \in {"join", "leave"}, r \in RoomIds : noting[c] = << k, r >>
  BY DEF RoomsInv, RoomsTyped, Rooms!Note
<1>2. /\ noting' = [noting EXCEPT ![c] = Rooms!Nothing]
      /\ joined' = [joined EXCEPT ![c] = IF k = "join" THEN @ \cup {r} ELSE @ \ {r}]
      /\ UNCHANGED << open, inRoom, router, roomCount, guests >>
  BY <1>1 DEF Rooms!Note
<1>3. RoomsTyped'
  BY <1>2 DEF RoomsInv, RoomsTyped
<1>4. RoomsCounted'
  BY <1>2 DEF RoomsInv, RoomsCounted, OpenRooms
<1>5. router[c] = "up"
  BY <1>1 DEF RoomsInv, RoomsTyped, MemberNoted, Rooms!Note
<1>6. \A d \in Members : MemberNoted(d)'
  BY <1>1, <1>2, <1>5 DEF RoomsInv, RoomsTyped, MemberNoted, Rooms!Nothing
<1> QED  BY <1>3, <1>4, <1>6 DEF RoomsInv

LEMMA RoomsClose ==
  ASSUME RoomsInv, NEW c \in Members, Rooms!Close(c)
  PROVE  RoomsInv'
<1>1. /\ noting[c] = Rooms!Nothing /\ router' = [router EXCEPT ![c] = "leaving"]
      /\ UNCHANGED << open, inRoom, joined, noting, roomCount, guests >>
  BY DEF Rooms!Close, Rooms!Free
<1> QED  BY <1>1 DEF RoomsInv, RoomsTyped, RoomsCounted, OpenRooms, MemberNoted

LEMMA RoomsLeaveAll ==
  ASSUME Rooms!RoomsAssumption, RoomsInv, NEW c \in Members, Rooms!LeaveAll(c)
  PROVE  RoomsInv'
<1>1. noting[c] = Rooms!Nothing /\ noting' = noting /\ guests' = guests
  BY DEF Rooms!LeaveAll, RoomsInv, MemberNoted
<1>2. CASE /\ joined[c] = {} /\ router' = [router EXCEPT ![c] = "ended"]
           /\ UNCHANGED << open, inRoom, joined, roomCount >>
  BY <1>1, <1>2 DEF RoomsInv, RoomsTyped, RoomsCounted, OpenRooms, MemberNoted
<1>3. ASSUME NEW r \in joined[c], router' = router,
             joined' = [joined EXCEPT ![c] = @ \ {r}],
             \/ Rooms!LeaveRoom(c, r)
             \/ /\ c \notin inRoom[Rooms!GetBucket(c)][r]
                /\ UNCHANGED << open, inRoom, roomCount >>
      PROVE  RoomsInv'
  <2>1. RoomsTyped /\ RoomsCounted /\ r \in RoomIds
    BY DEF RoomsInv, RoomsTyped
  <2>2. /\ open' \in [Rooms!Buckets -> SUBSET RoomIds]
        /\ inRoom' \in [Rooms!Buckets -> [RoomIds -> SUBSET Members]]
        /\ RoomsCounted'
        /\ c \notin inRoom'[Rooms!GetBucket(c)][r]
        /\ \A d \in Members, q \in RoomIds :
             d \in inRoom'[Rooms!GetBucket(d)][q] => d \in inRoom[Rooms!GetBucket(d)][q]
    <3>1. CASE Rooms!LeaveRoom(c, r)
      BY <2>1, <3>1, RoomsExited
    <3>2. CASE c \notin inRoom[Rooms!GetBucket(c)][r] /\ UNCHANGED << open, inRoom, roomCount >>
      BY <2>1, <3>2 DEF RoomsTyped, RoomsCounted, OpenRooms
    <3> QED  BY <1>3, <3>1, <3>2
  <2>3. RoomsTyped'
    BY <1>1, <1>3, <2>1, <2>2 DEF RoomsTyped
  <2>4. \A d \in Members : MemberNoted(d)'
    BY <1>1, <1>3, <2>1, <2>2 DEF RoomsInv, RoomsTyped, MemberNoted, Rooms!Nothing
  <2> QED  BY <2>2, <2>3, <2>4 DEF RoomsInv
<1> QED  BY <1>2, <1>3 DEF Rooms!LeaveAll

LEMMA RoomsAppJoin ==
  ASSUME Rooms!RoomsAssumption, RoomsInv, NEW c \in Members, NEW r \in RoomIds,
         Rooms!AppJoin(c, r)
  PROVE  RoomsInv'
<1>1. RoomsTyped /\ RoomsCounted /\ Rooms!JoinRoom(c, r)
  BY DEF RoomsInv, Rooms!AppJoin
<1>2. /\ guests' = [guests EXCEPT ![c] = @ \cup {r}]
      /\ UNCHANGED << joined, router, noting >>
  BY DEF Rooms!AppJoin
<1>3. RoomsTyped' /\ RoomsCounted'
  BY <1>1, <1>2, RoomsEntered DEF RoomsTyped
<1>4. \A d \in Members : MemberNoted(d)'
  BY <1>1, <1>2, RoomsEntered DEF RoomsInv, RoomsTyped, MemberNoted
<1> QED  BY <1>3, <1>4 DEF RoomsInv

LEMMA RoomsAppLeave ==
  ASSUME Rooms!RoomsAssumption, RoomsInv, NEW c \in Members, NEW r \in RoomIds,
         Rooms!AppLeave(c, r)
  PROVE  RoomsInv'
<1>1. RoomsTyped /\ RoomsCounted /\ Rooms!LeaveRoom(c, r)
  BY DEF RoomsInv, Rooms!AppLeave
<1>2. UNCHANGED << joined, router, noting, guests >>
  BY DEF Rooms!AppLeave
<1>3. RoomsTyped' /\ RoomsCounted'
  BY <1>1, <1>2, RoomsExited DEF RoomsTyped
<1>4. \A d \in Members : MemberNoted(d)'
  BY <1>1, <1>2, RoomsExited DEF RoomsInv, RoomsTyped, MemberNoted
<1> QED  BY <1>3, <1>4 DEF RoomsInv

LEMMA RoomsNextCorrect ==
  ASSUME Rooms!RoomsAssumption, RoomsInv, [Rooms!Next]_(Rooms!vars)
  PROVE  RoomsInv'
<1>1. CASE UNCHANGED Rooms!vars
  BY <1>1 DEF Rooms!vars, RoomsInv, RoomsTyped, RoomsCounted, OpenRooms, MemberNoted
<1>2. ASSUME NEW c \in Members, Rooms!Router(c) PROVE RoomsInv'
  BY <1>2, RoomsHandleJoin, RoomsHandleLeave, RoomsNote, RoomsClose, RoomsLeaveAll
     DEF Rooms!Router
<1> QED  BY <1>1, <1>2, RoomsAppJoin, RoomsAppLeave DEF Rooms!Next

\* The gauge is the number of rooms, no room is empty, and an ended connection is
\* in none but those the application put it in: for any connections, rooms and
\* number of buckets, whatever the routers and the application do between them.
THEOREM RoomsAreSettled == Spec => []RoomsSettle
<1>1. Rooms!Init => RoomsInv
  BY ServicesAssumption, RoomsInitCorrect
<1>2. RoomsInv /\ [Rooms!Next]_(Rooms!vars) => RoomsInv'
  BY ServicesAssumption, RoomsNextCorrect
<1>3. RoomsInv => RoomsSettle
  BY RoomsCardinality DEF RoomsInv, RoomsCounted, OpenRooms, MemberNoted, Rooms!Nothing,
     RoomsSettle,
         Rooms!RoomsSettle
<1>4. Init => Rooms!Init
  BY DEF Init
<1>5. [Next]_vars => [Rooms!Next]_(Rooms!vars)
  BY RoomsFrame
<1> QED  BY <1>1, <1>2, <1>3, <1>4, <1>5, PTL DEF Spec

-----------------------------------------------------------------------------
(* The start-up *)

LEMMA BootFrame == ASSUME [Next]_vars PROVE [Boot!Next]_(Boot!vars)
BY DEF Next, vars, startupVars, Boot!vars, Boot!config, Boot!given

LEMMA BootKinds == Boot!Kinds = {"rabbitmq", "memory", "rocketmq", "nsq", "redis"}
<1>1. DOMAIN Boot!Order = 1..5
  BY DEF Boot!Order
<1>2. /\ Boot!Order[1] = "rabbitmq" /\ Boot!Order[2] = "memory"
      /\ Boot!Order[3] = "rocketmq" /\ Boot!Order[4] = "nsq" /\ Boot!Order[5] = "redis"
  BY DEF Boot!Order
<1>3. Boot!Kinds = {Boot!Order[i] : i \in 1..5}
  BY <1>1 DEF Boot!Kinds, Boot!ToSet
<1>4. \A i \in 1..5 : i = 1 \/ i = 2 \/ i = 3 \/ i = 4 \/ i = 5
  OBVIOUS
<1>. HIDE DEF Boot!Order
<1> QED  BY <1>2, <1>3, <1>4

BootPhases == {"configured", "initialising", "starting", "running", "panicked"}

BootTyped ==
  /\ phase \in BootPhases
  /\ cfgList \in Seq(Boot!Kinds) /\ services \in Seq(Boot!Kinds)
  /\ DOMAIN tasks = Boot!Kinds
  /\ \A k \in Boot!Kinds : tasks[k] \in Seq(Boot!ToSet(tasks[k]))
  /\ nth \in Nat \ {0} /\ svc \in Nat \ {0}

\* The task of this kind has its consumer, or one of the excuses.
HasConsumer(k, t) ==
  \/ t \in consuming \cup refused
  \/ k = "nsq"
  \/ k = "memory" /\ k \notin queueReg
  \/ k # "memory" /\ ConsumerNum[t] = 0
  \/ /\ k = "rabbitmq"
     /\ \E u \in consuming \cap Boot!ToSet(tasks[k]) : ExchangeOf[u] = ExchangeOf[t]

\* What the services before this one, and this one up to its next task, have done
StartedInv ==
  /\ phase = "starting" =>
       /\ svc \in 1..Len(services)
       /\ \A i \in 1..Len(tasks[services[svc]]) :
            i < nth => HasConsumer(services[svc], tasks[services[svc]][i])
  /\ phase \in {"starting", "running"} =>
       \A n \in 1..Len(services) : n < svc =>
         \A i \in 1..Len(tasks[services[n]]) :
           HasConsumer(services[n], tasks[services[n]][i])
  /\ phase = "running" => svc > Len(services)

\* Nothing keeps Queue.Init from the queue in memory.
GoodFile ==
  /\ settings["rabbitmq"] # "bad" /\ settings["memory"] # "bad"
  /\ \A k \in Boot!Kinds : settings[k] # "unreadable"

\* Only RabbitMQ's settings come before those of the queue in memory.
MemoryEarly ==
  /\ "memory" \in Boot!ToSet(cfgList) => settings["memory"] # "absent"
  /\ GoodFile /\ settings["memory"] # "absent" /\ cfgList # << >> =>
       \E j \in 1..Len(cfgList) :
         cfgList[j] = "memory" /\ \A i \in 1..(j - 1) : cfgList[i] = "rabbitmq"

PoolInv ==
  /\ MemoryEarly
  /\ poolSize \in {0, PoolSize}
  /\ GoodFile /\ "memory" \in Boot!ToSet(cfgList) =>
       \/ poolSize = PoolSize
       \/ phase = "initialising" /\ \A i \in 1..(nth - 1) : i <= Len(cfgList) => cfgList[i] = "rabbitmq"
  /\ "memory" \in queueReg =>
       /\ memoryPool \in {0, PoolSize}
       /\ GoodFile => memoryPool = PoolSize

LEMMA BootInitTyped == ASSUME Boot!Init PROVE BootTyped /\ StartedInv /\ PoolInv
<1>1. /\ boots = 0 /\ phase = "configured" /\ cfgList = << >> /\ nth = 1 /\ poolSize = 0
      /\ queueReg = {} /\ services = << >> /\ svc = 1
      /\ tasks = [k \in Boot!Kinds |-> << >>]
  BY DEF Boot!Init
<1>2. BootTyped
  BY <1>1 DEF BootTyped, BootPhases
<1>3. Boot!ToSet(cfgList) = {}
  BY <1>1 DEF Boot!ToSet
<1>4. StartedInv
  BY <1>1 DEF StartedInv
<1>5. PoolInv
  BY <1>1, <1>3 DEF PoolInv, MemoryEarly
<1> QED  BY <1>2, <1>4, <1>5

LEMMA BootFound ==
  ASSUME NEW n \in 1..5
  PROVE  /\ Boot!Order[n] \in Boot!Kinds
         /\ Boot!Found(n) \in Seq(Boot!Kinds)
         /\ Boot!Found(n) = << >> \/ Boot!Found(n) = << Boot!Order[n] >>
<1>1. DOMAIN Boot!Order = 1..5
  BY DEF Boot!Order
<1>2. Boot!Order[n] \in Boot!Kinds
  BY <1>1 DEF Boot!Kinds, Boot!ToSet
<1> QED  BY <1>2 DEF Boot!Found

LEMMA BootNextTyped ==
  ASSUME Boot!StartupAssumption, BootTyped, [Boot!Next]_(Boot!vars)
  PROVE  BootTyped'
<1>1. CASE Boot!Bootstrap
  <2>1. cfgList' \in Seq(Boot!Kinds)
    <3>1. /\ Boot!Found(1) \in Seq(Boot!Kinds) /\ Boot!Found(2) \in Seq(Boot!Kinds)
          /\ Boot!Found(3) \in Seq(Boot!Kinds) /\ Boot!Found(4) \in Seq(Boot!Kinds)
          /\ Boot!Found(5) \in Seq(Boot!Kinds)
      BY BootFound
    <3> QED  BY <1>1, <3>1 DEF Boot!Bootstrap, BootTyped
  <2>2. phase' \in BootPhases /\ nth' = 1 /\ UNCHANGED << services, tasks, svc >>
    BY <1>1 DEF Boot!Bootstrap, BootPhases, Boot!given
  <2> QED  BY <2>1, <2>2 DEF BootTyped
<1>2. CASE Boot!InitQueue
  BY <1>2 DEF Boot!InitQueue, BootTyped, BootPhases, Boot!given
<1>3. CASE Boot!Initialised
  BY <1>3 DEF Boot!Initialised, BootTyped, BootPhases, Boot!given, Boot!config
<1>4. CASE Boot!Start
  BY <1>4 DEF Boot!Start, BootTyped, BootPhases, Boot!given, Boot!config
<1>5. ASSUME NEW k \in Boot!Kinds, Boot!GetQueue(k) PROVE BootTyped'
  BY <1>5 DEF Boot!GetQueue, BootTyped, BootPhases, Boot!config
<1>6. ASSUME NEW k \in Boot!Kinds, NEW list \in TaskLists[k], Boot!AddTasks(k, list)
      PROVE  BootTyped'
  <2>1. list \in Seq(Boot!ToSet(list))
    BY DEF Boot!StartupAssumption
  <2>2. /\ tasks' = [tasks EXCEPT ![k] = list]
        /\ UNCHANGED << phase, cfgList, services, nth, svc >>
    BY <1>6 DEF Boot!AddTasks, Boot!config
  <2>3. ASSUME NEW j \in Boot!Kinds PROVE tasks'[j] \in Seq(Boot!ToSet(tasks'[j]))
    <3>1. CASE j = k
      BY <2>1, <2>2, <3>1 DEF BootTyped
    <3>2. CASE j # k
      <4>1. tasks'[j] = tasks[j]
        BY <2>2, <3>2 DEF BootTyped
      <4> QED  BY <4>1 DEF BootTyped
    <3> QED  BY <3>1, <3>2
  <2> QED  BY <2>2, <2>3 DEF BootTyped
<1>7. ASSUME NEW list \in ServiceLists, Boot!AddServices(list) PROVE BootTyped'
  BY <1>7 DEF Boot!AddServices, BootTyped, Boot!config, Boot!StartupAssumption
<1>8. CASE Boot!StartWarns
  BY <1>8 DEF Boot!StartWarns, Boot!NextService, BootTyped, BootPhases, Boot!given,
     Boot!config
<1>9. CASE Boot!StartPanics
  BY <1>9 DEF Boot!StartPanics, BootTyped, BootPhases, Boot!given, Boot!config
<1>10. CASE Boot!StartTask
  BY <1>10 DEF Boot!StartTask, BootTyped, BootPhases, Boot!given, Boot!config
<1>11. CASE Boot!RunQueue
  BY <1>11 DEF Boot!RunQueue, Boot!NextService, BootTyped, BootPhases, Boot!given,
     Boot!config
<1>12. CASE UNCHANGED Boot!vars
  BY <1>12 DEF Boot!vars, BootTyped, Boot!given, Boot!config
<1> QED  BY <1>1, <1>2, <1>3, <1>4, <1>5, <1>6, <1>7, <1>8, <1>9, <1>10, <1>11, <1>12
         DEF Boot!Next

\* Consumers are never taken away.
LEMMA BootKeeps ==
  ASSUME tasks' = tasks, queueReg' = queueReg, consuming \subseteq consuming',
         refused \subseteq refused'
  PROVE  \A k, t : HasConsumer(k, t) => HasConsumer(k, t)'
BY DEF HasConsumer

\* A service is done when its tasks are.
LEMMA BootNextService ==
  ASSUME BootTyped, StartedInv, phase = "starting", Boot!NextService,
         UNCHANGED << services, tasks, queueReg, consuming, refused >>,
         \A i \in 1..Len(tasks[services[svc]]) :
           HasConsumer(services[svc], tasks[services[svc]][i])
  PROVE  StartedInv'
<1>1. /\ svc' = svc + 1 /\ nth' = 1
      /\ phase' = IF svc = Len(services) THEN "running" ELSE "starting"
  BY DEF Boot!NextService
<1>2. svc \in 1..Len(services) /\ Len(services) \in Nat /\ svc \in Nat
  BY DEF StartedInv, BootTyped
<1>3. \A k, t : HasConsumer(k, t) => HasConsumer(k, t)'
  BY BootKeeps
<1>4. ASSUME NEW n \in 1..Len(services), n < svc + 1,
             NEW i \in 1..Len(tasks[services[n]])
      PROVE  HasConsumer(services[n], tasks[services[n]][i])
  <2>1. CASE n = svc
    BY <2>1
  <2>2. CASE n < svc
    BY <2>2 DEF StartedInv
  <2> QED  BY <2>1, <2>2, <1>2, <1>4
<1>5. \A n \in 1..Len(services) : n < svc + 1 =>
        \A i \in 1..Len(tasks[services[n]]) :
          HasConsumer(services[n], tasks[services[n]][i])'
  BY <1>3, <1>4
<1>6. phase' = "starting" => svc' \in 1..Len(services)
  BY <1>1, <1>2
<1>7. phase' = "running" => svc' > Len(services)
  BY <1>1, <1>2
<1> QED  BY <1>1, <1>5, <1>6, <1>7 DEF StartedInv

LEMMA BootNextStarted ==
  ASSUME Boot!StartupAssumption, BootTyped, StartedInv, [Boot!Next]_(Boot!vars)
  PROVE  StartedInv'
<1>1. ASSUME phase' \notin {"starting", "running"} PROVE StartedInv'
  BY <1>1 DEF StartedInv
<1>2. CASE Boot!Bootstrap \/ Boot!InitQueue \/ Boot!Initialised \/ Boot!StartPanics
  BY <1>1, <1>2 DEF Boot!Bootstrap, Boot!InitQueue, Boot!Initialised, Boot!StartPanics
<1>3. ASSUME NEW k \in Boot!Kinds,
             Boot!GetQueue(k) \/ \E list \in TaskLists[k] : Boot!AddTasks(k, list)
      PROVE  StartedInv'
  BY <1>1, <1>3 DEF Boot!GetQueue, Boot!AddTasks
<1>4. ASSUME NEW list \in ServiceLists, Boot!AddServices(list) PROVE StartedInv'
  BY <1>1, <1>4 DEF Boot!AddServices
<1>5. CASE Boot!Start
  <2>1. /\ svc' = 1 /\ nth' = 1 /\ services' = services /\ tasks' = tasks
        /\ phase' = IF services = << >> THEN "running" ELSE "starting"
    BY <1>5 DEF Boot!Start, Boot!given
  <2>2. services # << >> => 1 \in 1..Len(services)
    BY DEF BootTyped
  <2>3. services = << >> => Len(services) = 0
    OBVIOUS
  <2> QED  BY <2>1, <2>2, <2>3 DEF StartedInv
<1>6. CASE Boot!StartWarns
  <2>1. phase = "starting" /\ Boot!NextService
        /\ UNCHANGED << services, tasks, queueReg, consuming, refused >>
    BY <1>6 DEF Boot!StartWarns, Boot!given
  <2>2. \A t : HasConsumer(services[svc], t)
    BY <1>6 DEF Boot!StartWarns, Boot!Kind, HasConsumer
  <2> QED  BY <2>1, <2>2, BootNextService
<1>7. CASE Boot!RunQueue
  <2>1. phase = "starting" /\ Boot!NextService
        /\ UNCHANGED << services, tasks, queueReg, consuming, refused >>
    BY <1>7 DEF Boot!RunQueue, Boot!given
  <2>2. nth > Len(tasks[services[svc]])
    BY <1>7 DEF Boot!RunQueue, Boot!Kind
  <2>3. services[svc] \in Boot!Kinds
    BY <2>1 DEF StartedInv, BootTyped
  <2>4. Len(tasks[services[svc]]) \in Nat
    BY <2>3 DEF BootTyped
  <2>5. \A i \in 1..Len(tasks[services[svc]]) :
          HasConsumer(services[svc], tasks[services[svc]][i])
    BY <2>1, <2>2, <2>4 DEF StartedInv, BootTyped
  <2> QED  BY <2>1, <2>5, BootNextService
<1>8. CASE Boot!StartTask
  <2>1. /\ phase = "starting" /\ phase' = phase /\ svc' = svc /\ nth' = nth + 1
        /\ UNCHANGED << services, tasks, queueReg >>
        /\ services[svc] # "nsq" /\ services[svc] \in queueReg
        /\ nth <= Len(tasks[services[svc]])
    BY <1>8 DEF Boot!StartTask, Boot!given, Boot!Kind
  <2>. DEFINE k == services[svc]
              t == tasks[k][nth]
  <2>2. \/ /\ Boot!Calls(t) = 0 \/ Boot!Taken(t)
           /\ UNCHANGED << consuming, refused >>
        \/ consuming' = consuming \cup {t} /\ refused' = refused
        \/ refused' = refused \cup {t} /\ consuming' = consuming
    BY <1>8 DEF Boot!StartTask, Boot!Kind
  <2>3. \A q, u : HasConsumer(q, u) => HasConsumer(q, u)'
    BY <2>1, <2>2, BootKeeps
  <2>4. k \in Boot!Kinds /\ svc \in 1..Len(services)
    BY <2>1 DEF StartedInv, BootTyped
  <2>5. \A q, u : q = k /\ u = t => HasConsumer(q, u)'
    <3> SUFFICES ASSUME NEW q, NEW u, q = k, u = t PROVE HasConsumer(q, u)'
      OBVIOUS
    <3>1. CASE u \in consuming' \cup refused'
      BY <3>1 DEF HasConsumer
    <3>2. CASE Boot!Calls(t) = 0
      <4>1. q # "memory" /\ ConsumerNum[u] = 0
        BY <3>2 DEF Boot!Calls, Boot!Kind
      <4> QED  BY <4>1 DEF HasConsumer
    <3>3. CASE Boot!Taken(t) /\ UNCHANGED << consuming, refused >>
      <4>1. /\ q = "rabbitmq"
            /\ \E v \in consuming \cap Boot!ToSet(tasks[q]) : ExchangeOf[v] = ExchangeOf[u]
        BY <3>3 DEF Boot!Taken, Boot!Kind
      <4> QED  BY <4>1, <3>3, <2>1 DEF HasConsumer
    <3> QED  BY <2>2, <3>1, <3>2, <3>3
  <2>6. Len(tasks[k]) \in Nat /\ nth \in Nat
    BY <2>4 DEF BootTyped
  <2>7. ASSUME NEW i \in 1..Len(tasks[k]), i < nth + 1
        PROVE  \A q, u : q = k /\ u = tasks[k][i] => HasConsumer(q, u)'
    <3>1. CASE i = nth
      BY <3>1, <2>5
    <3>2. CASE i < nth
      <4>1. HasConsumer(services[svc], tasks[services[svc]][i])
        BY <2>1, <3>2 DEF StartedInv
      <4> QED  BY <4>1, <2>3
    <3> QED  BY <3>1, <3>2, <2>6, <2>7
  <2>8. \A n \in 1..Len(services) : n < svc =>
          \A i \in 1..Len(tasks[services[n]]) :
            HasConsumer(services[n], tasks[services[n]][i])
    BY <2>1 DEF StartedInv
  <2>9. \A n \in 1..Len(services) : n < svc =>
          \A i \in 1..Len(tasks[services[n]]) :
            HasConsumer(services[n], tasks[services[n]][i])'
    BY <2>1, <2>3, <2>8
  <2>10. \A i \in 1..Len(tasks[services[svc]]) : i < nth' =>
            HasConsumer(services[svc], tasks[services[svc]][i])'
    BY <2>1, <2>7
  <2> QED  BY <2>1, <2>4, <2>9, <2>10 DEF StartedInv
<1>9. CASE UNCHANGED Boot!vars
  <2>1. UNCHANGED << phase, svc, nth, services, tasks, queueReg, consuming, refused >>
    BY <1>9 DEF Boot!vars, Boot!given
  <2> QED  BY <2>1 DEF StartedInv, HasConsumer
<1> QED  BY <1>2, <1>3, <1>4, <1>5, <1>6, <1>7, <1>8, <1>9 DEF Boot!Next

LEMMA BootOrder ==
  /\ Boot!Order[1] = "rabbitmq" /\ Boot!Order[2] = "memory" /\ Boot!Order[3] = "rocketmq"
  /\ Boot!Order[4] = "nsq" /\ Boot!Order[5] = "redis"
BY DEF Boot!Order

LEMMA BootPrefix ==
  ASSUME NEW s \in Seq(Boot!Kinds), NEW t \in Seq(Boot!Kinds)
  PROVE  /\ s \o t \in Seq(Boot!Kinds)
         /\ \A i \in 1..Len(s) : i \in 1..Len(s \o t) /\ (s \o t)[i] = s[i]
<1>1. Len(s) \in Nat /\ Len(t) \in Nat /\ Len(s \o t) = Len(s) + Len(t)
  OBVIOUS
<1>2. s \o t \in Seq(Boot!Kinds) /\ \A i \in 1..Len(s) : (s \o t)[i] = s[i]
  OBVIOUS
<1> QED  BY <1>1, <1>2

LEMMA BootstrapMemory ==
  ASSUME BootTyped, MemoryEarly, Boot!Bootstrap PROVE MemoryEarly'
<1>. DEFINE F == Boot!Found(1) \o Boot!Found(2) \o Boot!Found(3) \o Boot!Found(4) \o Boot!Found(5)
            others == Boot!Kinds \ {"memory"}
<1>1. settings' = settings /\ cfgList \in Seq(Boot!Kinds)
      /\ cfgList' = cfgList \o Boot!Found(1) \o Boot!Found(2) \o Boot!Found(3)
                            \o Boot!Found(4) \o Boot!Found(5)
  BY DEF Boot!Bootstrap, BootTyped
<1>2. ASSUME settings["memory"] = "absent" PROVE "memory" \notin Boot!ToSet(cfgList')
  <2>1. /\ Boot!Found(1) \in Seq(others) /\ Boot!Found(2) \in Seq(others)
        /\ Boot!Found(3) \in Seq(others) /\ Boot!Found(4) \in Seq(others)
        /\ Boot!Found(5) \in Seq(others)
    <3>1. \A k \in {"rabbitmq", "rocketmq", "nsq", "redis"} : << k >> \in Seq(others)
      BY BootKinds
    <3>2. << >> \in Seq(others)
      OBVIOUS
    <3>. HIDE DEF others
    <3>3. Boot!Found(2) = << >>
      BY <1>2, BootOrder DEF Boot!Found
    <3>4. /\ Boot!Found(1) \in {<< >>, << "rabbitmq" >>}
          /\ Boot!Found(3) \in {<< >>, << "rocketmq" >>}
          /\ Boot!Found(4) \in {<< >>, << "nsq" >>}
          /\ Boot!Found(5) \in {<< >>, << "redis" >>}
      BY BootFound, BootOrder
    <3> QED  BY <3>1, <3>2, <3>3, <3>4
  <2>2. cfgList \in Seq(others)
    <3>1. \A i \in DOMAIN cfgList : cfgList[i] \in others
      BY <1>1, <1>2 DEF MemoryEarly, Boot!ToSet
    <3>. HIDE DEF others
    <3> QED  BY <1>1, <3>1
  <2>. HIDE DEF others
  <2>3. cfgList' \in Seq(others)
    BY <1>1, <2>1, <2>2
  <2>4. \A i \in DOMAIN cfgList' : cfgList'[i] \in others
    BY <2>3
  <2> QED  BY <2>4 DEF Boot!ToSet, others
<1>3. ASSUME GoodFile, settings["memory"] # "absent"
      PROVE  \E j \in 1..Len(cfgList') :
               cfgList'[j] = "memory" /\ \A i \in 1..(j - 1) : cfgList'[i] = "rabbitmq"
  <2>1. /\ Boot!Found(1) \in Seq(Boot!Kinds) /\ Boot!Found(2) \in Seq(Boot!Kinds)
        /\ Boot!Found(3) \in Seq(Boot!Kinds) /\ Boot!Found(4) \in Seq(Boot!Kinds)
        /\ Boot!Found(5) \in Seq(Boot!Kinds)
        /\ Boot!Found(1) = << >> \/ Boot!Found(1) = << "rabbitmq" >>
    BY BootFound, BootOrder
  <2>2. Boot!Found(2) = << "memory" >>
    <3>1. Boot!Readable(2)
      BY <1>3, BootKinds, BootOrder DEF GoodFile, Boot!Readable
    <3> QED  BY <1>3, <3>1, BootOrder DEF Boot!Found
  <2>. DEFINE q == cfgList \o Boot!Found(1) \o << "memory" >>
  <2>3. /\ q \in Seq(Boot!Kinds) /\ Len(q) \in 1..(Len(cfgList) + 2)
        /\ q[Len(q)] = "memory" /\ Len(cfgList) < Len(q)
        /\ \A i \in 1..Len(cfgList) : q[i] = cfgList[i]
        /\ \A i \in 1..(Len(q) - 1) : i > Len(cfgList) => q[i] = "rabbitmq"
    <3>1. << "memory" >> \in Seq(Boot!Kinds) /\ << "rabbitmq" >> \in Seq(Boot!Kinds)
      BY BootKinds
    <3>. DEFINE p == cfgList \o Boot!Found(1)
    <3>2. /\ p \in Seq(Boot!Kinds) /\ Len(p) = Len(cfgList) + Len(Boot!Found(1))
          /\ \A i \in 1..Len(cfgList) : p[i] = cfgList[i]
          /\ \A i \in 1..Len(Boot!Found(1)) : p[Len(cfgList) + i] = Boot!Found(1)[i]
      BY <1>1, <2>1
    <3>3. /\ Len(Boot!Found(1)) \in {0, 1}
          /\ \A i \in 1..Len(Boot!Found(1)) : Boot!Found(1)[i] = "rabbitmq"
      BY <2>1
    <3>. HIDE DEF p
    <3>4. /\ q \in Seq(Boot!Kinds) /\ Len(q) = Len(p) + 1 /\ q[Len(p) + 1] = "memory"
          /\ \A i \in 1..Len(p) : q[i] = p[i]
      BY <3>1, <3>2 DEF p
    <3>5. Len(cfgList) \in Nat /\ Len(p) \in Nat
      BY <1>1, <3>2
    <3>. HIDE DEF q
    <3>6. \A i \in 1..(Len(q) - 1) : i > Len(cfgList) => q[i] = "rabbitmq"
      <4> SUFFICES ASSUME NEW i \in 1..Len(p), i > Len(cfgList) PROVE p[i] = "rabbitmq"
        BY <3>4, <3>5
      <4>1. i = Len(cfgList) + 1 /\ 1 \in 1..Len(Boot!Found(1))
        BY <3>2, <3>3, <3>5
      <4> QED  BY <3>2, <3>3, <4>1
    <3>7. Len(q) \in 1..(Len(cfgList) + 2) /\ Len(cfgList) < Len(q) /\ q[Len(q)] = "memory"
      BY <3>2, <3>3, <3>4, <3>5
    <3>8. \A i \in 1..Len(cfgList) : q[i] = cfgList[i]
      BY <3>2, <3>3, <3>4, <3>5
    <3> QED  BY <3>4, <3>6, <3>7, <3>8
  <2>4. cfgList' = q \o Boot!Found(3) \o Boot!Found(4) \o Boot!Found(5)
    BY <1>1, <2>2
  <2>. HIDE DEF q
  <2>5. \A i \in 1..Len(q) : i \in 1..Len(cfgList') /\ cfgList'[i] = q[i]
    <3>1. PICK s, t : s = q \o Boot!Found(3) /\ t = s \o Boot!Found(4)
      OBVIOUS
    <3>2. /\ s \in Seq(Boot!Kinds)
          /\ \A i \in 1..Len(q) : i \in 1..Len(s) /\ s[i] = q[i]
      BY <2>1, <2>3, <3>1, BootPrefix
    <3>3. /\ t \in Seq(Boot!Kinds)
          /\ \A i \in 1..Len(s) : i \in 1..Len(t) /\ t[i] = s[i]
      BY <2>1, <3>1, <3>2, BootPrefix
    <3>4. \A i \in 1..Len(t) : i \in 1..Len(cfgList') /\ cfgList'[i] = t[i]
      <4>1. cfgList' = t \o Boot!Found(5)
        BY <2>4, <3>1
      <4> QED  BY <2>1, <3>3, <4>1, BootPrefix
    <3> QED  BY <3>2, <3>3, <3>4
  <2>6. CASE cfgList = << >>
    <3>1. Len(cfgList) = 0
      BY <2>6
    <3>2. \A i \in 1..(Len(q) - 1) : cfgList'[i] = "rabbitmq"
      BY <2>3, <2>5, <3>1
    <3> QED  BY <2>3, <2>5, <3>2
  <2>7. CASE cfgList # << >>
    <3>1. PICK j \in 1..Len(cfgList) :
            cfgList[j] = "memory" /\ \A i \in 1..(j - 1) : cfgList[i] = "rabbitmq"
      BY <1>3, <2>7 DEF MemoryEarly
    <3>2. \A i \in 1..j : i \in 1..Len(cfgList') /\ cfgList'[i] = cfgList[i]
      BY <1>1, <2>3, <2>5
    <3> QED  BY <1>1, <3>1, <3>2
  <2> QED  BY <2>6, <2>7
<1> QED  BY <1>1, <1>2, <1>3 DEF MemoryEarly, GoodFile

LEMMA BootNextPool ==
  ASSUME Boot!StartupAssumption, BootTyped, PoolInv, [Boot!Next]_(Boot!vars)
  PROVE  PoolInv'
<1>1. settings' = settings
  BY DEF Boot!Next, Boot!Bootstrap, Boot!InitQueue, Boot!Initialised, Boot!GetQueue,
         Boot!AddTasks, Boot!AddServices, Boot!Start, Boot!StartWarns, Boot!StartPanics,
         Boot!StartTask, Boot!RunQueue, Boot!vars, Boot!config
<1>2. CASE Boot!Bootstrap
  <2>1. MemoryEarly'
    BY <1>2, BootstrapMemory DEF PoolInv
  <2>2. /\ nth' = 1 /\ poolSize' = poolSize /\ queueReg' = queueReg
        /\ memoryPool' = memoryPool
        /\ phase' = IF Boot!Readable(Len(Boot!Order)) THEN "initialising" ELSE "configured"
    BY <1>2 DEF Boot!Bootstrap, Boot!given
  <2>3. GoodFile => Boot!Readable(Len(Boot!Order))
    <3>1. Len(Boot!Order) = 5
      BY DEF Boot!Order
    <3>2. \A i \in 1..5 : Boot!Order[i] \in Boot!Kinds
      BY BootFound
    <3> QED  BY <3>1, <3>2 DEF GoodFile, Boot!Readable
  <2> QED  BY <1>1, <2>1, <2>2, <2>3 DEF PoolInv, GoodFile
<1>3. CASE Boot!InitQueue
  <2>. DEFINE k == cfgList[nth]
  <2>1. /\ phase = "initialising" /\ nth <= Len(cfgList)
        /\ UNCHANGED << cfgList, queueReg, memoryPool >>
        /\ \/ /\ settings[k] = "good" /\ nth' = nth + 1 /\ phase' = phase
              /\ poolSize' = IF k = "memory" THEN PoolSize ELSE poolSize
           \/ /\ settings[k] = "bad" /\ nth' = nth /\ phase' # "initialising"
              /\ poolSize' = poolSize
    BY <1>3 DEF Boot!InitQueue, Boot!given
  <2>2. MemoryEarly'
    BY <1>1, <2>1 DEF PoolInv, MemoryEarly, GoodFile
  <2>3. poolSize' \in {0, PoolSize}
    BY <2>1 DEF PoolInv
  <2>4. ASSUME GoodFile, "memory" \in Boot!ToSet(cfgList), poolSize' # PoolSize
        PROVE  /\ phase' = "initialising"
               /\ \A i \in 1..(nth' - 1) : i <= Len(cfgList) => cfgList[i] = "rabbitmq"
    <3>1. \A i \in 1..(nth - 1) : i <= Len(cfgList) => cfgList[i] = "rabbitmq"
      BY <2>1, <2>4 DEF PoolInv
    <3>2. cfgList # << >> /\ settings["memory"] # "absent"
      BY <2>4 DEF PoolInv, MemoryEarly, Boot!ToSet
    <3>3. PICK j \in 1..Len(cfgList) :
            cfgList[j] = "memory" /\ \A i \in 1..(j - 1) : cfgList[i] = "rabbitmq"
      BY <2>4, <3>2 DEF PoolInv, MemoryEarly
    <3>4. nth \in Nat \ {0} /\ Len(cfgList) \in Nat
      BY DEF BootTyped
    <3>5. j >= nth
      BY <3>1, <3>3, <3>4
    <3>6. k = "memory" \/ k = "rabbitmq"
      BY <3>3, <3>4, <3>5
    <3>7. settings[k] # "bad"
      BY <2>4, <3>6 DEF GoodFile
    <3>8. k = "rabbitmq" /\ nth' = nth + 1 /\ phase' = "initialising"
      BY <2>1, <2>4, <3>6, <3>7
    <3> QED  BY <3>1, <3>4, <3>8
  <2> QED  BY <1>1, <2>1, <2>2, <2>3, <2>4 DEF PoolInv, GoodFile
<1>4. CASE Boot!Initialised
  <2>1. /\ phase = "initialising" /\ nth > Len(cfgList) /\ phase' = "configured"
        /\ UNCHANGED << cfgList, poolSize, queueReg, memoryPool >>
    BY <1>4 DEF Boot!Initialised, Boot!config, Boot!given
  <2>2. ASSUME GoodFile, "memory" \in Boot!ToSet(cfgList) PROVE poolSize = PoolSize
    <3>1. PICK j \in 1..Len(cfgList) : cfgList[j] = "memory"
      BY <2>2 DEF Boot!ToSet, BootTyped
    <3>2. j \in 1..(nth - 1) /\ j <= Len(cfgList)
      BY <2>1 DEF BootTyped
    <3> QED  BY <2>2, <3>1, <3>2 DEF PoolInv
  <2> QED  BY <1>1, <2>1, <2>2 DEF PoolInv, MemoryEarly, GoodFile
<1>5. ASSUME NEW k \in Boot!Kinds, Boot!GetQueue(k) PROVE PoolInv'
  <2>1. /\ phase = "configured" /\ k \in Boot!ToSet(cfgList)
        /\ UNCHANGED << cfgList, poolSize >> /\ phase' # "initialising"
        /\ \/ UNCHANGED << queueReg, memoryPool >>
           \/ /\ queueReg' = queueReg \cup {k}
              /\ memoryPool' = IF k = "memory" THEN poolSize ELSE memoryPool
    BY <1>5 DEF Boot!GetQueue, Boot!config
  <2>2. k = "memory" /\ GoodFile => poolSize = PoolSize
    BY <2>1 DEF PoolInv
  <2>3. "memory" \in queueReg' =>
          memoryPool' \in {0, PoolSize} /\ (GoodFile => memoryPool' = PoolSize)
    BY <2>1, <2>2 DEF PoolInv
  <2>4. MemoryEarly'
    BY <1>1, <2>1 DEF PoolInv, MemoryEarly, GoodFile
  <2> QED  BY <1>1, <2>1, <2>3, <2>4 DEF PoolInv, GoodFile
<1>6. ASSUME UNCHANGED << cfgList, poolSize, queueReg, memoryPool >>,
             phase # "initialising" \/ UNCHANGED << phase, nth >>
      PROVE  PoolInv'
  BY <1>1, <1>6 DEF PoolInv, MemoryEarly, GoodFile
<1>7. CASE Boot!Start \/ Boot!StartWarns \/ Boot!StartPanics \/ Boot!StartTask \/ Boot!RunQueue
  BY <1>6, <1>7 DEF Boot!Start, Boot!StartWarns, Boot!StartPanics, Boot!StartTask,
     Boot!RunQueue, Boot!config, Boot!given
<1>8. ASSUME NEW k \in Boot!Kinds, NEW list \in TaskLists[k], Boot!AddTasks(k, list)
      PROVE  PoolInv'
  BY <1>6, <1>8 DEF Boot!AddTasks, Boot!config
<1>9. ASSUME NEW list \in ServiceLists, Boot!AddServices(list) PROVE PoolInv'
  BY <1>6, <1>9 DEF Boot!AddServices, Boot!config
<1>10. CASE UNCHANGED Boot!vars
  BY <1>6, <1>10 DEF Boot!vars, Boot!config, Boot!given
<1> QED  BY <1>2, <1>3, <1>4, <1>5, <1>7, <1>8, <1>9, <1>10 DEF Boot!Next

\* When everything has started, every task has its consumer or its excuse, and the
\* queue in memory the room that is configured, or none where Queue.Init could not
\* get as far: for any files, tasks and services, however often Bootstrap is called.
THEOREM StartsCorrectly == Spec => []StartsAsConfigured
<1>1. Boot!Init => BootTyped /\ StartedInv /\ PoolInv
  BY BootInitTyped
<1>2. BootTyped /\ StartedInv /\ PoolInv /\ [Boot!Next]_(Boot!vars)
        => (BootTyped /\ StartedInv /\ PoolInv)'
  BY ServicesAssumption, BootNextTyped, BootNextStarted, BootNextPool
<1>3. BootTyped /\ StartedInv /\ PoolInv => StartsAsConfigured
  <2> SUFFICES ASSUME BootTyped, StartedInv, PoolInv PROVE Boot!StartsAsConfigured
    BY DEF StartsAsConfigured
  <2>1. ASSUME phase = "running", NEW n \in DOMAIN services,
               NEW t \in Boot!ToSet(tasks[services[n]])
        PROVE  HasConsumer(services[n], t)
    <3>1. n \in 1..Len(services) /\ n < svc /\ services[n] \in Boot!Kinds
      BY <2>1 DEF StartedInv, BootTyped
    <3>2. PICK i \in 1..Len(tasks[services[n]]) : tasks[services[n]][i] = t
      BY <3>1 DEF Boot!ToSet, BootTyped
    <3> QED  BY <2>1, <3>1, <3>2 DEF StartedInv
  <2>2. ASSUME "memory" \in queueReg
        PROVE  \/ memoryPool = PoolSize
               \/ memoryPool = 0 /\ (settings["rabbitmq"] = "bad" \/ settings["memory"] = "bad"
                                     \/ \E k \in Boot!Kinds : settings[k] = "unreadable")
    BY <2>2 DEF PoolInv, GoodFile
  <2> QED  BY <2>1, <2>2 DEF Boot!StartsAsConfigured, HasConsumer
<1>4. Init => Boot!Init
  BY DEF Init
<1>5. [Next]_vars => [Boot!Next]_(Boot!vars)
  BY BootFrame
<1> QED  BY <1>1, <1>2, <1>3, <1>4, <1>5, PTL DEF Spec

-----------------------------------------------------------------------------
(* The export *)

LEMMA ExportFrame == ASSUME [Next]_vars PROVE [Export!Next]_(Export!vars)
BY DEF Next, vars, exportVars, Export!vars, Export!plan, Export!book

LEMMA QuotientBounds ==
  ASSUME NEW a \in Nat, NEW b \in Nat \ {0}
  PROVE  /\ a \div b \in Nat
         /\ (a \div b) * b <= a
         /\ a < (a \div b) * b + b
OBVIOUS

LEMMA TimesGrows == \A a, b, c \in Nat : a <= b => a * c <= b * c
OBVIOUS

LEMMA TimesNext ==
  \A a, c \in Nat : /\ a * c \in Nat /\ (a + 1) * c \in Nat
                    /\ (a + 1) * c = a * c + c
OBVIOUS

\* Just so many pages as the rows need
LEMMA ExportPages ==
  ASSUME NEW rows \in Nat, NEW size \in Nat \ {0}
  PROVE  /\ Export!Pages(rows, size) \in Nat
         /\ Export!Pages(rows, size) * size >= rows
         /\ Export!Pages(rows, size) * size < rows + size
         /\ rows = 0 => Export!Pages(rows, size) = 0
         /\ rows > 0 => Export!Pages(rows, size) > 0
<1>. DEFINE q == Export!Pages(rows, size)
<1>1. rows + size - 1 \in Nat
  OBVIOUS
<1>2. /\ q \in Nat /\ q * size <= rows + size - 1 /\ rows + size - 1 < q * size + size
  BY <1>1, QuotientBounds DEF Export!Pages
<1>. HIDE DEF q
<1>3. q * size >= rows /\ q * size < rows + size
  BY <1>2
<1>4. rows = 0 => q = 0
  <2> SUFFICES ASSUME rows = 0, q >= 1 PROVE FALSE
    BY <1>2
  <2>1. 1 * size <= q * size
    BY <1>2, TimesGrows
  <2>2. 1 * size = size /\ q * size \in Nat
    BY <1>2
  <2> QED  BY <2>1, <2>2, <1>3
<1>5. rows > 0 => q > 0
  BY <1>2
<1> QED  BY <1>2, <1>3, <1>4, <1>5 DEF q

\* The pages of a sheet hold less than SheetSize and a page.
LEMMA ExportPlan ==
  ASSUME NEW w \in Nat, NEW p \in Nat \ {0}, NEW s \in Nat \ {0}, p <= s,
         NEW P \in Nat, P = IF Export!Pages(w, p) = 0 THEN 1 ELSE Export!Pages(w, p),
         NEW S \in Nat \ {0}, S = Export!Pages(w, s)
  PROVE  Export!Pages(P, S) * p < s + p
<1>1. P * p <= w + p - 1
  <2>1. w > 0
    BY ExportPages
  <2>2. Export!Pages(w, p) > 0 /\ Export!Pages(w, p) * p < w + p
    BY <2>1, ExportPages
  <2>4. P = Export!Pages(w, p)
    BY <2>2
  <2>3. P * p \in Nat
    OBVIOUS
  <2> QED  BY <2>2, <2>3, <2>4
<1>2. S * s >= w
  BY ExportPages
<1>. DEFINE C == Export!Pages(P, S)
<1>3. C \in Nat /\ C * S <= P + S - 1
  <2>1. C \in Nat /\ C * S < P + S
    BY ExportPages
  <2>2. C * S \in Nat
    BY <2>1
  <2> QED  BY <2>1, <2>2
<1>. HIDE DEF C
<1>4. SUFFICES ASSUME s + p <= C * p PROVE FALSE
  <2>1. C * p \in Nat
    BY <1>3
  <2> QED  BY <2>1 DEF C
<1>5. (s + p) * S <= (C * p) * S
  <2>1. C * p \in Nat /\ s + p \in Nat
    BY <1>3
  <2> QED  BY <1>4, <2>1, TimesGrows
<1>6. (C * S) * p <= (P + S - 1) * p
  <2>1. C * S \in Nat /\ P + S - 1 \in Nat
    BY <1>3
  <2> QED  BY <1>3, <2>1, TimesGrows
<1>7. (C * p) * S = (C * S) * p
  BY <1>3
<1>8. (s + p) * S = S * s + S * p /\ (P + S - 1) * p = P * p + S * p - p
  OBVIOUS
<1>9. /\ S * s \in Nat /\ S * p \in Nat /\ P * p \in Nat
      /\ (C * S) * p \in Nat
  BY <1>3
<1> QED  BY <1>1, <1>2, <1>5, <1>6, <1>7, <1>8, <1>9

LEMMA ExportOptions ==
  ASSUME Export!ExportSizesAssumption, options \in Export!Options
  PROVE  /\ options.page \in Nat \ {0} /\ options.sheet \in Nat \ {0}
         /\ options.page <= options.sheet /\ options.limit \in Nat
         /\ options.hasTotal \in BOOLEAN /\ options.hasFields \in BOOLEAN
BY DEF Export!ExportSizesAssumption, Export!Options

\* The rows of a page: those of its places in the table that there are.
LEMMA ExportList ==
  ASSUME Export!ExportSizesAssumption, options \in Export!Options, table \in Seq(Nat),
         NEW n \in Nat \ {0}
  PROVE  /\ Export!List(n) \in Seq(Nat)
         /\ (n - 1) * options.page \in Nat
         /\ n * options.page = (n - 1) * options.page + options.page
         /\ Len(Export!List(n)) =
              IF n * options.page < Len(table) THEN options.page
              ELSE IF (n - 1) * options.page < Len(table)
                   THEN Len(table) - (n - 1) * options.page ELSE 0
         /\ \A i \in 1..Len(Export!List(n)) :
              /\ (n - 1) * options.page + i \in 1..Len(table)
              /\ Export!List(n)[i] = table[(n - 1) * options.page + i]
<1>. DEFINE p == options.page
            f == (n - 1) * p
            e == IF n * p < Len(table) THEN n * p ELSE Len(table)
<1>1. p \in Nat \ {0}
  BY ExportOptions
<1>. HIDE DEF p
<1>2. f \in Nat /\ n * p = f + p
  BY <1>1
<1>3. Len(table) \in Nat
  OBVIOUS
<1>4. Export!List(n) = SubSeq(table, f + 1, e)
  BY DEF Export!List, p
<1>. HIDE DEF f
<1>5. e \in Nat /\ e <= Len(table)
  BY <1>1, <1>2, <1>3
<1>6. e = IF f + p < Len(table) THEN f + p ELSE Len(table)
  BY <1>2
<1>. HIDE DEF e
<1>7. \A i \in (f + 1)..e : table[i] \in Nat
  BY <1>2, <1>3, <1>5
<1>8. /\ SubSeq(table, f + 1, e) \in Seq(Nat)
      /\ Len(SubSeq(table, f + 1, e)) = IF f + 1 <= e THEN e - f ELSE 0
      /\ \A i \in 1..(e - f) : SubSeq(table, f + 1, e)[i] = table[f + i]
  BY <1>2, <1>5, <1>7
<1>9. Len(SubSeq(table, f + 1, e)) =
        IF f + p < Len(table) THEN p
        ELSE IF f < Len(table) THEN Len(table) - f ELSE 0
  BY <1>1, <1>2, <1>3, <1>6, <1>8
<1>10. ASSUME NEW i \in 1..Len(SubSeq(table, f + 1, e))
       PROVE  f + i \in 1..Len(table) /\ SubSeq(table, f + 1, e)[i] = table[f + i]
  <2>1. f + 1 <= e /\ i \in 1..(e - f)
    BY <1>2, <1>5, <1>8
  <2>2. f + i \in 1..Len(table)
    BY <1>2, <1>3, <1>5, <2>1
  <2> QED  BY <1>8, <2>1, <2>2
<1> QED  BY <1>2, <1>4, <1>8, <1>9, <1>10 DEF p, f

\* How many of these rows are written
LEMMA ExportFit ==
  ASSUME Export!ExportSizesAssumption, options \in Export!Options, count \in Nat,
         NEW list \in Seq(Nat)
  PROVE  /\ Export!Fit(list) \in Nat /\ Export!Fit(list) <= Len(list)
         /\ options.limit <= MaxInt32 =>
              /\ options.limit > count => Export!Fit(list) <= options.limit - count
              /\ options.limit <= count => Export!Fit(list) = 0
              /\ Export!Fit(list) < Len(list) => count + Export!Fit(list) >= options.limit
<1>1. options.limit \in Nat /\ MaxInt32 \in Nat /\ Len(list) \in Nat
  BY ExportOptions DEF Export!ExportSizesAssumption
<1>2. Export!Limit32 \in Int /\ (options.limit <= MaxInt32 => Export!Limit32 = options.limit)
  BY <1>1 DEF Export!Limit32
<1>3. /\ Export!Room \in Nat
      /\ Export!Room = IF Export!Limit32 > count THEN Export!Limit32 - count ELSE 0
  BY <1>2 DEF Export!Room
<1> QED  BY <1>1, <1>2, <1>3 DEF Export!Fit

ExportPerSheet == Export!Pages(pageTotal, sheetTotal)

\* What a sheet may come to, and what is known of the columns: they are built
\* from the first page, which has rows unless the table has lost all of them, and
\* then there are no more to come.
SheetsHeld ==
  /\ sheetTotal > 0 => ExportPerSheet * options.page < options.sheet + options.page
  /\ pc = "before" => sheets = << >> /\ written = << >> /\ columns = "unbuilt"
  /\ pc = "pages" => /\ sheetTotal > 0 /\ Len(sheets) > 0
                     /\ sheets[Len(sheets)] <= inSheet * options.page
  /\ \A n \in DOMAIN sheets : sheets[n] < options.sheet + options.page
  /\ Len(written) <= count
  /\ options.limit <= MaxInt32 => Len(written) <= options.limit

ColumnsKnown ==
  /\ blank => ~options.hasFields /\ rowKind # "struct"
  /\ ~options.hasTotal => total = 0
  /\ pc = "before" => columns = "unbuilt"
  /\ pc \in {"sheet", "pages"} =>
       /\ columns = "unbuilt" => page = 0
       /\ sheetTotal > 0 /\ change = "none" => Len(table) > 0
       /\ columns = "none" => /\ ~options.hasFields
                              /\ rowKind = "struct" => Len(table) = 0 /\ change # "none"

ExportWanted == Export!Wanted(total)

\* What Before has computed
PlanInv ==
  /\ pageTotal > 0 /\ page <= pageTotal
  /\ pageTotal = 1 \/ (pageTotal - 1) * options.page < ExportWanted
  /\ pageTotal * options.page >= ExportWanted
  /\ sheetTotal = 0 => ExportWanted = 0
  /\ sheetTotal > 0 => sheetTotal * ExportPerSheet >= pageTotal

\* How far the pages have come
PagesInv ==
  /\ Len(sheets) <= sheetTotal
  /\ pc = "sheet" =>
       \/ limit \/ page = pageTotal
       \/ sheets = << >> /\ page = 0
       \/ page = Len(sheets) * ExportPerSheet
  /\ pc = "pages" =>
       /\ Len(sheets) > 0
       /\ \/ limit \/ page = pageTotal
          \/ page = (Len(sheets) - 1) * ExportPerSheet + inSheet
       /\ inSheet <= ExportPerSheet
  /\ pc \in {"params", "save", "saved"} =>
       limit \/ page = pageTotal \/ ExportWanted = 0

Exporting == pc \in {"sheet", "pages", "params", "save", "saved"}

PagesPlanned == Exporting => PlanInv /\ PagesInv

\* What has been written is what the table began with.
WrittenInv ==
  /\ total <= Len(table)
  /\ count = start + Len(written)
  /\ \A i \in 1..Len(written) : i <= Len(table) /\ written[i] = table[i]
  /\ limit => count >= options.limit
  /\ ~limit /\ page < pageTotal => Len(written) = page * options.page
  /\ ~limit /\ page = pageTotal => Len(written) >= ExportWanted

RowsWritten ==
  /\ pc = "before" => count = start /\ written = << >>
  /\ Exporting /\ options.limit <= MaxInt32 /\ change # "shifted" => WrittenInv

RawsInv ==
  /\ pc \in {"before", "sheet", "pages"} => raws = {}
  /\ pc \in {"params", "save", "saved"} =>
       options.summary # "empty" /\ ("summary" \in raws <=> options.summary = "rows")
  /\ pc = "params" => "params" \notin raws
  /\ pc \in {"save", "saved"} =>
       options.params # "empty" /\ ("params" \in raws <=> options.params = "rows")

\* What the export's variables hold
Etyped == Export!ExportTypeOK

\* The rows written to the last sheet, if there is one
LEMMA ExportAdd ==
  ASSUME NEW q \in Seq(Nat), NEW rows \in Nat
  PROVE  LET new == [q EXCEPT ![Len(q)] = @ + rows]
         IN  /\ new \in Seq(Nat) /\ Len(new) = Len(q) /\ DOMAIN new = DOMAIN q
             /\ \A j \in DOMAIN q : new[j] = IF j = Len(q) THEN q[j] + rows ELSE q[j]
<1>1. Len(q) \in Nat /\ DOMAIN q = 1..Len(q) /\ q \in [1..Len(q) -> Nat]
  BY LenProperties
<1>2. CASE Len(q) \in 1..Len(q)
  <2>1. q[Len(q)] + rows \in Nat
    BY <1>1, <1>2
  <2>. DEFINE new == [q EXCEPT ![Len(q)] = q[Len(q)] + rows]
  <2>2. /\ new \in Seq(Nat) /\ Len(new) = Len(q)
        /\ \A j \in 1..Len(q) : new[j] = IF j = Len(q) THEN q[Len(q)] + rows ELSE q[j]
    BY <2>1, <1>2, ExceptSeq
  <2>3. DOMAIN new = 1..Len(new)
    BY <2>2, LenProperties
  <2> QED  BY <1>1, <2>2, <2>3
<1>3. CASE Len(q) = 0
  <2>1. 1..Len(q) = {}
    BY <1>3
  <2>2. [q EXCEPT ![Len(q)] = @ + rows] = q
    BY <1>1, <2>1, Zenon
  <2> QED  BY <1>1, <2>1, <2>2
<1> QED  BY <1>1, <1>2, <1>3

\* A page's rows that are written, after those written before
LEMMA ExportConcat ==
  ASSUME NEW s \in Seq(Nat), NEW t \in Seq(Nat)
  PROVE  /\ s \o t \in Seq(Nat) /\ Len(s \o t) = Len(s) + Len(t)
         /\ \A i \in 1..Len(s) : (s \o t)[i] = s[i]
         /\ \A i \in 1..Len(t) : (s \o t)[Len(s) + i] = t[i]
<1>1. Len(s) \in Nat /\ Len(t) \in Nat
  OBVIOUS
<1>. DEFINE q == s \o t
<1>2. /\ q \in Seq(Nat) /\ Len(q) = Len(s) + Len(t)
      /\ \A i \in 1..Len(s) + Len(t) : q[i] = IF i <= Len(s) THEN s[i] ELSE t[i - Len(s)]
  BY ConcatProperties
<1>. HIDE DEF q
<1>3. \A i \in 1..Len(s) : q[i] = s[i]
  BY <1>1, <1>2
<1>4. ASSUME NEW i \in 1..Len(t) PROVE q[Len(s) + i] = t[i]
  <2>1. Len(s) + i \in 1..Len(s) + Len(t) /\ ~(Len(s) + i <= Len(s))
        /\ (Len(s) + i) - Len(s) = i
    BY <1>1
  <2> QED  BY <2>1, <1>2
<1> QED  BY <1>2, <1>3, <1>4 DEF q

LEMMA ExportRows ==
  ASSUME Export!ExportSizesAssumption, Etyped,
         NEW list \in Seq(Nat), NEW f, f = Export!Fit(list)
  PROVE  LET new == written \o SubSeq(list, 1, f)
         IN  /\ new \in Seq(Nat) /\ Len(new) = Len(written) + f
             /\ \A i \in 1..Len(written) : new[i] = written[i]
             /\ \A i \in 1..f : new[Len(written) + i] = list[i]
<1>. DEFINE rows == SubSeq(list, 1, f)
<1>1. f \in Nat /\ f <= Len(list) /\ Len(list) \in Nat
  BY ExportFit DEF Etyped, Export!ExportTypeOK
<1>2. \A i \in 1..f : list[i] \in Nat
  BY <1>1
<1>3. rows \in Seq(Nat) /\ Len(rows) = f /\ \A i \in 1..f : rows[i] = list[i]
  BY <1>1, <1>2
<1>4. written \in Seq(Nat)
  BY DEF Etyped, Export!ExportTypeOK
<1>. HIDE DEF rows
<1>5. /\ written \o rows \in Seq(Nat) /\ Len(written \o rows) = Len(written) + Len(rows)
      /\ \A i \in 1..Len(written) : (written \o rows)[i] = written[i]
      /\ \A i \in 1..Len(rows) : (written \o rows)[Len(written) + i] = rows[i]
  BY <1>3, <1>4, ExportConcat
<1> QED  BY <1>3, <1>5 DEF rows

\* The page that is fetched next
LEMMA ExportPage ==
  ASSUME Export!ExportSizesAssumption, Etyped, NEW list, list = Export!List(page + 1)
  PROVE  /\ list \in Seq(Nat) /\ Len(list) \in Nat /\ Len(table) \in Nat
         /\ page * options.page \in Nat
         /\ (page + 1) * options.page = page * options.page + options.page
         /\ Len(list) = IF (page + 1) * options.page < Len(table) THEN options.page
                        ELSE IF page * options.page < Len(table)
                             THEN Len(table) - page * options.page ELSE 0
         /\ \A i \in 1..Len(list) : /\ page * options.page + i \in 1..Len(table)
                                   /\ list[i] = table[page * options.page + i]
<1>1. PICK n : n = page + 1
  OBVIOUS
<1>2. /\ n \in Nat \ {0} /\ n - 1 = page
      /\ options \in Export!Options /\ table \in Seq(Nat) /\ Len(table) \in Nat
  BY <1>1 DEF Etyped, Export!ExportTypeOK
<1>3. /\ Export!List(n) \in Seq(Nat)
      /\ (n - 1) * options.page \in Nat
      /\ n * options.page = (n - 1) * options.page + options.page
      /\ Len(Export!List(n)) =
           IF n * options.page < Len(table) THEN options.page
           ELSE IF (n - 1) * options.page < Len(table)
                THEN Len(table) - (n - 1) * options.page ELSE 0
      /\ \A i \in 1..Len(Export!List(n)) :
           /\ (n - 1) * options.page + i \in 1..Len(table)
           /\ Export!List(n)[i] = table[(n - 1) * options.page + i]
  BY <1>2, ExportList
<1>4. list = Export!List(n)
  BY <1>1
<1>5. Len(list) \in Nat
  BY <1>3, <1>4
<1> QED  BY <1>1, <1>2, <1>3, <1>4, <1>5

\* A page fetched: f rows of the list are written, all of them or as many as
\* LimitSize leaves, or an error comes.
LEMMA ExportFetch ==
  ASSUME Export!ExportSizesAssumption, Etyped, Export!FetchPage,
         NEW list, list = Export!List(page + 1), NEW f, f = Export!Fit(list)
  PROVE  /\ list \in Seq(Nat) /\ f \in Nat /\ f <= Len(list)
         /\ pc = "pages" /\ page' = page + 1 /\ Export!MorePages
         /\ UNCHANGED << options, rowKind, table, change, total, pageTotal, sheetTotal,
                         raws, runs, start >>
         /\ \/ /\ inSheet' = inSheet + 1 /\ columns' = Export!PreBuildHeader(list)
               /\ written' = written \o SubSeq(list, 1, f)
               /\ sheets' = [sheets EXCEPT ![Len(sheets)] = @ + f]
               /\ blank' \in BOOLEAN /\ (blank' => blank \/ (f > 0 /\ columns' = "none"))
               /\ count' = count + f
               /\ limit' \in BOOLEAN /\ (limit' <=> f < Len(list))
               /\ pc' = "pages"
            \/ /\ count' \in count..(count + f) /\ pc' = "failed"
               /\ UNCHANGED << inSheet, columns, written, sheets, blank, limit >>
<1>1. page \in Nat /\ count \in Nat /\ options \in Export!Options /\ table \in Seq(Nat)
      /\ blank \in BOOLEAN
  BY DEF Etyped, Export!ExportTypeOK
<1>2. list \in Seq(Nat)
  <2>1. page + 1 \in Nat \ {0}
    BY <1>1
  <2> QED  BY <2>1, <1>1, ExportList
<1>3. f \in Nat /\ f <= Len(list)
  BY <1>1, <1>2, ExportFit
<1>4. page' = page + 1 /\ pc = "pages" /\ Export!MorePages
      /\ UNCHANGED << options, rowKind, table, change, total, pageTotal, sheetTotal,
                      raws, runs, start >>
  BY DEF Export!FetchPage, Export!plan
<1>5. list = Export!List(page')
  BY <1>4
<1>6. \/ /\ inSheet' = inSheet + 1 /\ columns' = Export!PreBuildHeader(list)
         /\ written' = written \o SubSeq(list, 1, f)
         /\ sheets' = [sheets EXCEPT ![Len(sheets)] = @ + f]
         /\ blank' = (blank \/ (f > 0 /\ columns' = "none"))
         /\ count' = count + f /\ limit' = (f < Len(list)) /\ pc' = pc
      \/ /\ count' \in count..(count + f) /\ pc' = "failed"
         /\ UNCHANGED << inSheet, columns, written, sheets, blank, limit >>
  BY <1>5, Zenon DEF Export!FetchPage
<1>7. blank' = (blank \/ (f > 0 /\ columns' = "none")) =>
        blank' \in BOOLEAN /\ (blank' => blank \/ (f > 0 /\ columns' = "none"))
  OBVIOUS
<1>8. limit' = (f < Len(list)) => limit' \in BOOLEAN /\ (limit' <=> f < Len(list))
  <2>. DEFINE beyond == f < Len(list)
  <2>1. beyond \in BOOLEAN
    BY <1>2, <1>3
  <2>. HIDE DEF beyond
  <2>2. limit' = beyond => limit' \in BOOLEAN /\ (limit' <=> beyond)
    BY <2>1
  <2> QED  BY <2>2, Zenon DEF beyond
<1> QED  BY <1>2, <1>3, <1>4, <1>6, <1>7, <1>8, Zenon

LEMMA ExportInitTyped ==
  ASSUME Export!ExportSizesAssumption, Export!Init
  PROVE  Etyped
<1>1. table \in Seq(Nat)
  <2>1. PICK size \in Tables : table = [n \in 1..size |-> n]
    BY DEF Export!Init
  <2>2. size \in Nat
    BY <2>1 DEF Export!ExportSizesAssumption
  <2>3. [n \in 1..size |-> n] \in Seq(Nat)
    BY <2>2
  <2> QED  BY <2>1, <2>3
<1>2. sheets \in Seq(Nat) /\ written \in Seq(Nat)
  BY EmptySeq DEF Export!Init
<1>3. limit \in BOOLEAN /\ blank \in BOOLEAN
  BY DEF Export!Init
<1>4. /\ options \in Export!Options
      /\ change \in {"none", "grown", "shifted"} /\ pc = "idle"
      /\ columns \in {"unbuilt", "none", "some"} /\ raws \subseteq {"summary", "params"}
  BY DEF Export!Init
<1>5. /\ total \in Nat /\ pageTotal \in Nat /\ sheetTotal \in Nat
      /\ page \in Nat /\ inSheet \in Nat /\ count \in Nat
      /\ runs \in 0..MaxRuns /\ start \in Nat
  BY DEF Export!Init, Export!ExportSizesAssumption
<1> QED  BY <1>1, <1>2, <1>3, <1>4, <1>5 DEF Etyped, Export!ExportTypeOK

LEMMA ExportNextTyped ==
  ASSUME Export!ExportSizesAssumption, Etyped, [Export!Next]_(Export!vars)
  PROVE  Etyped'
<1>. USE DEF Etyped, Export!ExportTypeOK, Export!plan, Export!book
<1>1. CASE Export!Run
  <2>1. sheets' \in Seq(Nat) /\ written' \in Seq(Nat)
    BY <1>1, EmptySeq DEF Export!Run
  <2>2. runs' \in 0..MaxRuns
    BY <1>1 DEF Export!Run, Export!ExportSizesAssumption
  <2>3. blank' \in BOOLEAN
    BY <1>1 DEF Export!Run
  <2> QED  BY <1>1, <2>1, <2>2, <2>3 DEF Export!Run
<1>2. CASE Export!Before
  <2>1. options.page \in Nat \ {0} /\ options.sheet \in Nat \ {0} /\ options.limit \in Nat
    BY ExportOptions
  <2>2. CASE Export!Fails
    BY <2>2, <1>2 DEF Export!Fails
  <2>3. ASSUME pc' = "sheet", total' = IF options.hasTotal THEN Len(table) ELSE total,
               pageTotal' = LET pages == Export!Pages(Export!Wanted(total'), options.page)
                            IN  IF pages = 0 THEN 1 ELSE pages,
               sheetTotal' = Export!Pages(Export!Wanted(total'), options.sheet),
               page' = 0, limit' = FALSE,
               UNCHANGED << options, rowKind, table, change, inSheet, count, Export!book,
                            runs, start >>
        PROVE  Etyped'
    <3>1. total' \in Nat
      BY <2>3
    <3>2. Export!Wanted(total') \in Nat
      BY <2>1, <3>1 DEF Export!Wanted
    <3>3. pageTotal' \in Nat /\ sheetTotal' \in Nat
      BY <2>1, <2>3, <3>2, ExportPages
    <3> QED  BY <2>3, <3>1, <3>3
  <2> QED  BY <1>2, <2>2, <2>3 DEF Export!Before
<1>3. CASE Export!NewSheet
  BY <1>3 DEF Export!NewSheet
<1>4. CASE Export!FetchPage
  <2>1. PICK list : list = Export!List(page + 1)
    OBVIOUS
  <2>2. PICK f : f = Export!Fit(list)
    OBVIOUS
  <2>3. /\ list \in Seq(Nat) /\ f \in Nat /\ page' = page + 1
        /\ UNCHANGED << options, rowKind, table, change, total, pageTotal, sheetTotal,
                        raws, runs, start >>
    BY <1>4, <2>1, <2>2, ExportFetch
  <2>4. ASSUME inSheet' = inSheet + 1, columns' = Export!PreBuildHeader(list),
               written' = written \o SubSeq(list, 1, f),
               sheets' = [sheets EXCEPT ![Len(sheets)] = @ + f],
               blank' \in BOOLEAN, count' = count + f, limit' \in BOOLEAN, pc' = "pages"
        PROVE  Etyped'
    <3>1. written' \in Seq(Nat)
      BY <2>2, <2>3, <2>4, ExportRows
    <3>2. columns' \in {"unbuilt", "none", "some"}
      BY <2>4 DEF Export!PreBuildHeader, Export!Columns
    <3>3. sheets' \in Seq(Nat)
      BY <2>3, <2>4, ExportAdd
    <3> QED  BY <2>3, <2>4, <3>1, <3>2, <3>3
  <2>5. ASSUME count' \in count..(count + f), pc' = "failed",
               UNCHANGED << inSheet, columns, written, sheets, blank, limit >>
        PROVE  Etyped'
    <3>1. count' \in Nat
      BY <2>3, <2>5
    <3> QED  BY <2>3, <2>5, <3>1
  <2> QED  BY <1>4, <2>1, <2>2, <2>4, <2>5, ExportFetch
<1>5. CASE Export!EndSheet
  BY <1>5 DEF Export!EndSheet, Export!Proceeds, Export!Fails
<1>6. CASE Export!Summary
  BY <1>6 DEF Export!Summary, Export!AddRaw, Export!ProcessorRaw, Export!Fails
<1>7. CASE Export!Params
  BY <1>7 DEF Export!Params, Export!AddRaw, Export!ProcessorRaw, Export!Fails
<1>8. CASE Export!SaveAs
  BY <1>8 DEF Export!SaveAs, Export!Proceeds, Export!Fails
<1>9. CASE Export!Finish
  BY <1>9 DEF Export!Finish, Export!Proceeds, Export!Fails
<1>10. CASE Export!Return
  BY <1>10 DEF Export!Return
<1>11. CASE Export!Others
  <2>1. Append(table, Export!Fresh) \in Seq(Nat) /\ << Export!Fresh >> \o table \in Seq(Nat)
    BY DEF Export!Fresh
  <2>2. table # << >> => Tail(table) \in Seq(Nat)
    OBVIOUS
  <2> QED  BY <1>11, <2>1, <2>2 DEF Export!Others, Export!Change
<1>12. CASE UNCHANGED Export!vars
  BY <1>12 DEF Export!vars
<1> QED
  BY <1>1, <1>2, <1>3, <1>4, <1>5, <1>6, <1>7, <1>8, <1>9, <1>10, <1>11, <1>12
  DEF Export!Next

\* What Before does when it does not fail
LEMMA ExportBefore ==
  ASSUME Export!ExportSizesAssumption, Etyped, Export!Before, ~Export!Fails
  PROVE  /\ pc = "before" /\ pc' = "sheet" /\ page' = 0 /\ limit' = FALSE
         /\ total' = IF options.hasTotal THEN Len(table) ELSE total
         /\ ExportWanted' \in Nat /\ ExportWanted' <= total'
         /\ (total' = 0 => ExportWanted' = 0)
         /\ sheetTotal' = Export!Pages(ExportWanted', options.sheet)
         /\ pageTotal' = IF Export!Pages(ExportWanted', options.page) = 0 THEN 1
                         ELSE Export!Pages(ExportWanted', options.page)
         /\ UNCHANGED << options, rowKind, table, change, inSheet, count, columns, sheets,
                         written, blank, raws, runs, start >>
<1>1. /\ pc = "before" /\ pc' = "sheet" /\ page' = 0 /\ limit' = FALSE
      /\ total' = IF options.hasTotal THEN Len(table) ELSE total
      /\ sheetTotal' = Export!Pages(Export!Wanted(total'), options.sheet)
      /\ pageTotal' = IF Export!Pages(Export!Wanted(total'), options.page) = 0 THEN 1
                      ELSE Export!Pages(Export!Wanted(total'), options.page)
      /\ UNCHANGED << options, rowKind, table, change, inSheet, count, columns, sheets,
                      written, blank, raws, runs, start >>
  BY DEF Export!Before, Export!book
<1>2. ExportWanted' = Export!Wanted(total')
  BY <1>1 DEF ExportWanted, Export!Wanted
<1>3. total' \in Nat /\ options.limit \in Nat
  BY <1>1, ExportOptions DEF Etyped, Export!ExportTypeOK
<1>4. /\ Export!Wanted(total') \in Nat /\ Export!Wanted(total') <= total'
      /\ (total' = 0 => Export!Wanted(total') = 0)
  BY <1>3 DEF Export!Wanted
<1> QED  BY <1>1, <1>2, <1>4

LEMMA ExportInitHeld ==
  ASSUME Export!ExportSizesAssumption, Etyped, Export!Init
  PROVE  SheetsHeld /\ ColumnsKnown
<1>1. Len(sheets) = 0 /\ DOMAIN sheets = {} /\ Len(written) = 0
  BY EmptySeq DEF Export!Init
<1>2. options.limit \in Nat
  BY ExportOptions DEF Etyped, Export!ExportTypeOK
<1> QED  BY <1>1, <1>2 DEF Export!Init, SheetsHeld, ColumnsKnown

LEMMA ExportNextHeld ==
  ASSUME Export!ExportSizesAssumption, Etyped, SheetsHeld, [Export!Next]_(Export!vars)
  PROVE  SheetsHeld'
<1>. USE DEF Export!plan, Export!book
<1>0. options.page \in Nat \ {0} /\ options.sheet \in Nat \ {0} /\ options.limit \in Nat
      /\ options.page <= options.sheet
  BY ExportOptions DEF Etyped, Export!ExportTypeOK
<1>ty. /\ count \in Nat /\ written \in Seq(Nat) /\ sheets \in Seq(Nat) /\ inSheet \in Nat
       /\ sheetTotal \in Nat /\ pageTotal \in Nat /\ Len(written) \in Nat
  BY DEF Etyped, Export!ExportTypeOK
<1>1. CASE Export!Run
  <2>1. Len(sheets') = 0 /\ DOMAIN sheets' = {} /\ Len(written') = 0
    BY <1>1, EmptySeq DEF Export!Run
  <2> QED  BY <1>0, <1>1, <1>ty, <2>1 DEF Export!Run, SheetsHeld, ExportPerSheet
<1>2. CASE Export!Before
  <2>1. CASE Export!Fails
    BY <1>2, <2>1 DEF Export!Fails, SheetsHeld, ExportPerSheet
  <2>2. CASE ~Export!Fails
    <3>1. sheetTotal' > 0 =>
            ExportPerSheet' * options.page < options.sheet + options.page
      <4> SUFFICES ASSUME sheetTotal' > 0
                   PROVE  ExportPerSheet' * options.page < options.sheet + options.page
        OBVIOUS
      <4>1. PICK w : w = ExportWanted'
        OBVIOUS
      <4>2. w \in Nat /\ sheetTotal' = Export!Pages(w, options.sheet)
            /\ pageTotal' = IF Export!Pages(w, options.page) = 0 THEN 1
                            ELSE Export!Pages(w, options.page)
        BY <1>2, <2>2, <4>1, ExportBefore
      <4>3. sheetTotal' \in Nat \ {0} /\ pageTotal' \in Nat
        <5>1. Export!Pages(w, options.page) \in Nat
          BY <1>0, <4>2, ExportPages
        <5>2. Export!Pages(w, options.sheet) \in Nat
          BY <1>0, <4>2, ExportPages
        <5> QED  BY <4>2, <5>1, <5>2
      <4>4. Export!Pages(pageTotal', sheetTotal') * options.page
              < options.sheet + options.page
        BY <1>0, <4>2, <4>3, ExportPlan
      <4>5. ExportPerSheet' = Export!Pages(pageTotal', sheetTotal')
        BY DEF ExportPerSheet, Export!Pages
      <4> QED  BY <4>4, <4>5
    <3> QED  BY <1>2, <2>2, <3>1, ExportBefore DEF SheetsHeld
  <2> QED  BY <2>1, <2>2
<1>3. CASE Export!NewSheet
  <2>1. /\ sheets' = Append(sheets, 0) /\ inSheet' = 0 /\ pc' = "pages" /\ sheetTotal > 0
        /\ UNCHANGED << options, sheetTotal, pageTotal, count, written >>
    BY <1>3, <1>ty DEF Export!NewSheet
  <2>2. /\ Len(sheets') > 0 /\ sheets'[Len(sheets')] = 0
        /\ \A n \in DOMAIN sheets' : sheets'[n] = 0 \/ (n \in DOMAIN sheets /\ sheets'[n] = sheets[n])
    BY <2>1, <1>ty
  <2>3. 0 < options.sheet + options.page /\ 0 * options.page = 0
    BY <1>0
  <2>4. \A n \in DOMAIN sheets' : sheets'[n] < options.sheet + options.page
    BY <2>2, <2>3 DEF SheetsHeld
  <2>5. sheets'[Len(sheets')] <= inSheet' * options.page
    BY <2>1, <2>2, <2>3
  <2> QED  BY <2>1, <2>2, <2>4, <2>5 DEF SheetsHeld, ExportPerSheet
<1>4. CASE Export!FetchPage
  <2>1. PICK list : list = Export!List(page + 1)
    OBVIOUS
  <2>2. PICK f : f = Export!Fit(list)
    OBVIOUS
  <2>3. /\ list \in Seq(Nat) /\ f \in Nat /\ f <= Len(list) /\ pc = "pages" /\ Export!MorePages
        /\ UNCHANGED << options, rowKind, table, change, total, pageTotal, sheetTotal,
                        raws, runs, start >>
    BY <1>4, <2>1, <2>2, ExportFetch
  <2>4. f <= options.page
    <3>1. /\ page * options.page \in Nat
          /\ Len(list) = IF (page + 1) * options.page < Len(table) THEN options.page
                         ELSE IF page * options.page < Len(table)
                              THEN Len(table) - page * options.page ELSE 0
          /\ (page + 1) * options.page = page * options.page + options.page
          /\ Len(table) \in Nat
      BY <2>1, ExportPage
    <3>2. Len(list) <= options.page
      BY <1>0, <3>1
    <3> QED  BY <1>0, <2>3, <3>2
  <2>5. ASSUME inSheet' = inSheet + 1, written' = written \o SubSeq(list, 1, f),
               sheets' = [sheets EXCEPT ![Len(sheets)] = @ + f],
               count' = count + f, pc' = "pages"
        PROVE  SheetsHeld'
    <3>1. Len(written') = Len(written) + f
      BY <2>2, <2>3, <2>5, ExportRows
    <3>2. /\ Len(sheets') = Len(sheets) /\ DOMAIN sheets' = DOMAIN sheets
          /\ \A j \in DOMAIN sheets :
               sheets'[j] = IF j = Len(sheets) THEN sheets[j] + f ELSE sheets[j]
      BY <1>ty, <2>3, <2>5, ExportAdd
    <3>3. Len(sheets) \in DOMAIN sheets /\ sheets[Len(sheets)] \in Nat
      BY <1>ty, <2>3 DEF SheetsHeld
    <3>4. sheets'[Len(sheets)] <= inSheet' * options.page
      <4>1. sheets[Len(sheets)] <= inSheet * options.page
        BY <2>3 DEF SheetsHeld
      <4>2. inSheet' * options.page = inSheet * options.page + options.page
            /\ inSheet * options.page \in Nat
        BY <1>0, <1>ty, <2>5, TimesNext
      <4>3. PICK a, b : a = inSheet * options.page /\ b = inSheet' * options.page
        OBVIOUS
      <4>4. sheets'[Len(sheets)] = sheets[Len(sheets)] + f
        BY <3>2, <3>3
      <4>5. sheets[Len(sheets)] + f <= b
        BY <1>0, <2>3, <2>4, <3>3, <4>1, <4>2, <4>3
      <4> QED  BY <4>3, <4>4, <4>5
    <3>5. inSheet' * options.page < options.sheet + options.page
      <4>1. sheetTotal > 0 /\ inSheet < ExportPerSheet
        BY <2>3 DEF SheetsHeld, Export!MorePages, ExportPerSheet
      <4>2. ExportPerSheet \in Nat
        BY <1>ty, <4>1, ExportPages DEF ExportPerSheet
      <4>3. inSheet' * options.page <= ExportPerSheet * options.page
        <5>1. inSheet' \in Nat /\ inSheet' <= ExportPerSheet /\ options.page \in Nat
          BY <1>0, <1>ty, <2>5, <4>1, <4>2
        <5> QED  BY <4>2, <5>1, TimesGrows
      <4>4. ExportPerSheet * options.page < options.sheet + options.page
        BY <4>1 DEF SheetsHeld
      <4>5. inSheet' * options.page \in Nat /\ ExportPerSheet * options.page \in Nat
        BY <1>0, <1>ty, <2>5, <4>2, TimesNext
      <4> QED  BY <1>0, <4>3, <4>4, <4>5
    <3>6. \A n \in DOMAIN sheets' : sheets'[n] < options.sheet + options.page
      <4>1. sheets'[Len(sheets)] < options.sheet + options.page
        <5>1. sheets'[Len(sheets)] \in Nat /\ inSheet' * options.page \in Nat
          <6>1. sheets'[Len(sheets)] = sheets[Len(sheets)] + f
            BY <3>2, <3>3
          <6>2. inSheet' \in Nat /\ options.page \in Nat
            BY <1>0, <1>ty, <2>5
          <6> QED  BY <2>3, <3>3, <6>1, <6>2, TimesNext
        <5> QED  BY <1>0, <3>4, <3>5, <5>1
      <4> QED  BY <3>2, <4>1 DEF SheetsHeld
    <3>7. Len(written') <= count' /\ (options.limit <= MaxInt32 => Len(written') <= options.limit)
      <4>1. Len(written) <= count /\ (options.limit <= MaxInt32 => Len(written) <= options.limit)
        BY DEF SheetsHeld
      <4>2. options.limit <= MaxInt32 =>
              /\ options.limit > count => f <= options.limit - count
              /\ options.limit <= count => f = 0
        BY <2>2, <2>3, <1>ty, ExportFit DEF Etyped, Export!ExportTypeOK
      <4>3. count' = count + f /\ f \in Nat /\ count \in Nat /\ Len(written) \in Nat
        BY <1>ty, <2>3, <2>5
      <4>4. Len(written') <= count'
        BY <3>1, <4>1, <4>3
      <4>5. ASSUME options.limit <= MaxInt32 PROVE Len(written') <= options.limit
        <5>1. CASE options.limit > count
          BY <1>0, <3>1, <4>1, <4>2, <4>3, <4>5, <5>1
        <5>2. CASE options.limit <= count
          BY <1>0, <3>1, <4>1, <4>2, <4>3, <4>5, <5>2
        <5> QED  BY <1>0, <4>3, <5>1, <5>2
      <4> QED  BY <4>4, <4>5
    <3>8. sheetTotal > 0 /\ Len(sheets) > 0
      BY <2>3 DEF SheetsHeld
    <3> QED
      BY <2>3, <2>5, <3>2, <3>4, <3>6, <3>7, <3>8 DEF SheetsHeld, ExportPerSheet
  <2>6. ASSUME count' \in count..(count + f), pc' = "failed",
               UNCHANGED << inSheet, columns, written, sheets, blank, limit >>
        PROVE  SheetsHeld'
    BY <1>ty, <2>3, <2>6 DEF SheetsHeld, ExportPerSheet
  <2> QED  BY <1>4, <2>1, <2>2, <2>5, <2>6, ExportFetch
<1>5. CASE Export!EndSheet
  BY <1>5 DEF Export!EndSheet, Export!Proceeds, Export!Fails, SheetsHeld, ExportPerSheet
<1>6. CASE Export!Summary
  BY <1>6 DEF Export!Summary, Export!AddRaw, Export!Fails, SheetsHeld, ExportPerSheet
<1>7. CASE Export!Params
  BY <1>7 DEF Export!Params, Export!AddRaw, Export!Fails, SheetsHeld, ExportPerSheet
<1>8. CASE Export!SaveAs
  BY <1>8 DEF Export!SaveAs, Export!Proceeds, Export!Fails, SheetsHeld, ExportPerSheet
<1>9. CASE Export!Finish
  BY <1>9 DEF Export!Finish, Export!Proceeds, Export!Fails, SheetsHeld, ExportPerSheet
<1>10. CASE Export!Return
  BY <1>10 DEF Export!Return, SheetsHeld, ExportPerSheet
<1>11. CASE Export!Others
  BY <1>11 DEF Export!Others, Export!Change, SheetsHeld, ExportPerSheet
<1>12. CASE UNCHANGED Export!vars
  BY <1>12 DEF Export!vars, SheetsHeld, ExportPerSheet
<1> QED
  BY <1>1, <1>2, <1>3, <1>4, <1>5, <1>6, <1>7, <1>8, <1>9, <1>10, <1>11, <1>12
  DEF Export!Next

LEMMA ExportNextColumns ==
  ASSUME Export!ExportSizesAssumption, Etyped, SheetsHeld, ColumnsKnown,
         [Export!Next]_(Export!vars)
  PROVE  ColumnsKnown'
<1>. USE DEF Export!plan, Export!book
<1>0. options.page \in Nat \ {0} /\ options.sheet \in Nat \ {0} /\ options.limit \in Nat
      /\ options.hasTotal \in BOOLEAN
  BY ExportOptions DEF Etyped, Export!ExportTypeOK
<1>ty. page \in Nat /\ sheetTotal \in Nat /\ Len(table) \in Nat
  BY DEF Etyped, Export!ExportTypeOK
<1>1. CASE Export!Run
  BY <1>1 DEF Export!Run, ColumnsKnown
<1>2. CASE Export!Before
  <2>1. CASE Export!Fails
    BY <1>2, <2>1 DEF Export!Fails, ColumnsKnown
  <2>2. CASE ~Export!Fails
    <3>1. /\ pc = "before" /\ pc' = "sheet" /\ page' = 0
          /\ total' = IF options.hasTotal THEN Len(table) ELSE total
          /\ UNCHANGED << options, rowKind, table, change, columns, blank >>
      BY <1>2, <2>2, ExportBefore
    <3>2. sheetTotal' > 0 => total' > 0
      <4>1. total' = 0 => ExportWanted' = 0 /\ sheetTotal' = Export!Pages(ExportWanted', options.sheet)
        BY <1>2, <2>2, ExportBefore
      <4>2. Export!Pages(0, options.sheet) = 0
        BY <1>0, ExportPages
      <4>3. total' \in Nat
        BY <3>1, <1>ty DEF Etyped, Export!ExportTypeOK
      <4> QED  BY <4>1, <4>2, <4>3
    <3>3. sheetTotal' > 0 => Len(table) > 0
      BY <1>0, <1>ty, <3>1, <3>2 DEF ColumnsKnown
    <3> QED  BY <3>1, <3>3 DEF ColumnsKnown
  <2> QED  BY <2>1, <2>2
<1>3. CASE Export!NewSheet
  BY <1>3 DEF Export!NewSheet, ColumnsKnown
<1>4. CASE Export!FetchPage
  <2>1. PICK list : list = Export!List(page + 1)
    OBVIOUS
  <2>2. PICK f : f = Export!Fit(list)
    OBVIOUS
  <2>3. /\ list \in Seq(Nat) /\ f \in Nat /\ f <= Len(list) /\ pc = "pages"
        /\ UNCHANGED << options, rowKind, table, change, total, sheetTotal >>
    BY <1>4, <2>1, <2>2, ExportFetch
  <2>4. /\ Len(list) \in Nat /\ Len(table) = 0 => Len(list) = 0
        /\ page = 0 /\ Len(list) = 0 => Len(table) = 0
    <3>1. /\ Len(list) \in Nat /\ page * options.page \in Nat
          /\ (page + 1) * options.page = page * options.page + options.page
          /\ Len(list) = IF (page + 1) * options.page < Len(table) THEN options.page
                         ELSE IF page * options.page < Len(table)
                              THEN Len(table) - page * options.page ELSE 0
      BY <2>1, ExportPage
    <3>2. page = 0 => page * options.page = 0
      BY <1>0
    <3> QED  BY <1>0, <1>ty, <3>1, <3>2
  <2>5. ASSUME columns' = Export!PreBuildHeader(list), pc' = "pages",
               blank' => blank \/ (f > 0 /\ columns' = "none")
        PROVE  ColumnsKnown'
    <3>1. columns' # "unbuilt"
      BY <2>5 DEF Export!PreBuildHeader, Export!Columns
    <3>2. ASSUME columns' = "none"
          PROVE  /\ ~options.hasFields
                 /\ rowKind = "struct" => Len(table) = 0 /\ change # "none"
      <4>1. CASE columns = "unbuilt"
        <5>1. ~options.hasFields /\ (rowKind = "struct" => list = << >>)
          BY <2>5, <3>2, <4>1 DEF Export!PreBuildHeader, Export!Columns
        <5>2. list = << >> => Len(list) = 0
          BY EmptySeq
        <5>3. page = 0 /\ (sheetTotal > 0 /\ change = "none" => Len(table) > 0) /\ sheetTotal > 0
          BY <2>3, <4>1 DEF ColumnsKnown, SheetsHeld
        <5> QED  BY <1>ty, <2>4, <5>1, <5>2, <5>3
      <4>2. CASE columns # "unbuilt"
        BY <2>3, <2>5, <3>2, <4>2 DEF Export!PreBuildHeader, ColumnsKnown
      <4> QED  BY <4>1, <4>2
    <3>3. blank' => ~options.hasFields /\ rowKind # "struct"
      <4>1. CASE blank
        BY <4>1 DEF ColumnsKnown
      <4>2. ASSUME f > 0, columns' = "none" PROVE ~options.hasFields /\ rowKind # "struct"
        BY <2>3, <2>4, <3>2, <4>2
      <4> QED  BY <2>5, <4>1, <4>2
    <3>4. sheetTotal > 0 /\ change = "none" => Len(table) > 0
      BY <2>3 DEF ColumnsKnown
    <3>5. ~options.hasTotal => total = 0
      BY DEF ColumnsKnown
    <3> QED  BY <2>3, <2>5, <3>1, <3>2, <3>3, <3>4, <3>5 DEF ColumnsKnown
  <2>6. ASSUME pc' = "failed", UNCHANGED << columns, blank >>
        PROVE  ColumnsKnown'
    BY <2>3, <2>6 DEF ColumnsKnown
  <2> QED  BY <1>4, <2>1, <2>2, <2>5, <2>6, ExportFetch
<1>5. CASE Export!EndSheet
  BY <1>5 DEF Export!EndSheet, Export!Proceeds, Export!Fails, ColumnsKnown
<1>6. CASE Export!Summary
  BY <1>6 DEF Export!Summary, Export!AddRaw, Export!Fails, ColumnsKnown
<1>7. CASE Export!Params
  BY <1>7 DEF Export!Params, Export!AddRaw, Export!Fails, ColumnsKnown
<1>8. CASE Export!SaveAs
  BY <1>8 DEF Export!SaveAs, Export!Proceeds, Export!Fails, ColumnsKnown
<1>9. CASE Export!Finish
  BY <1>9 DEF Export!Finish, Export!Proceeds, Export!Fails, ColumnsKnown
<1>10. CASE Export!Return
  BY <1>10 DEF Export!Return, ColumnsKnown
<1>11. CASE Export!Others
  <2>1. /\ change = "none" /\ change' # "none"
        /\ UNCHANGED << options, rowKind, pc, total, sheetTotal, page, columns, blank >>
    BY <1>11 DEF Export!Others, Export!Change
  <2>2. pc \in {"sheet", "pages"} /\ columns = "none" => rowKind # "struct"
    BY <2>1 DEF ColumnsKnown
  <2> QED  BY <2>1, <2>2 DEF ColumnsKnown
<1>12. CASE UNCHANGED Export!vars
  BY <1>12 DEF Export!vars, ColumnsKnown
<1> QED
  BY <1>1, <1>2, <1>3, <1>4, <1>5, <1>6, <1>7, <1>8, <1>9, <1>10, <1>11, <1>12
  DEF Export!Next

\* Every sheet of an export is bounded, the rows are within LimitSize, and they
\* have their columns (SheetsBounded).
THEOREM SheetsAreBounded == Spec => []SheetsBounded
<1>1. Export!Init => Etyped /\ SheetsHeld /\ ColumnsKnown
  BY ServicesAssumption, ExportInitTyped, ExportInitHeld DEF ServicesAssumption
<1>2. Etyped /\ SheetsHeld /\ ColumnsKnown /\ [Export!Next]_(Export!vars)
        => (Etyped /\ SheetsHeld /\ ColumnsKnown)'
  BY ServicesAssumption, ExportNextTyped, ExportNextHeld, ExportNextColumns
  DEF ServicesAssumption
<1>3. SheetsHeld /\ ColumnsKnown => SheetsBounded
  BY DEF SheetsHeld, ColumnsKnown, SheetsBounded, Export!SheetsBounded
<1>4. Init => Export!Init
  BY DEF Init
<1>5. [Next]_vars => [Export!Next]_(Export!vars)
  BY ExportFrame
<1> QED  BY <1>1, <1>2, <1>3, <1>4, <1>5, PTL DEF Spec

LEMMA ExportNextRaws ==
  ASSUME Etyped, RawsInv, [Export!Next]_(Export!vars)
  PROVE  RawsInv'
<1>. USE DEF Export!plan, Export!book
<1>1. CASE Export!Run
  BY <1>1 DEF Export!Run, RawsInv
<1>2. CASE Export!Before
  BY <1>2 DEF Export!Before, Export!Fails, RawsInv
<1>3. CASE Export!NewSheet
  BY <1>3 DEF Export!NewSheet, RawsInv
<1>4. CASE Export!FetchPage
  <2>1. UNCHANGED << options, raws >> /\ pc = "pages" /\ pc' \in {"pages", "failed"}
    BY <1>4 DEF Export!FetchPage
  <2> QED  BY <2>1 DEF RawsInv
<1>5. CASE Export!EndSheet
  BY <1>5 DEF Export!EndSheet, Export!Proceeds, Export!Fails, RawsInv
<1>6. CASE Export!Summary
  <2>1. CASE Export!Fails
    BY <2>1 DEF Export!Fails, RawsInv
  <2>2. CASE pc = "sheet" /\ Export!AddRaw("summary", "params")
    <3>1. /\ pc = "sheet" /\ pc' = "params" /\ options' = options
          /\ options.summary # "empty"
          /\ raws' = IF options.summary = "rows" THEN raws \cup {"summary"} ELSE raws
      BY <2>2 DEF Export!AddRaw, Export!ProcessorRaw, Export!NonEmptyFields, Export!Describes
    <3>2. raws = {}
      BY <3>1 DEF RawsInv
    <3> QED  BY <3>1, <3>2 DEF RawsInv
  <2> QED  BY <1>6, <2>1, <2>2 DEF Export!Summary
<1>7. CASE Export!Params
  <2>1. CASE Export!Fails
    BY <2>1 DEF Export!Fails, RawsInv
  <2>2. CASE pc = "params" /\ Export!AddRaw("params", "save")
    <3>1. /\ pc = "params" /\ pc' = "save" /\ options' = options
          /\ options.params # "empty"
          /\ raws' = IF options.params = "rows" THEN raws \cup {"params"} ELSE raws
      BY <2>2 DEF Export!AddRaw, Export!ProcessorRaw, Export!NonEmptyFields, Export!Describes
    <3>2. /\ "params" \notin raws /\ options.summary # "empty"
          /\ ("summary" \in raws <=> options.summary = "rows")
      BY <3>1 DEF RawsInv
    <3> QED  BY <3>1, <3>2 DEF RawsInv
  <2> QED  BY <1>7, <2>1, <2>2 DEF Export!Params
<1>8. CASE Export!SaveAs
  BY <1>8 DEF Export!SaveAs, Export!Proceeds, Export!Fails, RawsInv
<1>9. CASE Export!Finish
  BY <1>9 DEF Export!Finish, Export!Proceeds, Export!Fails, RawsInv
<1>10. CASE Export!Return
  BY <1>10 DEF Export!Return, RawsInv
<1>11. CASE Export!Others
  <2>1. UNCHANGED << options, raws, pc >>
    BY <1>11 DEF Export!Others, Export!Change
  <2> QED  BY <2>1 DEF RawsInv
<1>12. CASE UNCHANGED Export!vars
  BY <1>12 DEF Export!vars, RawsInv
<1> QED
  BY <1>1, <1>2, <1>3, <1>4, <1>5, <1>6, <1>7, <1>8, <1>9, <1>10, <1>11, <1>12
  DEF Export!Next

\* The steps that leave what the pages go by alone
LEMMA ExportStill ==
  ASSUME UNCHANGED << options, total, pageTotal, sheetTotal, page, inSheet, limit, sheets >>
  PROVE  /\ ExportWanted' = ExportWanted /\ ExportPerSheet' = ExportPerSheet
         /\ PlanInv' = PlanInv
BY DEF ExportWanted, ExportPerSheet, PlanInv, Export!Wanted, Export!Pages

\* The pages of an export: it goes through its sheets, each for as many pages as
\* there are to one, and is through when it has fetched all of them.
LEMMA ExportNextPages ==
  ASSUME Export!ExportSizesAssumption, Etyped, SheetsHeld, PagesPlanned,
         [Export!Next]_(Export!vars)
  PROVE  PagesPlanned'
<1>. USE DEF Export!plan, Export!book
<1>0. options.page \in Nat \ {0} /\ options.sheet \in Nat \ {0} /\ options.limit \in Nat
      /\ options.page <= options.sheet
  BY ExportOptions DEF Etyped, Export!ExportTypeOK
<1>ty. /\ sheets \in Seq(Nat) /\ inSheet \in Nat /\ page \in Nat /\ Len(sheets) \in Nat
       /\ sheetTotal \in Nat /\ pageTotal \in Nat /\ limit \in BOOLEAN
  BY DEF Etyped, Export!ExportTypeOK
<1>per. sheetTotal > 0 => ExportPerSheet \in Nat
  <2> SUFFICES ASSUME sheetTotal > 0 PROVE ExportPerSheet \in Nat
    OBVIOUS
  <2>1. sheetTotal \in Nat \ {0} /\ pageTotal \in Nat
    BY <1>ty
  <2>2. Export!Pages(pageTotal, sheetTotal) \in Nat
    BY <2>1, ExportPages
  <2> QED  BY <2>2 DEF ExportPerSheet
<1>1. CASE Export!Run
  BY <1>1 DEF Export!Run, PagesPlanned, Exporting
<1>2. CASE Export!Before
  <2>1. CASE Export!Fails
    BY <1>2, <2>1 DEF Export!Fails, PagesPlanned, Exporting
  <2>2. CASE ~Export!Fails
    <3>1. PICK w : w = ExportWanted'
      OBVIOUS
    <3>2. /\ w \in Nat /\ sheetTotal' = Export!Pages(w, options.sheet)
          /\ pageTotal' = IF Export!Pages(w, options.page) = 0 THEN 1
                          ELSE Export!Pages(w, options.page)
          /\ pc = "before" /\ pc' = "sheet" /\ page' = 0
          /\ UNCHANGED << options, sheets >>
      BY <1>2, <2>2, <3>1, ExportBefore
    <3>3. PICK P : P = Export!Pages(w, options.page)
      OBVIOUS
    <3>4. PICK S : S = Export!Pages(w, options.sheet)
      OBVIOUS
    <3>5. /\ P \in Nat /\ P * options.page >= w /\ P * options.page < w + options.page
          /\ (w = 0 => P = 0) /\ (w > 0 => P > 0)
      BY <1>0, <3>2, <3>3, ExportPages
    <3>6. S \in Nat /\ (w > 0 => S > 0) /\ S = sheetTotal'
      BY <1>0, <3>2, <3>4, ExportPages
    <3>7. pageTotal' = IF P = 0 THEN 1 ELSE P
      BY <3>2, <3>3
    <3>8. pageTotal' = 1 \/ (pageTotal' - 1) * options.page < w
      <4> SUFFICES ASSUME P > 1 PROVE (P - 1) * options.page < w
        BY <3>5, <3>7
      <4>1. P - 1 \in Nat /\ (P - 1) + 1 = P
        BY <3>5
      <4>2. P * options.page = (P - 1) * options.page + options.page
            /\ (P - 1) * options.page \in Nat
        BY <1>0, <4>1, TimesNext
      <4> QED  BY <1>0, <3>2, <3>5, <4>2
    <3>9. pageTotal' * options.page >= w
      <4>1. CASE P = 0
        BY <1>0, <3>2, <3>5, <3>7, <4>1
      <4>2. CASE P # 0
        BY <3>5, <3>7, <4>2
      <4> QED  BY <4>1, <4>2
    <3>10. sheetTotal' > 0 => sheetTotal' * ExportPerSheet' >= pageTotal'
      <4> SUFFICES ASSUME S > 0 PROVE S * ExportPerSheet' >= pageTotal'
        BY <3>6
      <4>1. PICK T : T = pageTotal'
        OBVIOUS
      <4>2. T \in Nat /\ S \in Nat \ {0}
        BY <3>5, <3>6, <3>7, <4>1
      <4>3. PICK C : C = Export!Pages(T, S)
        OBVIOUS
      <4>4. C \in Nat /\ C * S >= T
        BY <4>2, <4>3, ExportPages
      <4>5. C * S = S * C
        BY <4>2, <4>4
      <4>6. ExportPerSheet' = C
        BY <3>6, <4>1, <4>3 DEF ExportPerSheet, Export!Pages
      <4> QED  BY <4>1, <4>4, <4>5, <4>6
    <3>11. PlanInv'
      <4>1. pageTotal' > 0 /\ 0 <= pageTotal'
        BY <3>5, <3>7
      <4>2. sheetTotal' = 0 => w = 0
        BY <3>2, <3>6
      <4> QED  BY <3>1, <3>2, <3>8, <3>9, <3>10, <4>1, <4>2 DEF PlanInv
    <3>12. PagesInv'
      <4>1. sheets' = << >> /\ Len(sheets') = 0
        BY <3>2, EmptySeq DEF SheetsHeld
      <4> QED  BY <3>2, <3>6, <4>1 DEF PagesInv
    <3> QED  BY <3>11, <3>12 DEF PagesPlanned
  <2> QED  BY <2>1, <2>2
<1>3. CASE Export!NewSheet
  <2>1. /\ pc = "sheet" /\ pc' = "pages" /\ ~limit /\ Len(sheets) < sheetTotal
        /\ sheets' = Append(sheets, 0) /\ inSheet' = 0
        /\ UNCHANGED << options, total, pageTotal, sheetTotal, page, limit >>
    BY <1>3 DEF Export!NewSheet
  <2>2. Len(sheets') = Len(sheets) + 1
    BY <1>ty, <2>1
  <2>3. PlanInv /\ PagesInv
    BY <2>1 DEF PagesPlanned, Exporting
  <2>4. PlanInv' /\ ExportPerSheet' = ExportPerSheet
    BY <2>1, <2>3 DEF PlanInv, ExportWanted, ExportPerSheet, Export!Wanted, Export!Pages
  <2>5. ExportPerSheet \in Nat
    BY <1>ty, <1>per, <2>1
  <2>6. page = pageTotal \/ page = Len(sheets) * ExportPerSheet
    <3>1. sheets = << >> => Len(sheets) * ExportPerSheet = 0
      BY <2>5, EmptySeq
    <3> QED  BY <2>1, <2>3, <3>1 DEF PagesInv
  <2>7. (Len(sheets') - 1) * ExportPerSheet + inSheet' = Len(sheets) * ExportPerSheet
    <3>1. Len(sheets') - 1 = Len(sheets) /\ Len(sheets) * ExportPerSheet \in Nat
      BY <1>ty, <2>2, <2>5, TimesNext
    <3> QED  BY <2>1, <3>1
  <2>8. PagesInv'
    <3>1. Len(sheets') > 0 /\ Len(sheets') <= sheetTotal' /\ inSheet' <= ExportPerSheet
      BY <1>ty, <2>1, <2>2, <2>5
    <3> QED  BY <2>1, <2>4, <2>6, <2>7, <3>1 DEF PagesInv
  <2> QED  BY <2>4, <2>8 DEF PagesPlanned
<1>4. CASE Export!FetchPage
  <2>1. PICK list : list = Export!List(page + 1)
    OBVIOUS
  <2>2. PICK f : f = Export!Fit(list)
    OBVIOUS
  <2>3. /\ f \in Nat /\ pc = "pages" /\ page' = page + 1 /\ Export!MorePages
        /\ UNCHANGED << options, total, pageTotal, sheetTotal >>
    BY <1>4, <2>1, <2>2, ExportFetch
  <2>4. ASSUME inSheet' = inSheet + 1, pc' = "pages",
               sheets' = [sheets EXCEPT ![Len(sheets)] = @ + f]
        PROVE  PagesPlanned'
    <3>1. PlanInv /\ PagesInv
      BY <2>3 DEF PagesPlanned, Exporting
    <3>2. page < pageTotal /\ ~limit /\ inSheet < ExportPerSheet
      BY <2>3 DEF Export!MorePages, ExportPerSheet
    <3>3. ExportWanted' = ExportWanted /\ ExportPerSheet' = ExportPerSheet
      BY <2>3 DEF ExportWanted, ExportPerSheet, Export!Wanted, Export!Pages
    <3>4. Len(sheets') = Len(sheets)
      BY <1>ty, <2>3, <2>4, ExportAdd
    <3>5. sheetTotal > 0 /\ ExportPerSheet \in Nat
      BY <1>per, <2>3 DEF SheetsHeld
    <3>6. PlanInv'
      BY <1>ty, <2>3, <3>1, <3>2, <3>3 DEF PlanInv
    <3>7. page' = (Len(sheets') - 1) * ExportPerSheet' + inSheet'
      <4>1. page = (Len(sheets) - 1) * ExportPerSheet + inSheet /\ Len(sheets) > 0
        BY <1>ty, <2>3, <3>1, <3>2 DEF PagesInv
      <4>2. Len(sheets) - 1 \in Nat
        BY <1>ty, <4>1
      <4>3. (Len(sheets) - 1) * ExportPerSheet \in Nat
        BY <3>5, <4>2, TimesNext
      <4> QED  BY <1>ty, <2>3, <2>4, <3>3, <3>4, <4>1, <4>3
    <3>8. PagesInv'
      <4>1. Len(sheets') > 0 /\ Len(sheets') <= sheetTotal' /\ inSheet' <= ExportPerSheet'
        BY <1>ty, <2>3, <2>4, <3>1, <3>2, <3>3, <3>4, <3>5 DEF PagesInv
      <4> QED  BY <2>4, <3>7, <4>1 DEF PagesInv
    <3> QED  BY <3>6, <3>8 DEF PagesPlanned
  <2>5. ASSUME pc' = "failed" PROVE PagesPlanned'
    BY <2>5 DEF PagesPlanned, Exporting
  <2> QED  BY <1>4, <2>1, <2>2, <2>4, <2>5, ExportFetch
<1>fail. ASSUME Export!Fails PROVE PagesPlanned'
  BY <1>fail DEF Export!Fails, PagesPlanned, Exporting
<1>5. CASE Export!EndSheet
  <2>1. CASE ~Export!Fails
    <3>1. /\ pc = "pages" /\ pc' = "sheet" /\ ~Export!MorePages
          /\ UNCHANGED << options, total, pageTotal, sheetTotal, page, inSheet, limit, sheets >>
      BY <1>5, <2>1 DEF Export!EndSheet, Export!Proceeds
    <3>2. PlanInv /\ PagesInv
      BY <3>1 DEF PagesPlanned, Exporting
    <3>3. PlanInv' /\ ExportPerSheet' = ExportPerSheet
      BY <3>1, <3>2, ExportStill
    <3>4. sheetTotal > 0 /\ ExportPerSheet \in Nat
      BY <1>per, <3>1 DEF SheetsHeld
    <3>5. limit \/ page = pageTotal \/ page = Len(sheets) * ExportPerSheet
      <4> SUFFICES ASSUME ~limit, page # pageTotal PROVE page = Len(sheets) * ExportPerSheet
        OBVIOUS
      <4>1. page < pageTotal
        BY <1>ty, <3>2 DEF PlanInv
      <4>2. inSheet = ExportPerSheet
        BY <1>ty, <3>1, <3>2, <3>4, <4>1 DEF Export!MorePages, PagesInv, ExportPerSheet
      <4>3. page = (Len(sheets) - 1) * ExportPerSheet + ExportPerSheet /\ Len(sheets) > 0
        BY <3>1, <3>2, <4>2 DEF PagesInv
      <4>4. Len(sheets) - 1 \in Nat /\ (Len(sheets) - 1) + 1 = Len(sheets)
        BY <1>ty, <4>3
      <4>5. Len(sheets) * ExportPerSheet = (Len(sheets) - 1) * ExportPerSheet + ExportPerSheet
        BY <3>4, <4>4, TimesNext
      <4> QED  BY <4>3, <4>5
    <3>6. PagesInv'
      BY <3>1, <3>2, <3>3, <3>5 DEF PagesInv
    <3> QED  BY <3>3, <3>6 DEF PagesPlanned
  <2> QED  BY <2>1, <1>fail
<1>6. CASE Export!Summary
  <2>1. CASE ~Export!Fails
    <3>1. /\ pc = "sheet" /\ pc' = "params" /\ (limit \/ Len(sheets) >= sheetTotal)
          /\ UNCHANGED << options, total, pageTotal, sheetTotal, page, inSheet, limit, sheets >>
      BY <1>6, <2>1 DEF Export!Summary, Export!AddRaw
    <3>2. PlanInv /\ PagesInv
      BY <3>1 DEF PagesPlanned, Exporting
    <3>3. PlanInv' /\ ExportPerSheet' = ExportPerSheet /\ ExportWanted' = ExportWanted
      BY <3>1, <3>2, ExportStill
    <3>4. limit \/ page = pageTotal \/ ExportWanted = 0
      <4> SUFFICES ASSUME ~limit, page # pageTotal PROVE ExportWanted = 0
        OBVIOUS
      <4>1. Len(sheets) = sheetTotal /\ page < pageTotal
        BY <1>ty, <3>1, <3>2 DEF PagesInv, PlanInv
      <4>2. CASE sheetTotal = 0
        BY <3>2, <4>2 DEF PlanInv
      <4>3. CASE sheetTotal > 0
        <5>1. sheets # << >>
          BY <4>1, <4>3, EmptySeq
        <5>2. page = sheetTotal * ExportPerSheet /\ sheetTotal * ExportPerSheet >= pageTotal
          BY <3>1, <3>2, <4>1, <4>3, <5>1 DEF PagesInv, PlanInv
        <5> QED  BY <1>ty, <4>1, <5>2
      <4> QED  BY <1>ty, <4>2, <4>3
    <3>5. PagesInv'
      BY <3>1, <3>2, <3>3, <3>4 DEF PagesInv
    <3> QED  BY <3>3, <3>5 DEF PagesPlanned
  <2> QED  BY <2>1, <1>fail
<1>7. ASSUME UNCHANGED << options, total, pageTotal, sheetTotal, page, inSheet, limit, sheets >>,
             \/ pc' = pc
             \/ pc \in {"params", "save"} /\ pc' \in {"save", "saved"}
             \/ pc' \in {"idle", "failed", "finished"}
      PROVE  PagesPlanned'
  <2>1. CASE pc' \in {"idle", "failed", "finished"}
    BY <2>1 DEF PagesPlanned, Exporting
  <2>2. CASE pc' = pc /\ ~Exporting
    BY <2>2 DEF PagesPlanned, Exporting
  <2>3. CASE pc' = pc /\ Exporting
    <3>1. PlanInv /\ PagesInv
      BY <2>3 DEF PagesPlanned
    <3>2. PlanInv' /\ ExportPerSheet' = ExportPerSheet /\ ExportWanted' = ExportWanted
      BY <1>7, <3>1, ExportStill
    <3>3. PagesInv'
      BY <1>7, <2>3, <3>1, <3>2 DEF PagesInv
    <3> QED  BY <3>2, <3>3 DEF PagesPlanned
  <2>4. CASE pc \in {"params", "save"} /\ pc' \in {"save", "saved"}
    <3>1. PlanInv /\ PagesInv
      BY <2>4 DEF PagesPlanned, Exporting
    <3>2. PlanInv' /\ ExportPerSheet' = ExportPerSheet /\ ExportWanted' = ExportWanted
      BY <1>7, <3>1, ExportStill
    <3>3. PagesInv'
      BY <1>7, <2>4, <3>1, <3>2 DEF PagesInv
    <3> QED  BY <3>2, <3>3 DEF PagesPlanned
  <2> QED  BY <1>7, <2>1, <2>2, <2>3, <2>4
<1>8. CASE Export!Params
  BY <1>7, <1>8, <1>fail DEF Export!Params, Export!AddRaw
<1>9. CASE Export!SaveAs
  BY <1>7, <1>9, <1>fail DEF Export!SaveAs, Export!Proceeds
<1>10. CASE Export!Finish
  BY <1>7, <1>10, <1>fail DEF Export!Finish, Export!Proceeds
<1>11. CASE Export!Return
  BY <1>7, <1>11 DEF Export!Return
<1>12. CASE Export!Others
  BY <1>7, <1>12 DEF Export!Others, Export!Change
<1>13. CASE UNCHANGED Export!vars
  BY <1>7, <1>13 DEF Export!vars
<1> QED
  BY <1>1, <1>2, <1>3, <1>4, <1>5, <1>6, <1>8, <1>9, <1>10, <1>11, <1>12, <1>13
  DEF Export!Next

\* The rows of an export: as long as the table has not been shifted, the pages
\* fetched are what it begins with, and each of them but the last is a whole page.
LEMMA ExportNextRows ==
  ASSUME Export!ExportSizesAssumption, Etyped, SheetsHeld, ColumnsKnown, PagesPlanned,
         RowsWritten, [Export!Next]_(Export!vars)
  PROVE  RowsWritten'
<1>. USE DEF Export!plan, Export!book
<1>0. options.page \in Nat \ {0} /\ options.limit \in Nat /\ options.hasTotal \in BOOLEAN
  BY ExportOptions DEF Etyped, Export!ExportTypeOK
<1>ty. /\ written \in Seq(Nat) /\ Len(written) \in Nat /\ page \in Nat /\ limit \in BOOLEAN
       /\ count \in Nat /\ start \in Nat /\ pageTotal \in Nat /\ total \in Nat
       /\ table \in Seq(Nat) /\ Len(table) \in Nat
  BY DEF Etyped, Export!ExportTypeOK
<1>w. ExportWanted \in Nat /\ ExportWanted <= total
  BY <1>0, <1>ty DEF ExportWanted, Export!Wanted
<1>1. CASE Export!Run
  BY <1>1 DEF Export!Run, RowsWritten, Exporting
<1>fail. ASSUME Export!Fails PROVE RowsWritten'
  BY <1>fail DEF Export!Fails, RowsWritten, Exporting
<1>2. CASE Export!Before
  <2>1. CASE ~Export!Fails
    <3>1. /\ pc = "before" /\ pc' = "sheet" /\ page' = 0 /\ limit' = FALSE
          /\ total' = IF options.hasTotal THEN Len(table) ELSE total
          /\ UNCHANGED << options, table, change, count, written, start >>
      BY <1>2, <2>1, ExportBefore
    <3>2. count = start /\ written = << >> /\ (~options.hasTotal => total = 0)
      BY <3>1 DEF RowsWritten, ColumnsKnown
    <3>3. Len(written') = 0 /\ total' <= Len(table)
      BY <1>0, <1>ty, <3>1, <3>2, EmptySeq
    <3>4. pageTotal' > 0
      <4>1. PICK w : w = ExportWanted'
        OBVIOUS
      <4>2. w \in Nat /\ pageTotal' = IF Export!Pages(w, options.page) = 0 THEN 1
                                      ELSE Export!Pages(w, options.page)
        BY <1>2, <2>1, <4>1, ExportBefore
      <4>3. Export!Pages(w, options.page) \in Nat
        BY <1>0, <4>2, ExportPages
      <4> QED  BY <4>2, <4>3
    <3>5. page' * options'.page = 0
      BY <1>0, <3>1
    <3>6. WrittenInv'
      BY <1>ty, <3>1, <3>2, <3>3, <3>4, <3>5 DEF WrittenInv
    <3> QED  BY <3>1, <3>6 DEF RowsWritten
  <2> QED  BY <2>1, <1>fail
<1>4. CASE Export!FetchPage
  <2>1. PICK list : list = Export!List(page + 1)
    OBVIOUS
  <2>2. PICK f : f = Export!Fit(list)
    OBVIOUS
  <2>3. /\ list \in Seq(Nat) /\ f \in Nat /\ f <= Len(list)
        /\ pc = "pages" /\ page' = page + 1 /\ Export!MorePages
        /\ UNCHANGED << options, table, change, total, pageTotal, start >>
    BY <1>4, <2>1, <2>2, ExportFetch
  <2>4. ASSUME written' = written \o SubSeq(list, 1, f), count' = count + f,
               limit' \in BOOLEAN, limit' <=> f < Len(list), pc' = "pages"
        PROVE  RowsWritten'
    <3> SUFFICES ASSUME options.limit <= MaxInt32, change # "shifted" PROVE WrittenInv'
      BY <2>3, <2>4 DEF RowsWritten
    <3>1. WrittenInv /\ PlanInv /\ page < pageTotal /\ ~limit
      BY <2>3 DEF RowsWritten, PagesPlanned, Exporting, Export!MorePages
    <3>2. PICK from : from = page * options.page
      OBVIOUS
    <3>3. /\ from \in Nat /\ Len(list) \in Nat
          /\ (page + 1) * options.page = from + options.page
          /\ Len(list) = IF from + options.page < Len(table) THEN options.page
                         ELSE IF from < Len(table) THEN Len(table) - from ELSE 0
          /\ \A i \in 1..Len(list) : from + i \in 1..Len(table) /\ list[i] = table[from + i]
      BY <2>1, <3>2, ExportPage
    <3>4. Len(written) = from
      BY <3>1, <3>2 DEF WrittenInv
    <3>5. /\ Len(written') = from + f
          /\ \A i \in 1..Len(written) : written'[i] = written[i]
          /\ \A i \in 1..f : written'[from + i] = list[i]
      <4>1. PICK new : new = written \o SubSeq(list, 1, f)
        OBVIOUS
      <4>2. /\ Len(new) = Len(written) + f
            /\ \A i \in 1..Len(written) : new[i] = written[i]
            /\ \A i \in 1..f : new[Len(written) + i] = list[i]
        BY <2>2, <2>3, <4>1, ExportRows
      <4>3. written' = new
        BY <2>4, <4>1
      <4> QED  BY <3>4, <4>2, <4>3
    <3>6. ASSUME NEW i \in 1..Len(written')
          PROVE  i <= Len(table) /\ written'[i] = table[i]
      <4>1. CASE i <= from
        BY <3>1, <3>3, <3>4, <3>5, <4>1 DEF WrittenInv
      <4>2. CASE i > from
        <5>1. PICK j : j = i - from
          OBVIOUS
        <5>2. j \in 1..f /\ j \in 1..Len(list) /\ i = from + j
          BY <2>3, <3>3, <3>5, <4>2, <5>1
        <5>3. written'[i] = list[j] /\ list[j] = table[i] /\ i \in 1..Len(table)
          BY <3>3, <3>5, <5>2
        <5> QED  BY <5>3, <1>ty
      <4> QED  BY <3>3, <4>1, <4>2
    <3>7. total <= Len(table) /\ count = start + from
      BY <3>1, <3>4 DEF WrittenInv
    <3>8. limit' => count' >= options.limit
      BY <1>ty, <2>2, <2>3, <2>4, ExportFit DEF Etyped, Export!ExportTypeOK
    <3>9. ~limit' => f = Len(list)
      BY <2>3, <2>4, <3>3
    <3>10. ExportWanted' = ExportWanted
      BY <2>3 DEF ExportWanted, Export!Wanted
    <3>11. ASSUME ~limit', page' < pageTotal PROVE Len(written') = page' * options.page
      <4>1. (page + 1) * options.page <= (pageTotal - 1) * options.page
        <5>1. page + 1 \in Nat /\ pageTotal - 1 \in Nat /\ page + 1 <= pageTotal - 1
              /\ options.page \in Nat
          BY <1>0, <1>ty, <2>3, <3>11
        <5> QED  BY <5>1, TimesGrows
      <4>2. (pageTotal - 1) * options.page < ExportWanted
        BY <1>ty, <2>3, <3>1, <3>11 DEF PlanInv
      <4>3. pageTotal - 1 \in Nat /\ (pageTotal - 1) * options.page \in Nat
        <5>1. pageTotal - 1 \in Nat
          BY <1>ty, <3>1
        <5> QED  BY <1>0, <5>1, TimesNext
      <4>4. from + options.page < Len(table)
        <5>1. PICK a, b : a = (page + 1) * options.page /\ b = (pageTotal - 1) * options.page
          OBVIOUS
        <5>2. a <= b /\ b < ExportWanted /\ b \in Nat
          BY <4>1, <4>2, <4>3, <5>1
        <5>3. a = from + options.page /\ from + options.page \in Nat
          BY <1>0, <3>3, <5>1
        <5>4. ExportWanted <= Len(table)
          BY <1>ty, <1>w, <3>7
        <5> QED  BY <1>ty, <1>w, <5>2, <5>3, <5>4
      <4> QED  BY <2>3, <3>3, <3>5, <3>9, <3>11, <4>4
    <3>12. ASSUME ~limit', page' = pageTotal PROVE Len(written') >= ExportWanted
      <4>1. from + options.page >= ExportWanted
        BY <2>3, <3>1, <3>3, <3>12 DEF PlanInv
      <4> QED  BY <1>0, <1>ty, <1>w, <3>3, <3>5, <3>7, <3>9, <3>12, <4>1
    <3>13. count' = start' + Len(written')
      <4>1. count' = count + f /\ start' = start /\ f \in Nat
        BY <2>3, <2>4
      <4> QED  BY <1>ty, <3>3, <3>5, <3>7, <4>1
    <3> QED
      BY <2>3, <3>6, <3>7, <3>8, <3>10, <3>11, <3>12, <3>13 DEF WrittenInv
  <2>5. ASSUME pc' = "failed" PROVE RowsWritten'
    BY <2>5 DEF RowsWritten, Exporting
  <2> QED  BY <1>4, <2>1, <2>2, <2>4, <2>5, ExportFetch
<1>5. ASSUME UNCHANGED << options, change, table, total, pageTotal, page, limit,
                          count, start, written >>,
             \/ pc' = pc
             \/ Exporting /\ Exporting'
             \/ pc' \in {"idle", "failed", "finished"}
      PROVE  RowsWritten'
  <2>1. ExportWanted' = ExportWanted
    BY <1>5 DEF ExportWanted, Export!Wanted
  <2>2. WrittenInv => WrittenInv'
    BY <1>5, <2>1 DEF WrittenInv
  <2>3. Exporting' => Exporting
    BY <1>5 DEF Exporting
  <2>4. pc' = "before" => pc = "before"
    BY <1>5 DEF Exporting
  <2> QED  BY <1>5, <2>2, <2>3, <2>4 DEF RowsWritten
<1>6. CASE Export!NewSheet
  BY <1>5, <1>6 DEF Export!NewSheet, Exporting
<1>7. CASE Export!EndSheet
  BY <1>5, <1>7, <1>fail DEF Export!EndSheet, Export!Proceeds, Exporting
<1>8. CASE Export!Summary
  BY <1>5, <1>8, <1>fail DEF Export!Summary, Export!AddRaw, Exporting
<1>9. CASE Export!Params
  BY <1>5, <1>9, <1>fail DEF Export!Params, Export!AddRaw, Exporting
<1>10. CASE Export!SaveAs
  BY <1>5, <1>10, <1>fail DEF Export!SaveAs, Export!Proceeds, Exporting
<1>11. CASE Export!Finish
  BY <1>5, <1>11, <1>fail DEF Export!Finish, Export!Proceeds
<1>12. CASE Export!Return
  BY <1>5, <1>12 DEF Export!Return
<1>13. CASE Export!Others
  <2>1. /\ change = "none"
        /\ UNCHANGED << options, pc, total, pageTotal, page, limit, count, start, written >>
        /\ change' = "shifted" \/ table' = Append(table, Export!Fresh)
    BY <1>13 DEF Export!Others, Export!Change
  <2>2. ASSUME WrittenInv, table' = Append(table, Export!Fresh) PROVE WrittenInv'
    <3>1. Len(table') = Len(table) + 1 /\ \A i \in 1..Len(table) : table'[i] = table[i]
      <4>1. Export!Fresh \in Nat
        BY <1>ty DEF Export!Fresh
      <4> QED  BY <1>ty, <2>2, <4>1
    <3>2. ASSUME NEW i \in 1..Len(written) PROVE i <= Len(table') /\ written[i] = table'[i]
      BY <1>ty, <2>2, <3>1 DEF WrittenInv
    <3>3. total <= Len(table')
      BY <1>ty, <2>2, <3>1 DEF WrittenInv
    <3>4. ExportWanted' = ExportWanted
      BY <2>1 DEF ExportWanted, Export!Wanted
    <3> QED  BY <2>1, <2>2, <3>2, <3>3, <3>4 DEF WrittenInv
  <2>3. (Exporting' => Exporting) /\ change # "shifted"
    BY <2>1 DEF Exporting
  <2> QED  BY <2>1, <2>2, <2>3 DEF RowsWritten
<1>14. CASE UNCHANGED Export!vars
  BY <1>5, <1>14 DEF Export!vars
<1> QED
  BY <1>1, <1>2, <1>4, <1>6, <1>7, <1>8, <1>9, <1>10, <1>11, <1>12, <1>13, <1>14
  DEF Export!Next

LEMMA ExportIsWhole ==
  ASSUME Export!ExportSizesAssumption, Etyped, PagesPlanned, RowsWritten, RawsInv
  PROVE  Export!ExportIsPrefix
<1> SUFFICES ASSUME pc = "saved", change # "shifted", options.limit <= MaxInt32
             PROVE  /\ written = SubSeq(table, 1, Len(written))
                    /\ Len(written) >= Export!Least(total, options.limit - start)
                    /\ raws = {raw \in {"summary", "params"} : options[raw] \in {"rows", "empty"}}
  BY DEF Export!ExportIsPrefix
<1>1. WrittenInv /\ PlanInv /\ PagesInv
  BY DEF RowsWritten, PagesPlanned, Exporting
<1>2. /\ options.limit \in Nat /\ total \in Nat /\ start \in Nat /\ count \in Nat
      /\ written \in Seq(Nat) /\ table \in Seq(Nat) /\ limit \in BOOLEAN
      /\ page \in Nat /\ pageTotal \in Nat
      /\ Len(written) \in Nat /\ Len(table) \in Nat
  BY ExportOptions DEF Etyped, Export!ExportTypeOK
<1>3. written = SubSeq(table, 1, Len(written))
  <2>1. Len(written) <= Len(table)
    <3>1. CASE Len(written) = 0
      BY <1>2, <3>1
    <3>2. CASE Len(written) > 0
      <4>1. Len(written) \in 1..Len(written)
        BY <1>2, <3>2
      <4> QED  BY <1>1, <4>1 DEF WrittenInv
    <3> QED  BY <1>2, <3>1, <3>2
  <2>2. PICK n : n = Len(written)
    OBVIOUS
  <2>3. \A i \in 1..n : table[i] \in Nat
    BY <1>2, <2>1, <2>2
  <2>4. /\ SubSeq(table, 1, n) \in Seq(Nat) /\ Len(SubSeq(table, 1, n)) = n
        /\ \A i \in 1..n : SubSeq(table, 1, n)[i] = table[i]
    BY <1>2, <2>1, <2>2, <2>3
  <2>5. \A i \in 1..n : written[i] = SubSeq(table, 1, n)[i]
    BY <1>1, <2>2, <2>4 DEF WrittenInv
  <2> QED  BY <1>2, <2>2, <2>4, <2>5, SeqEqual
<1>4. Len(written) >= Export!Least(total, options.limit - start)
  <2>1. count = start + Len(written)
    BY <1>1 DEF WrittenInv
  <2>2. CASE limit
    <3>1. count >= options.limit
      BY <1>1, <2>2 DEF WrittenInv
    <3> QED  BY <1>2, <2>1, <3>1 DEF Export!Least
  <2>3. CASE ExportWanted = 0
    BY <1>2, <2>3 DEF ExportWanted, Export!Wanted, Export!Least
  <2>4. CASE ~limit /\ page = pageTotal
    <3>1. Len(written) >= ExportWanted
      BY <1>1, <2>4 DEF WrittenInv
    <3> QED  BY <1>2, <3>1 DEF ExportWanted, Export!Wanted, Export!Least
  <2> QED  BY <1>1, <1>2, <2>2, <2>3, <2>4 DEF PagesInv
<1>5. raws = {raw \in {"summary", "params"} : options[raw] \in {"rows", "empty"}}
  <2>1. /\ options.summary # "empty" /\ ("summary" \in raws <=> options.summary = "rows")
        /\ options.params # "empty" /\ ("params" \in raws <=> options.params = "rows")
        /\ raws \subseteq {"summary", "params"}
    BY DEF RawsInv, Etyped, Export!ExportTypeOK
  <2> QED  BY <2>1
<1> QED  BY <1>3, <1>4, <1>5

\* An export that succeeds holds what the table begins with, all of it up to
\* LimitSize, whatever the sizes of pages and sheets, unless rows were added in
\* front or taken out meanwhile (ExportIsPrefix).
THEOREM ExportsAreWhole == Spec => []ExportIsPrefix
<1>. DEFINE Inv == Etyped /\ SheetsHeld /\ ColumnsKnown /\ PagesPlanned /\ RowsWritten /\ RawsInv
<1>1. Export!Init => Inv
  <2>1. Export!Init => PagesPlanned /\ RowsWritten /\ RawsInv
    BY DEF Export!Init, PagesPlanned, RowsWritten, RawsInv, Exporting
  <2> QED  BY <2>1, ServicesAssumption, ExportInitTyped, ExportInitHeld DEF ServicesAssumption
<1>2. Inv /\ [Export!Next]_(Export!vars) => Inv'
  BY ServicesAssumption, ExportNextTyped, ExportNextHeld, ExportNextColumns,
     ExportNextPages, ExportNextRows, ExportNextRaws
  DEF ServicesAssumption
<1>3. Inv => ExportIsPrefix
  BY ServicesAssumption, ExportIsWhole DEF ServicesAssumption, ExportIsPrefix
<1>4. Init => Export!Init
  BY DEF Init
<1>5. [Next]_vars => [Export!Next]_(Export!vars)
  BY ExportFrame
<1>. HIDE DEF Inv
<1> QED  BY <1>1, <1>2, <1>3, <1>4, <1>5, PTL DEF Spec

-----------------------------------------------------------------------------
(* The ciphers *)

LEMMA AesFrame == ASSUME [Next]_vars PROVE [Aes!Next]_(Aes!vars)
BY DEF Next, vars, aesVars, Aes!vars

LEMMA Rc4Frame == ASSUME [Next]_vars PROVE [Rc4!Next]_(Rc4!vars)
BY DEF Next, vars, rc4Vars, Rc4!vars

LEMMA LeastNatural ==
  ASSUME NEW T, T \subseteq Nat, T # {}
  PROVE  \E x \in T : \A y \in T : x <= y
<1>1. IsWellFoundedOn(OpToRel(<, Nat), Nat)
  BY NatLessThanWellFounded
<1>2. PICK x \in T : \A y \in T : ~(<< y, x >> \in OpToRel(<, Nat))
  BY <1>1, WFMin
<1>3. \A y \in T : ~(y < x)
  BY <1>2 DEF OpToRel
<1> QED  BY <1>3

\* Quotient and remainder are the only ones.
LEMMA DivisionIsUnique ==
  ASSUME NEW q \in Nat, NEW b \in Nat \ {0}, NEW r \in 0..(b - 1)
  PROVE  (q * b + r) \div b = q /\ (q * b + r) % b = r
<1>1. PICK p \in Nat : p = q * b
  BY TimesNext
<1>2. PICK d \in Nat : d = (p + r) \div b /\ d * b <= p + r /\ p + r < d * b + b
  BY <1>1, QuotientBounds
<1>3. PICK e \in Nat : e = d * b
  BY TimesNext
<1>4. d < q => FALSE
  <2> SUFFICES ASSUME d < q PROVE FALSE
    OBVIOUS
  <2>1. (d + 1) * b <= q * b /\ (d + 1) * b = e + b
    BY <1>3, TimesGrows, TimesNext
  <2> QED  BY <2>1, <1>1, <1>2, <1>3
<1>5. q < d => FALSE
  <2> SUFFICES ASSUME q < d PROVE FALSE
    OBVIOUS
  <2>1. (q + 1) * b <= d * b /\ (q + 1) * b = p + b
    BY <1>1, TimesGrows, TimesNext
  <2> QED  BY <2>1, <1>1, <1>2, <1>3
<1>6. d = q
  BY <1>4, <1>5
<1>7. (p + r) % b = (p + r) - e
  BY <1>2, <1>3
<1> QED  BY <1>1, <1>2, <1>3, <1>6, <1>7

\* The place of a byte of the text: its block, and its place there
AesByte(j) ==
  [byte |-> text[j],
   pad |-> << Aes!EncryptPad((j - 1) \div BlockSize), ((j - 1) % BlockSize) + 1 >>]

AesSealed == [j \in 1..Len(text) |-> AesByte(j)]

\* The first n blocks of what is encrypted
AesFirst(n) ==
  IF n = 0 THEN << >>
  ELSE [j \in 1..(IF n = Aes!Blocks(Len(text)) THEN Len(text) ELSE n * BlockSize) |->
          AesByte(j)]

AesBlock(b) == [i \in 1..Aes!LengthOf(b, Len(text)) |->
                  [byte |-> text[b * BlockSize + i],
                   pad |-> << Aes!EncryptPad(b), i >>]]

\* The last block is the only one that is not full, and it is not empty.
LEMMA AesLengths ==
  ASSUME Aes!AesAssumption, NEW length \in Nat
  PROVE  LET B == Aes!Blocks(length)
         IN  /\ B \in Nat
             /\ length = 0 <=> B = 0
             /\ \A n \in 1..B :
                  /\ (n - 1) * BlockSize \in Nat /\ n * BlockSize \in Nat
                  /\ n * BlockSize = (n - 1) * BlockSize + BlockSize
                  /\ (n - 1) * BlockSize + Aes!LengthOf(n - 1, length) =
                       IF n = B THEN length ELSE n * BlockSize
                  /\ Aes!LengthOf(n - 1, length) \in 1..BlockSize
<1>. DEFINE B == Aes!Blocks(length)
<1>0. BlockSize \in Nat \ {0}
  BY DEF Aes!AesAssumption
<1>1. /\ B \in Nat /\ B * BlockSize <= length + BlockSize - 1
      /\ length + BlockSize - 1 < B * BlockSize + BlockSize
  <2>1. length + BlockSize - 1 \in Nat
    BY <1>0
  <2> QED  BY <1>0, <2>1, QuotientBounds DEF Aes!Blocks
<1>. HIDE DEF B
<1>2. PICK p \in Nat : p = B * BlockSize
  BY <1>0, <1>1, TimesNext
<1>3. length = 0 => B = 0
  <2> SUFFICES ASSUME length = 0, B >= 1 PROVE FALSE
    BY <1>1
  <2>1. 1 * BlockSize <= p /\ 1 * BlockSize = BlockSize
    BY <1>0, <1>1, <1>2, TimesGrows
  <2> QED  BY <1>0, <1>1, <1>2, <2>1
<1>4. B = 0 => length = 0
  <2> SUFFICES ASSUME B = 0 PROVE length = 0
    OBVIOUS
  <2>1. p = 0
    BY <1>0, <1>2
  <2> QED  BY <1>0, <1>1, <1>2, <2>1
<1>5. ASSUME NEW n \in 1..B
      PROVE  /\ (n - 1) * BlockSize \in Nat /\ n * BlockSize \in Nat
             /\ n * BlockSize = (n - 1) * BlockSize + BlockSize
             /\ (n - 1) * BlockSize + Aes!LengthOf(n - 1, length) =
                  IF n = B THEN length ELSE n * BlockSize
             /\ Aes!LengthOf(n - 1, length) \in 1..BlockSize
  <2>1. n - 1 \in Nat /\ n = (n - 1) + 1
    BY <1>1
  <2>2. /\ (n - 1) * BlockSize \in Nat /\ n * BlockSize \in Nat
        /\ n * BlockSize = (n - 1) * BlockSize + BlockSize
    BY <1>0, <2>1, TimesNext
  <2>3. CASE n # B
    <3>1. n - 1 < B - 1
      BY <1>1, <2>3
    <3>2. Aes!LengthOf(n - 1, length) = BlockSize
      BY <3>1 DEF Aes!LengthOf, B
    <3> QED  BY <1>0, <2>2, <2>3, <3>2
  <2>4. CASE n = B
    <3>1. Aes!LengthOf(n - 1, length) = ((length - 1) % BlockSize) + 1
      <4>1. ~(n - 1 < B - 1)
        BY <1>1, <2>4
      <4> QED  BY <4>1 DEF Aes!LengthOf, B
    <3>2. PICK s \in Nat : s = (n - 1) * BlockSize
      BY <2>2
    <3>3. p = s + BlockSize
      BY <2>2, <2>4, <1>2, <3>2
    <3>4. length - 1 - s \in 0..(BlockSize - 1)
      BY <1>0, <1>1, <1>2, <3>3
    <3>5. PICK r \in 0..(BlockSize - 1) : r = length - 1 - s
      BY <3>4
    <3>6. length - 1 = (n - 1) * BlockSize + r
      BY <3>2, <3>5
    <3>7. (length - 1) % BlockSize = r
      BY <1>0, <2>1, <3>6, DivisionIsUnique
    <3> QED  BY <1>0, <2>2, <2>4, <3>1, <3>2, <3>5, <3>7
  <2> QED  BY <2>3, <2>4
<1> QED  BY <1>1, <1>3, <1>4, <1>5 DEF B

\* The n-th block comes after the first n - 1.
LEMMA AesAppends ==
  ASSUME Aes!AesAssumption, text \in Seq(Nat), NEW n \in 1..Aes!Blocks(Len(text))
  PROVE  AesFirst(n) = AesFirst(n - 1) \o AesBlock(n - 1)
<1>. DEFINE L == Len(text)
            B == Aes!Blocks(L)
            d == Aes!LengthOf(n - 1, L)
            E == {AesByte(j) : j \in Nat}
<1>0. BlockSize \in Nat \ {0} /\ L \in Nat
  BY DEF Aes!AesAssumption
<1>1. /\ B \in Nat
      /\ (n - 1) * BlockSize \in Nat /\ n * BlockSize \in Nat
      /\ n * BlockSize = (n - 1) * BlockSize + BlockSize
      /\ (n - 1) * BlockSize + d = IF n = B THEN L ELSE n * BlockSize
      /\ d \in 1..BlockSize
  BY <1>0, AesLengths
<1>. HIDE DEF B
<1>2. n \in 1..B
  BY DEF B
<1>3. PICK s \in Nat : s = (n - 1) * BlockSize
  BY <1>1
<1>. HIDE DEF d, L
<1>4. AesFirst(n) = [j \in 1..(s + d) |-> AesByte(j)]
  <2>1. n # 0
    BY <1>1, <1>2
  <2>2. s + d = IF n = B THEN L ELSE n * BlockSize
    BY <1>1, <1>3
  <2> QED  BY <2>1, <2>2 DEF AesFirst, B, L
<1>5. AesBlock(n - 1) = [i \in 1..d |-> AesByte(s + i)]
  <2>1. ASSUME NEW i \in 1..d
        PROVE  [byte |-> text[(n - 1) * BlockSize + i],
                pad |-> << Aes!EncryptPad(n - 1), i >>] = AesByte(s + i)
    <3>1. i - 1 \in 0..(BlockSize - 1)
      BY <1>0, <1>1
    <3>2. (s + i) - 1 = (n - 1) * BlockSize + (i - 1)
      BY <1>3, <1>1
    <3>3. n - 1 \in Nat
      BY <1>1, <1>2
    <3>4. ((s + i) - 1) \div BlockSize = n - 1 /\ ((s + i) - 1) % BlockSize = i - 1
      <4>. DEFINE r == i - 1
      <4>1. r \in 0..(BlockSize - 1) /\ (s + i) - 1 = (n - 1) * BlockSize + r
        BY <3>1, <3>2
      <4>. HIDE DEF r
      <4>2. /\ ((n - 1) * BlockSize + r) \div BlockSize = n - 1
            /\ ((n - 1) * BlockSize + r) % BlockSize = r
        BY <1>0, <3>3, <4>1, DivisionIsUnique
      <4>3. /\ ((s + i) - 1) \div BlockSize = n - 1 /\ ((s + i) - 1) % BlockSize = r
        BY <4>1, <4>2
      <4> QED  BY <4>3 DEF r
    <3>5. (i - 1) + 1 = i
      BY <1>1
    <3> QED  BY <1>3, <3>4, <3>5 DEF AesByte
  <2> QED  BY <2>1 DEF AesBlock, d, L
<1>6. AesFirst(n - 1) = [j \in 1..s |-> AesByte(j)]
  <2>1. CASE n - 1 = 0
    <3>1. s = 0
      BY <1>0, <1>3, <2>1
    <3>2. 1..s = {}
      BY <3>1
    <3>. DEFINE q == [j \in 1..s |-> AesByte(j)]
    <3>3. q \in Seq(E) /\ Len(q) = 0
      BY <3>1
    <3>4. q = << >>
      BY <3>3, EmptySeq
    <3> QED  BY <2>1, <3>4 DEF AesFirst
  <2>2. CASE n - 1 # 0
    <3>1. n - 1 # B
      BY <1>1, <1>2
    <3> QED  BY <1>3, <2>2, <3>1 DEF AesFirst, B, L
  <2> QED  BY <2>1, <2>2
<1>. DEFINE a == [j \in 1..s |-> AesByte(j)]
            b == [i \in 1..d |-> AesByte(s + i)]
            c == [j \in 1..(s + d) |-> AesByte(j)]
<1>7. /\ a \in Seq(E) /\ Len(a) = s
      /\ b \in Seq(E) /\ Len(b) = d
      /\ c \in Seq(E) /\ Len(c) = s + d
  <2>1. d \in Nat /\ s + d \in Nat
    BY <1>0, <1>1
  <2>2. /\ \A j \in 1..s : AesByte(j) \in E
        /\ \A j \in 1..d : AesByte(s + j) \in E
        /\ \A j \in 1..(s + d) : AesByte(j) \in E
    OBVIOUS
  <2>. HIDE DEF E
  <2> QED  BY <2>1, <2>2
<1>8. c = a \o b
  <2>1. /\ a \o b \in Seq(E) /\ Len(a \o b) = s + d
        /\ \A j \in 1..(s + d) : (a \o b)[j] = IF j <= s THEN a[j] ELSE b[j - s]
    <3>. HIDE DEF a, b, E
    <3>1. /\ a \o b \in Seq(E) /\ Len(a \o b) = Len(a) + Len(b)
          /\ \A j \in 1..(Len(a) + Len(b)) :
               (a \o b)[j] = IF j <= Len(a) THEN a[j] ELSE b[j - Len(a)]
      BY <1>7, ConcatProperties
    <3> QED  BY <1>7, <3>1
  <2>2. ASSUME NEW j \in 1..(s + d) PROVE c[j] = (a \o b)[j]
    <3>0. d \in Nat
      BY <1>0, <1>1
    <3>1. CASE j <= s
      <4>1. j \in 1..s
        BY <3>0, <3>1
      <4> QED  BY <2>1, <3>1, <4>1
    <3>2. CASE ~(j <= s)
      <4>1. j - s \in 1..d /\ s + (j - s) = j
        BY <3>0, <3>2
      <4>2. b[j - s] = AesByte(s + (j - s))
        BY <4>1
      <4>3. c[j] = AesByte(j)
        OBVIOUS
      <4> QED  BY <2>1, <3>2, <4>1, <4>2, <4>3
    <3> QED  BY <3>1, <3>2
  <2>. HIDE DEF a, b, c, E
  <2> QED  BY <1>7, <2>1, <2>2, SeqEqual
<1> QED  BY <1>4, <1>5, <1>6, <1>8

\* What Encrypt computes block by block
LEMMA AesEncrypted ==
  ASSUME Aes!AesAssumption, text \in Seq(Nat), Aes!Encrypt
  PROVE  cipher' = AesSealed
<1>. DEFINE B == Aes!Blocks(Len(text))
            F(f) == f = [n \in 0..B |->
                           IF n = 0 THEN << >> ELSE f[n - 1] \o AesBlock(n - 1)]
            g == [n \in 0..B |-> AesFirst(n)]
<1>1. B \in Nat /\ (Len(text) = 0 <=> B = 0)
  BY AesLengths
<1>2. \A n \in 1..B : AesFirst(n) = AesFirst(n - 1) \o AesBlock(n - 1)
  BY AesAppends
<1>3. AesFirst(0) = << >>
  BY DEF AesFirst
<1>. HIDE DEF B
<1>4. F(g)
  <2>1. ASSUME NEW n \in 0..B
        PROVE  AesFirst(n) = IF n = 0 THEN << >> ELSE g[n - 1] \o AesBlock(n - 1)
    <3>1. CASE n # 0
      <4>1. n - 1 \in 0..B /\ n \in 1..B
        BY <1>1, <3>1
      <4> QED  BY <1>2, <3>1, <4>1
    <3> QED  BY <1>3, <3>1
  <2> QED  BY <2>1
<1>5. ASSUME NEW f, F(f)
      PROVE  f[B] = AesFirst(B)
  <2>. DEFINE T == {n \in 0..B : f[n] # AesFirst(n)}
  <2>1. ASSUME T # {} PROVE FALSE
    <3>1. PICK x \in T : \A y \in T : x <= y
      <4>1. T \subseteq Nat
        OBVIOUS
      <4>. HIDE DEF T
      <4> QED  BY <2>1, <4>1, LeastNatural
    <3>2. x \in 0..B /\ f[x] # AesFirst(x)
      BY <3>1
    <3>3. f[x] = IF x = 0 THEN << >> ELSE f[x - 1] \o AesBlock(x - 1)
      BY <1>5, <3>2
    <3>4. x # 0
      BY <1>3, <3>2, <3>3
    <3>5. x \in 1..B /\ x - 1 \in 0..B /\ x - 1 \notin T
      BY <1>1, <3>1, <3>2, <3>4
    <3>6. f[x - 1] = AesFirst(x - 1)
      BY <3>5
    <3> QED  BY <1>2, <3>2, <3>3, <3>4, <3>5, <3>6
  <2> QED  BY <1>1, <2>1
<1>6. F(CHOOSE f : F(f))
  <2>. HIDE DEF F
  <2> QED  BY <1>4
<1>7. (CHOOSE f : F(f))[B] = AesFirst(B)
  <2>. HIDE DEF F
  <2> QED  BY <1>5, <1>6
<1>8. cipher' = AesFirst(B)
  BY <1>7 DEF Aes!Encrypt, AesBlock, B
<1>9. AesFirst(B) = AesSealed
  <2>1. CASE B # 0
    BY <2>1 DEF AesFirst, AesSealed, B
  <2>2. CASE B = 0
    <3>. DEFINE E == {AesByte(j) : j \in Nat}
    <3>1. Len(text) = 0
      BY <1>1, <2>2
    <3>2. AesSealed \in Seq(E) /\ Len(AesSealed) = 0
      BY <3>1 DEF AesSealed
    <3>3. AesSealed = << >>
      BY <3>2, EmptySeq
    <3> QED  BY <2>2, <3>3 DEF AesFirst
  <2> QED  BY <2>1, <2>2
<1> QED  BY <1>8, <1>9

AesInv ==
  /\ text \in Seq(Nat)
  /\ done = "encrypted" => cipher = AesSealed
  /\ Aes!RoundTrip

\* Within 2^32 - 1 blocks the high words of both counters are 0.
LEMMA AesDecrypted ==
  ASSUME Aes!AesAssumption, text \in Seq(Nat), cipher = AesSealed, Aes!Decrypt,
         Aes!Blocks(Len(text)) < Word
  PROVE  plain' = text
<1>. DEFINE L == Len(text)
            B == Aes!Blocks(L)
            Pad(n) == << Aes!DecryptPad((n - 1) \div BlockSize), ((n - 1) % BlockSize) + 1 >>
<1>0. BlockSize \in Nat \ {0} /\ Word \in Nat \ {0} /\ L \in Nat
  BY DEF Aes!AesAssumption
<1>1. Len(cipher) = L /\ \A n \in 1..L : cipher[n] = AesByte(n)
  BY <1>0 DEF AesSealed
<1>2. plain' = [n \in 1..L |-> IF cipher[n].pad = Pad(n) THEN cipher[n].byte
                                                      ELSE Aes!Garbage]
  BY <1>1 DEF Aes!Decrypt
<1>3. ASSUME NEW n \in 1..L
      PROVE  cipher[n].pad = Pad(n) /\ cipher[n].byte = text[n]
  <2>. DEFINE b == (n - 1) \div BlockSize
  <2>1. n - 1 \in Nat
    BY <1>0
  <2>2. b \in Nat /\ b * BlockSize <= n - 1
    BY <1>0, <2>1, QuotientBounds
  <2>3. b < B
    <3>1. /\ B \in Nat /\ B \in 1..B
          /\ (B - 1) * BlockSize + Aes!LengthOf(B - 1, L) = L
          /\ B * BlockSize = (B - 1) * BlockSize + BlockSize
          /\ Aes!LengthOf(B - 1, L) \in 1..BlockSize
          /\ (B - 1) * BlockSize \in Nat
      <4>1. /\ B \in Nat /\ (L = 0 <=> B = 0)
            /\ \A m \in 1..B :
                 /\ (m - 1) * BlockSize \in Nat
                 /\ m * BlockSize = (m - 1) * BlockSize + BlockSize
                 /\ (m - 1) * BlockSize + Aes!LengthOf(m - 1, L) =
                      IF m = B THEN L ELSE m * BlockSize
                 /\ Aes!LengthOf(m - 1, L) \in 1..BlockSize
        BY <1>0, AesLengths
      <4>2. L # 0
        BY <1>0
      <4>. HIDE DEF B, L
      <4>3. B \in 1..B
        BY <4>1, <4>2
      <4> QED  BY <4>1, <4>3
    <3>2. L <= B * BlockSize
      <4>. HIDE DEF B
      <4> QED  BY <1>0, <3>1
    <3>. HIDE DEF b, B
    <3>3. B <= b => B * BlockSize <= b * BlockSize
      BY <1>0, <2>2, <3>1, TimesGrows
    <3>4. PICK p, q \in Nat : p = B * BlockSize /\ q = b * BlockSize
      BY <1>0, <2>2, <3>1, TimesNext
    <3>5. n <= p /\ q <= n - 1
      BY <1>0, <2>2, <3>2, <3>4
    <3>6. ~(p <= q)
      BY <1>0, <3>4, <3>5
    <3>7. ~(B <= b)
      BY <3>3, <3>4, <3>6
    <3> QED  BY <2>2, <3>1, <3>7
  <2>4. b \div Word = 0 /\ (b + 1) \div Word = 0
    <3>1. B \in Nat
      BY <1>0, AesLengths
    <3>2. b \in 0..(Word - 1) /\ b + 1 \in 0..(Word - 1)
      <4>. HIDE DEF b
      <4>1. B < Word
        OBVIOUS
      <4>. HIDE DEF B
      <4> QED  BY <1>0, <2>2, <2>3, <3>1, <4>1
    <3>. HIDE DEF b
    <3>3. \A r \in 0..(Word - 1) : (0 * Word + r) \div Word = 0
      BY <1>0, DivisionIsUnique
    <3>4. \A r \in 0..(Word - 1) : 0 * Word + r = r
      BY <1>0
    <3> QED  BY <3>2, <3>3, <3>4
  <2>5. Aes!EncryptPad(b) = Aes!DecryptPad(b)
    BY <2>4 DEF Aes!EncryptPad, Aes!DecryptPad
  <2>6. /\ cipher[n].pad = << Aes!EncryptPad(b), ((n - 1) % BlockSize) + 1 >>
        /\ cipher[n].byte = text[n]
    <3>1. cipher[n] = AesByte(n)
      BY <1>1
    <3>2. AesByte(n) = [byte |-> text[n],
                        pad |-> << Aes!EncryptPad(b), ((n - 1) % BlockSize) + 1 >>]
      BY DEF AesByte
    <3>. DEFINE pad == << Aes!EncryptPad(b), ((n - 1) % BlockSize) + 1 >>
    <3>. HIDE DEF pad
    <3>3. cipher[n] = [byte |-> text[n], pad |-> pad]
      BY <3>1, <3>2 DEF pad
    <3>4. cipher[n].pad = pad /\ cipher[n].byte = text[n]
      BY <3>3
    <3> QED  BY <3>4 DEF pad
  <2>7. Pad(n) = << Aes!DecryptPad(b), ((n - 1) % BlockSize) + 1 >>
    OBVIOUS
  <2>. HIDE DEF b, Pad
  <2> QED  BY <2>5, <2>6, <2>7
<1>4. plain' = [n \in 1..L |-> text[n]]
  <2>. HIDE DEF Pad
  <2> QED  BY <1>2, <1>3
<1> QED  BY <1>4

LEMMA AesInit == ASSUME Aes!Init PROVE AesInv
<1>1. PICK length \in 0..MaxLength : text = [n \in 1..length |-> n]
  BY DEF Aes!Init
<1>2. text \in Seq(Nat)
  BY <1>1
<1> QED  BY <1>2 DEF Aes!Init, AesInv, Aes!RoundTrip

LEMMA AesNext ==
  ASSUME Aes!AesAssumption, AesInv, [Aes!Next]_(Aes!vars)
  PROVE  AesInv'
<1>1. CASE Aes!Encrypt
  <2>1. text' = text /\ done' = "encrypted"
    BY <1>1 DEF Aes!Encrypt
  <2>2. cipher' = AesSealed
    BY <1>1, AesEncrypted DEF AesInv
  <2>3. AesSealed' = AesSealed
    BY <2>1 DEF AesSealed, AesByte, Aes!EncryptPad
  <2> QED  BY <2>1, <2>2, <2>3 DEF AesInv, Aes!RoundTrip
<1>2. CASE Aes!Decrypt
  <2>1. text' = text /\ done = "encrypted" /\ done' = "decrypted"
    BY <1>2 DEF Aes!Decrypt
  <2>2. Aes!Blocks(Len(text)) < Word => plain' = text
    BY <1>2, <2>1, AesDecrypted DEF AesInv
  <2>3. Aes!RoundTrip'
    BY <2>1, <2>2 DEF Aes!RoundTrip, Aes!Blocks
  <2> QED  BY <2>1, <2>3 DEF AesInv
<1>3. CASE UNCHANGED Aes!vars
  <2>1. text' = text /\ cipher' = cipher /\ plain' = plain /\ done' = done
    BY <1>3 DEF Aes!vars
  <2> QED  BY <2>1 DEF AesInv, AesSealed, AesByte, Aes!EncryptPad, Aes!RoundTrip, Aes!Blocks
<1> QED  BY <1>1, <1>2, <1>3 DEF Aes!Next

\* The bytes with whose key the text was encrypted
Rc4Key(bw) == [i \in 1..KeyLength |-> Rc4!KeyByte(bw[i])]

Rc4Pairs(bw) == [n \in 1..Len(secret) |-> << secret[n], Rc4!Stream(Rc4Key(bw), n) >>]

Rc4SentWith(bw) ==
  /\ bw \in [1..KeyLength -> Bytes]
  /\ Len(sent) = 4 + KeyLength + Len(secret)
  /\ \A i \in 1..KeyLength : sent[4 + i] = bw[i]
  /\ \A n \in 1..Len(secret) : sent[4 + KeyLength + n] = Rc4Pairs(bw)[n]

\* The lines make up the characters: all are full but for the last.
Rc4Cut(length) ==
  [i \in 1..((length + SubLen - 1) \div SubLen) |->
     IF i * SubLen < length THEN SubLen ELSE length - (i - 1) * SubLen]

Rc4Inv ==
  /\ secret \in Seq(Nat)
  /\ step \in {"new", "sent", "formatted", "replaced", "opened"}
  /\ step \in {"sent", "formatted", "replaced"} => \E bw : Rc4SentWith(bw)
  /\ step = "formatted" => lines = Rc4Cut(Rc4!Base64Length(Len(sent)))
  /\ Rc4!ClientRoundTrip

\* The key is read back from where it was put, and the text after it.
LEMMA Rc4Encrypted ==
  ASSUME Rc4!Rc4Assumption, secret \in Seq(Nat), Rc4!Rc4ClientEncrypt
  PROVE  \E bw : Rc4SentWith(bw)'
<1>1. PICK bw \in [1..KeyLength -> Bytes] :
        sent' = Rc4!Header \o bw \o
                  [n \in DOMAIN secret |-> << secret[n], Rc4!Stream(Rc4Key(bw), n) >>]
  BY DEF Rc4!Rc4ClientEncrypt, Rc4Key
<1>. DEFINE L == Len(secret)
            S == Nat \cup {Rc4Pairs(bw)[n] : n \in 1..L}
            h == Rc4!Header
<1>2. L \in Nat /\ DOMAIN secret = 1..L /\ KeyLength \in Nat /\ Bytes \subseteq Nat
  BY DEF Rc4!Rc4Assumption
<1>3. sent' = h \o bw \o Rc4Pairs(bw)
  BY <1>1, <1>2 DEF Rc4Pairs
<1>4. h \in Seq(S) /\ Len(h) = 4
  BY DEF Rc4!Header
<1>5. bw \in Seq(S) /\ Len(bw) = KeyLength
  <2>1. \A i \in 1..KeyLength : bw[i] \in S
    BY <1>2
  <2>2. bw = [i \in 1..KeyLength |-> bw[i]]
    OBVIOUS
  <2>. HIDE DEF S
  <2>3. bw \in [1..KeyLength -> S]
    BY <2>1, <2>2
  <2> QED  BY <1>2, <2>3, SeqDef
<1>6. Rc4Pairs(bw) \in Seq(S) /\ Len(Rc4Pairs(bw)) = L
  <2>1. \A n \in 1..L : Rc4Pairs(bw)[n] \in S
    OBVIOUS
  <2>2. Rc4Pairs(bw) = [n \in 1..L |-> Rc4Pairs(bw)[n]]
    BY DEF Rc4Pairs
  <2>. HIDE DEF S, L
  <2>3. Rc4Pairs(bw) \in [1..L -> S]
    BY <2>1, <2>2
  <2> QED  BY <1>2, <2>3, SeqDef
<1>. DEFINE q == h \o bw
            p == Rc4Pairs(bw)
<1>. HIDE DEF S, L, h, p, q
<1>7. /\ q \in Seq(S) /\ Len(q) = 4 + KeyLength
      /\ \A i \in 1..(4 + KeyLength) : q[i] = IF i <= 4 THEN h[i] ELSE bw[i - 4]
  <2>1. /\ h \o bw \in Seq(S) /\ Len(h \o bw) = Len(h) + Len(bw)
        /\ \A i \in 1..(Len(h) + Len(bw)) :
             (h \o bw)[i] = IF i <= Len(h) THEN h[i] ELSE bw[i - Len(h)]
    <3>1. h \in Seq(S) /\ bw \in Seq(S)
      BY <1>4, <1>5
    <3> QED  BY <3>1, ConcatProperties
  <2> QED  BY <2>1, <1>4, <1>5 DEF q
<1>8. /\ Len(q \o p) = 4 + KeyLength + L
      /\ \A i \in 1..(4 + KeyLength + L) :
           (q \o p)[i] = IF i <= 4 + KeyLength THEN q[i] ELSE p[i - (4 + KeyLength)]
  <2>1. 4 + KeyLength \in Nat /\ L \in Nat /\ Len(p) = L /\ p \in Seq(S)
    BY <1>2, <1>6 DEF p
  <2>2. q \in Seq(S) /\ Len(q) = 4 + KeyLength
    BY <1>7
  <2>3. /\ Len(q \o p) = Len(q) + Len(p)
        /\ \A i \in 1..(Len(q) + Len(p)) :
             (q \o p)[i] = IF i <= Len(q) THEN q[i] ELSE p[i - Len(q)]
    BY <2>1, <2>2, ConcatProperties
  <2> QED  BY <2>1, <2>2, <2>3
<1>9. sent' = q \o p
  BY <1>3 DEF q, p
<1>10. ASSUME NEW i \in 1..KeyLength PROVE sent'[4 + i] = bw[i]
  <2>1. /\ 4 + i \in 1..(4 + KeyLength) /\ 4 + i \in 1..(4 + KeyLength + L)
        /\ 4 + i <= 4 + KeyLength /\ ~(4 + i <= 4) /\ (4 + i) - 4 = i
    BY <1>2
  <2> QED  BY <2>1, <1>7, <1>8, <1>9
<1>11. ASSUME NEW n \in 1..L PROVE sent'[4 + KeyLength + n] = p[n]
  <2>1. /\ 4 + KeyLength + n \in 1..(4 + KeyLength + L)
        /\ ~(4 + KeyLength + n <= 4 + KeyLength)
        /\ (4 + KeyLength + n) - (4 + KeyLength) = n
    BY <1>2
  <2> QED  BY <2>1, <1>8, <1>9
<1>12. secret' = secret
  BY DEF Rc4!Rc4ClientEncrypt
<1>13. Rc4SentWith(bw)'
  BY <1>8, <1>9, <1>10, <1>11, <1>12 DEF Rc4SentWith, Rc4Pairs, L, p
<1> QED  BY <1>13

LEMMA Rc4Decrypted ==
  ASSUME Rc4!Rc4Assumption, secret \in Seq(Nat), NEW bw, Rc4SentWith(bw),
         Rc4!Rc4ClientDecrypt
  PROVE  opened' = secret
<1>. DEFINE key == [i \in 1..KeyLength |-> Rc4!KeyByte(sent[Len(Rc4!Header) + i])]
            L == Len(secret)
<1>1. Len(Rc4!Header) = 4 /\ L \in Nat /\ KeyLength \in Nat
  BY DEF Rc4!Header, Rc4!Rc4Assumption
<1>2. key = Rc4Key(bw)
  BY <1>1 DEF Rc4SentWith, Rc4Key
<1>3. opened' = [n \in 1..(Len(sent) - (4 + KeyLength)) |->
                   IF sent[4 + KeyLength + n][2] = Rc4!Stream(key, n)
                     THEN sent[4 + KeyLength + n][1] ELSE 0]
  BY <1>1 DEF Rc4!Rc4ClientDecrypt
<1>4. Len(sent) - (4 + KeyLength) = L
  BY <1>1 DEF Rc4SentWith
<1>. HIDE DEF key
<1>5. ASSUME NEW n \in 1..L
      PROVE  /\ sent[4 + KeyLength + n][2] = Rc4!Stream(key, n)
             /\ sent[4 + KeyLength + n][1] = secret[n]
  <2>1. sent[4 + KeyLength + n] = << secret[n], Rc4!Stream(Rc4Key(bw), n) >>
    BY DEF Rc4SentWith, Rc4Pairs
  <2> QED  BY <1>2, <2>1
<1>6. opened' = [n \in 1..L |-> secret[n]]
  BY <1>3, <1>4, <1>5
<1> QED  BY <1>6

\* How many characters the first i lines hold
Rc4Held(i, length) == IF i * SubLen < length THEN i * SubLen ELSE length

LEMMA Rc4Lines ==
  ASSUME Rc4!Rc4Assumption, NEW length \in Nat
  PROVE  LET l == (length + SubLen - 1) \div SubLen
         IN  /\ l \in Nat
             /\ Rc4Cut(length) \in Seq(Int) /\ Len(Rc4Cut(length)) = l
             /\ Rc4Held(0, length) = 0 /\ Rc4Held(l, length) = length
             /\ \A i \in 1..l :
                  Rc4Held(i, length) = Rc4Held(i - 1, length) + Rc4Cut(length)[i]
<1>. DEFINE l == (length + SubLen - 1) \div SubLen
<1>0. SubLen \in Nat \ {0}
  BY DEF Rc4!Rc4Assumption
<1>1. /\ l \in Nat /\ l * SubLen <= length + SubLen - 1
      /\ length + SubLen - 1 < l * SubLen + SubLen
  <2>1. length + SubLen - 1 \in Nat
    BY <1>0
  <2> QED  BY <1>0, <2>1, QuotientBounds
<1>2. Rc4Cut(length) = [i \in 1..l |-> IF i * SubLen < length THEN SubLen
                                       ELSE length - (i - 1) * SubLen]
  BY DEF Rc4Cut
<1>. HIDE DEF l
<1>3. PICK p \in Nat : p = l * SubLen
  BY <1>0, <1>1, TimesNext
<1>4. Rc4Held(l, length) = length
  <2>1. ~(p < length)
    BY <1>0, <1>1, <1>3
  <2> QED  BY <1>3, <2>1 DEF Rc4Held
<1>5. Rc4Held(0, length) = 0
  <2>1. 0 * SubLen = 0
    BY <1>0
  <2> QED  BY <2>1 DEF Rc4Held
<1>6. ASSUME NEW i \in 1..l
      PROVE  /\ (i - 1) * SubLen \in Nat /\ i * SubLen \in Nat
             /\ i * SubLen = (i - 1) * SubLen + SubLen
             /\ (i - 1) * SubLen < length
  <2>1. i - 1 \in Nat /\ i = (i - 1) + 1 /\ i <= l
    BY <1>1
  <2>2. PICK a, b \in Nat : a = (i - 1) * SubLen /\ b = i * SubLen /\ b = a + SubLen
    BY <1>0, <2>1, TimesNext
  <2>3. b <= p
    BY <1>0, <1>1, <1>3, <2>1, <2>2, TimesGrows
  <2>4. a < length
    BY <1>0, <1>1, <1>3, <2>2, <2>3
  <2> QED  BY <2>2, <2>4
<1>7. ASSUME NEW i \in 1..l
      PROVE  /\ Rc4Cut(length)[i] \in Int
             /\ Rc4Held(i, length) = Rc4Held(i - 1, length) + Rc4Cut(length)[i]
  <2>1. PICK a, b \in Nat : /\ a = (i - 1) * SubLen /\ b = i * SubLen
                            /\ b = a + SubLen /\ a < length
    BY <1>6
  <2>2. Rc4Cut(length)[i] = IF b < length THEN SubLen ELSE length - a
    BY <1>2, <2>1
  <2>3. Rc4Held(i, length) = IF b < length THEN b ELSE length
    BY <2>1 DEF Rc4Held
  <2>4. Rc4Held(i - 1, length) = a
    BY <2>1 DEF Rc4Held
  <2> QED  BY <1>0, <2>1, <2>2, <2>3, <2>4
<1>8. Rc4Cut(length) \in Seq(Int) /\ Len(Rc4Cut(length)) = l
  <2>1. Rc4Cut(length) = [i \in 1..l |-> Rc4Cut(length)[i]]
    BY <1>2
  <2> QED  BY <1>1, <1>7, <2>1
<1> QED  BY <1>1, <1>4, <1>5, <1>7, <1>8 DEF l

\* Nothing is lost on the way over the lines.
LEMMA Rc4Replaced ==
  ASSUME Rc4!Rc4Assumption, NEW length \in Nat, lines = Rc4Cut(length),
         Rc4!CiphertextReplace
  PROVE  characters' = length
<1>. DEFINE N == Len(lines)
            F(f) == f = [i \in 0..N |-> IF i = 0 THEN 0 ELSE f[i - 1] + lines[i]]
            g == [i \in 0..N |-> Rc4Held(i, length)]
<1>1. /\ N \in Nat /\ Rc4Held(0, length) = 0 /\ Rc4Held(N, length) = length
      /\ \A i \in 1..N : Rc4Held(i, length) = Rc4Held(i - 1, length) + lines[i]
  BY Rc4Lines
<1>. HIDE DEF N
<1>2. F(g)
  <2>1. ASSUME NEW i \in 0..N
        PROVE  Rc4Held(i, length) = IF i = 0 THEN 0 ELSE g[i - 1] + lines[i]
    <3>1. CASE i # 0
      <4>1. i - 1 \in 0..N /\ i \in 1..N
        BY <1>1, <3>1
      <4> QED  BY <1>1, <3>1, <4>1
    <3> QED  BY <1>1, <3>1
  <2> QED  BY <2>1
<1>3. ASSUME NEW f, F(f)
      PROVE  f[N] = length
  <2>. DEFINE T == {i \in 0..N : f[i] # Rc4Held(i, length)}
  <2>1. ASSUME T # {} PROVE FALSE
    <3>1. PICK x \in T : \A y \in T : x <= y
      <4>1. T \subseteq Nat
        OBVIOUS
      <4>. HIDE DEF T
      <4> QED  BY <2>1, <4>1, LeastNatural
    <3>2. x \in 0..N /\ f[x] # Rc4Held(x, length)
      BY <3>1
    <3>3. f[x] = IF x = 0 THEN 0 ELSE f[x - 1] + lines[x]
      BY <1>3, <3>2
    <3>4. x # 0
      BY <1>1, <3>2, <3>3
    <3>5. x \in 1..N /\ x - 1 \in 0..N /\ x - 1 \notin T
      BY <1>1, <3>1, <3>2, <3>4
    <3>6. f[x - 1] = Rc4Held(x - 1, length)
      BY <3>5
    <3> QED  BY <1>1, <3>2, <3>3, <3>4, <3>5, <3>6
  <2> QED  BY <1>1, <2>1
<1>4. F(CHOOSE f : F(f))
  <2>. HIDE DEF F
  <2> QED  BY <1>2
<1>5. (CHOOSE f : F(f))[N] = length
  <2>. HIDE DEF F
  <2> QED  BY <1>3, <1>4
<1> QED  BY <1>5 DEF Rc4!CiphertextReplace, N

LEMMA Rc4Init == ASSUME Rc4!Init PROVE Rc4Inv
<1>1. PICK length \in 0..MaxSecret : secret = [n \in 1..length |-> n]
  BY DEF Rc4!Init
<1>2. secret \in Seq(Nat)
  BY <1>1
<1> QED  BY <1>2 DEF Rc4!Init, Rc4Inv, Rc4!ClientRoundTrip

LEMMA Rc4Next ==
  ASSUME Rc4!Rc4Assumption, Rc4Inv, [Rc4!Next]_(Rc4!vars)
  PROVE  Rc4Inv'
<1>1. CASE Rc4!Rc4ClientEncrypt
  <2>1. step' = "sent" /\ secret' = secret
    BY <1>1 DEF Rc4!Rc4ClientEncrypt
  <2>2. \E bw : Rc4SentWith(bw)'
    BY <1>1, Rc4Encrypted DEF Rc4Inv
  <2> QED  BY <2>1, <2>2 DEF Rc4Inv, Rc4!ClientRoundTrip
<1>2. CASE Rc4!CiphertextFormat
  <2>1. /\ step = "sent" /\ step' = "formatted" /\ secret' = secret /\ sent' = sent
        /\ lines' = Rc4Cut(Rc4!Base64Length(Len(sent)))
    BY <1>2 DEF Rc4!CiphertextFormat, Rc4Cut
  <2>2. PICK bw : Rc4SentWith(bw)
    BY <2>1 DEF Rc4Inv
  <2>3. Rc4SentWith(bw)'
    BY <2>1, <2>2 DEF Rc4SentWith, Rc4Pairs
  <2> QED  BY <2>1, <2>3 DEF Rc4Inv, Rc4!ClientRoundTrip, Rc4!Base64Length
<1>3. CASE Rc4!CiphertextReplace
  <2>1. /\ step = "formatted" /\ step' = "replaced" /\ secret' = secret /\ sent' = sent
    BY <1>3 DEF Rc4!CiphertextReplace
  <2>2. PICK bw : Rc4SentWith(bw)
    BY <2>1 DEF Rc4Inv
  <2>3. Rc4SentWith(bw)'
    BY <2>1, <2>2 DEF Rc4SentWith, Rc4Pairs
  <2>4. Rc4!Base64Length(Len(sent)) \in Nat
    <3>1. Len(sent) \in Nat
      BY <2>2 DEF Rc4SentWith, Rc4Inv, Rc4!Rc4Assumption
    <3> QED  BY <3>1 DEF Rc4!Base64Length
  <2>5. characters' = Rc4!Base64Length(Len(sent))
    BY <1>3, <2>1, <2>4, Rc4Replaced DEF Rc4Inv
  <2> QED  BY <2>1, <2>3, <2>5 DEF Rc4Inv, Rc4!ClientRoundTrip, Rc4!Base64Length
<1>4. CASE Rc4!Rc4ClientDecrypt
  <2>1. step \in {"sent", "replaced"} /\ step' = "opened" /\ secret' = secret
    BY <1>4 DEF Rc4!Rc4ClientDecrypt
  <2>2. PICK bw : Rc4SentWith(bw)
    BY <2>1 DEF Rc4Inv
  <2>3. opened' = secret
    BY <1>4, <2>2, Rc4Decrypted DEF Rc4Inv
  <2> QED  BY <2>1, <2>3 DEF Rc4Inv, Rc4!ClientRoundTrip
<1>5. CASE UNCHANGED Rc4!vars
  <2>1. /\ secret' = secret /\ sent' = sent /\ lines' = lines
        /\ characters' = characters /\ opened' = opened /\ step' = step
    BY <1>5 DEF Rc4!vars
  <2>2. ASSUME NEW bw, Rc4SentWith(bw) PROVE Rc4SentWith(bw)'
    BY <2>1, <2>2 DEF Rc4SentWith, Rc4Pairs
  <2> QED  BY <2>1, <2>2 DEF Rc4Inv, Rc4!ClientRoundTrip, Rc4!Base64Length
<1> QED  BY <1>1, <1>2, <1>3, <1>4, <1>5 DEF Rc4!Next

\* Decrypt returns what Encrypt was given, for every text, every block size and
\* every key; so does Rc4ClientDecrypt, whatever random bytes the key was made of
\* and whatever line length the ciphertext was cut with.
THEOREM TextsComeBack == Spec => []RoundTrip
<1>1. Aes!AesAssumption /\ Rc4!Rc4Assumption
  BY ServicesAssumption
<1>2. Init => AesInv /\ Rc4Inv
  BY AesInit, Rc4Init DEF Init
<1>3. AesInv /\ Rc4Inv /\ [Next]_vars => (AesInv /\ Rc4Inv)'
  BY <1>1, AesFrame, AesNext, Rc4Frame, Rc4Next
<1>4. AesInv /\ Rc4Inv => RoundTrip
  BY DEF AesInv, Rc4Inv, RoundTrip
<1> QED  BY <1>2, <1>3, <1>4, PTL DEF Spec

-----------------------------------------------------------------------------
(* The types of all services *)

LEMMA OtpConfigIn ==
  Otp!config \in Otp!Config <=>
    /\ counter \in -(MaxInt + 1)..MaxInt /\ disallow \in SUBSET Int
    /\ scratch \in SUBSET Scratch /\ accepted \in SUBSET Otp!Accepted
BY DEF Otp!config, Otp!Config

LEMMA OtpAcceptTyped ==
  ASSUME Otp!OtpTypeOK, NEW what \in Otp!Accepted, Otp!Accept(what)
  PROVE  accepted' \in SUBSET Otp!Accepted /\ twice' \subseteq Otp!Accepted
BY OtpConfigIn DEF Otp!OtpTypeOK, Otp!Accept

LEMMA OtpWrapTyped ==
  ASSUME Otp!OtpAssumption, NEW n \in Int, n >= -(MaxInt + 1), n <= 2 * MaxInt
  PROVE  Otp!Wrap(n) \in -(MaxInt + 1)..MaxInt
BY DEF Otp!OtpAssumption, Otp!Wrap

LEMMA OtpInitTyped == ASSUME Otp!OtpAssumption, Otp!Init PROVE Otp!OtpTypeOK
<1>1. /\ now = 0 /\ 0 \in 0..MaxTime
      /\ counter \in -(MaxInt + 1)..MaxInt /\ disallow = {} /\ scratch = Scratch
      /\ accepted = {} /\ twice = {} /\ saved = Otp!config
  BY DEF Otp!OtpAssumption, Otp!Init
<1>2. Otp!config \in Otp!Config
  BY <1>1, OtpConfigIn
<1> QED  BY <1>1, <1>2 DEF Otp!OtpTypeOK

LEMMA OtpAuthenticateTyped ==
  ASSUME Otp!OtpAssumption, Otp!OtpTypeOK, Otp!Authenticate
  PROVE  Otp!OtpTypeOK'
<1>. DEFINE Changed == /\ counter' \in -(MaxInt + 1)..MaxInt /\ disallow' \in SUBSET Int
                       /\ scratch' \in SUBSET Scratch
                       /\ accepted' \in SUBSET Otp!Accepted /\ twice' \subseteq Otp!Accepted
                       /\ UNCHANGED << now, saved >>
<1>1. /\ counter \in -(MaxInt + 1)..MaxInt /\ disallow \in SUBSET Int
      /\ scratch \in SUBSET Scratch /\ accepted \in SUBSET Otp!Accepted
      /\ twice \subseteq Otp!Accepted /\ now \in Nat
  BY OtpConfigIn DEF Otp!OtpTypeOK
<1>2. MaxInt \in Nat /\ WindowSize \in 0..MaxInt /\ Scratch \subseteq Int
  BY DEF Otp!OtpAssumption
<1>3. ASSUME NEW s \in Scratch, Otp!CheckScratch(s) PROVE Changed
  <2>1. << "scratch", s >> \in Otp!Accepted
    BY <1>2 DEF Otp!Accepted
  <2>2. accepted' \in SUBSET Otp!Accepted /\ twice' \subseteq Otp!Accepted
    BY <1>3, <2>1, OtpAcceptTyped DEF Otp!CheckScratch
  <2> QED  BY <1>1, <1>3, <2>2 DEF Otp!CheckScratch
<1>4. ASSUME NEW code, Otp!HotpAccept(code) PROVE Changed
  <2>1. PICK n \in counter..(counter + WindowSize - 1) :
          counter' = Otp!Wrap(n + 1) /\ Otp!Accept(<< "hotp", Otp!Wrap(n) >>)
    BY <1>4 DEF Otp!HotpAccept
  <2>2. counter > 0
    BY <1>4 DEF Otp!HotpAccept
  <2>3. n \in Int /\ n >= 0 /\ n + 1 <= 2 * MaxInt
    BY <1>1, <1>2, <2>2
  <2>4. counter' \in -(MaxInt + 1)..MaxInt /\ Otp!Wrap(n) \in Int
    BY <1>2, <2>1, <2>3, OtpWrapTyped
  <2>5. << "hotp", Otp!Wrap(n) >> \in Otp!Accepted
    BY <2>4 DEF Otp!Accepted
  <2>6. accepted' \in SUBSET Otp!Accepted /\ twice' \subseteq Otp!Accepted
    BY <2>1, <2>5, OtpAcceptTyped
  <2> QED  BY <1>1, <1>4, <2>4, <2>6 DEF Otp!HotpAccept
<1>5. ASSUME NEW code, Otp!HotpRefuse(code) PROVE Changed
  <2>1. counter' = Otp!Wrap(counter + 1) /\ counter > 0
    BY <1>5 DEF Otp!HotpRefuse
  <2>2. counter' \in -(MaxInt + 1)..MaxInt
    BY <1>1, <1>2, <2>1, OtpWrapTyped
  <2> QED  BY <1>1, <1>5, <2>2 DEF Otp!HotpRefuse
<1>6. ASSUME NEW code, Otp!TotpAccept(code) PROVE Changed
  <2>1. PICK t \in Otp!MinT..Otp!MaxT :
          disallow' = Otp!Trim(disallow \cup {t}) /\ Otp!Accept(<< "totp", t >>)
    BY <1>6 DEF Otp!TotpAccept
  <2>2. t \in Int
    BY <2>1
  <2>3. << "totp", t >> \in Otp!Accepted
    BY <2>2 DEF Otp!Accepted
  <2>4. accepted' \in SUBSET Otp!Accepted /\ twice' \subseteq Otp!Accepted
    BY <2>1, <2>3, OtpAcceptTyped
  <2>5. disallow' \in SUBSET Int
    BY <1>1, <2>1, <2>2 DEF Otp!Trim
  <2> QED  BY <1>1, <1>6, <2>4, <2>5 DEF Otp!TotpAccept
<1>7. Changed
  BY <1>3, <1>4, <1>5, <1>6 DEF Otp!Authenticate
<1>8. Otp!config' = << counter', disallow', scratch', accepted' >>
  BY DEF Otp!config
<1>9. Otp!config' \in Otp!Config
  BY <1>7, <1>8 DEF Otp!Config
<1> QED  BY <1>7, <1>9 DEF Otp!OtpTypeOK

LEMMA OtpNextTyped ==
  ASSUME Otp!OtpAssumption, Otp!OtpTypeOK, [Otp!Next]_(Otp!vars)
  PROVE  Otp!OtpTypeOK'
<1>1. CASE Otp!Tick
  <2>1. now' \in 0..MaxTime
    BY <1>1 DEF Otp!Tick, Otp!OtpTypeOK, Otp!OtpAssumption
  <2> QED  BY <1>1, <2>1 DEF Otp!Tick, Otp!OtpTypeOK
<1>2. CASE Otp!Save
  BY <1>2 DEF Otp!Save, Otp!OtpTypeOK
<1>3. CASE Otp!Crash
  <2>1. Otp!config' = << saved[1], saved[2], saved[3], saved[4] >>
    BY <1>3 DEF Otp!Crash, Otp!config
  <2>2. Otp!config' \in Otp!Config
    BY <2>1 DEF Otp!OtpTypeOK, Otp!Config
  <2> QED  BY <1>3, <2>2 DEF Otp!Crash, Otp!OtpTypeOK
<1>4. CASE UNCHANGED Otp!vars
  BY <1>4 DEF Otp!vars, Otp!OtpTypeOK
<1> QED  BY <1>1, <1>2, <1>3, <1>4, OtpAuthenticateTyped DEF Otp!Next

LEMMA AppInitTypes == ASSUME App!AppAssumption, App!Init PROVE App!AppTypeOK
BY DEF App!AppAssumption, App!Init, App!AppTypeOK

LEMMA AppNextTypes ==
  ASSUME App!AppAssumption, App!AppTypeOK, [App!Next]_(App!vars)
  PROVE  App!AppTypeOK'
<1>1. ASSUME NEW n \in Names, NEW o \in Objects, App!Register(n, o) PROVE App!AppTypeOK'
  <2>1. App!Key(n) \in Names
    BY DEF App!Key, App!AppAssumption
  <2> QED  BY <1>1, <2>1 DEF App!Register, App!AppTypeOK, App!cron
<1>2. ASSUME NEW u \in Removers, App!Unregister(u) PROVE App!AppTypeOK'
  <2>1. ASSUME NEW n \in Names, App!UnregisterLoad(u, n) PROVE App!AppTypeOK'
    <3>1. /\ remover' \in [Removers -> {"new", "close", "delete", "done"}]
          /\ name' \in [Removers -> Names] /\ object' \in [Removers -> Objects \cup {NoObject}]
          /\ overlap' \subseteq Names
      BY <2>1 DEF App!UnregisterLoad, App!AppTypeOK
    <3> QED  BY <2>1, <3>1 DEF App!UnregisterLoad, App!AppTypeOK, App!cron
  <2>2. CASE App!UnregisterClose(u)
    <3>1. closed' \in [Objects -> Nat]
      <4>1. PICK o : o = object[u]
        OBVIOUS
      <4>2. closed' = [closed EXCEPT ![o] = @ + 1] /\ closed \in [Objects -> Nat]
        BY <2>2, <4>1 DEF App!UnregisterClose, App!AppTypeOK
      <4>3. CASE o \in Objects
        <5>1. closed[o] + 1 \in Nat
          BY <4>2, <4>3
        <5> QED  BY <4>2, <5>1
      <4>4. CASE o \notin Objects
        <5>1. closed' = closed
          BY <4>2, <4>4
        <5> QED  BY <4>2, <5>1
      <4> QED  BY <4>3, <4>4
    <3> QED  BY <2>2, <3>1 DEF App!UnregisterClose, App!AppTypeOK, App!cron
  <2>3. CASE App!UnregisterDelete(u)
    <3>1. map[name[u]] \in Objects \cup {NoObject}
      BY DEF App!AppTypeOK
    <3>2. /\ map' \in [Names -> Objects \cup {NoObject}]
          /\ removed' = [o \in Objects |->
                           IF map[name[u]] = o THEN removed[o] + 1 ELSE removed[o]]
      BY <2>3, <3>1 DEF App!UnregisterDelete, App!AppTypeOK
    <3>3. \A o \in Objects : removed[o] \in Nat /\ removed[o] + 1 \in Nat
      BY DEF App!AppTypeOK
    <3>4. removed' \in [Objects -> Nat]
      BY <3>2, <3>3
    <3> QED  BY <2>3, <3>2, <3>4 DEF App!UnregisterDelete, App!AppTypeOK, App!cron
  <2> QED  BY <1>2, <2>1, <2>2, <2>3 DEF App!Unregister
<1>3. CASE App!Crontab
  <2>1. UNCHANGED App!registry
    BY <1>3 DEF App!Crontab, App!AddJobs, App!Start, App!StartJob, App!StopJob, App!Stop
  <2>2. /\ rawJobs' \subseteq Jobs /\ ticking' \subseteq entries'
        /\ entries' \subseteq Jobs /\ workers' \subseteq entries'
    BY <1>3 DEF App!Crontab, App!AddJobs, App!Start, App!StartJob, App!StopJob, App!Stop,
       App!Added, App!WorkersNow, App!AppTypeOK
  <2> QED  BY <2>1, <2>2 DEF App!registry, App!AppTypeOK
<1>4. CASE UNCHANGED App!vars
  BY <1>4 DEF App!vars, App!registry, App!cron, App!AppTypeOK
<1> QED  BY <1>1, <1>2, <1>3, <1>4 DEF App!Next

-----------------------------------------------------------------------------
\* The parts of the type of a broker's client that one kind of step changes
BrokerClientTyped ==
  /\ rabbit \in BOOLEAN
  /\ mux \in BrokerConsumers \cup {Nobody}
  /\ consumers \in [Groups -> BrokerConsumers \cup {Nobody}]
  /\ producers \subseteq Groups
  /\ dialled \in Nat /\ conn \in 0..dialled

BrokerCallsTyped ==
  /\ call \in [Broker!Callers -> BrokerPlaces]
  /\ err \in [BrokerConsumers -> BOOLEAN]
  /\ running \subseteq BrokerConsumers /\ shut \in BOOLEAN

BrokerMessagesTyped ==
  /\ message \in [Messages -> {"unsent", "ready", "handling", "answering", "acked"}]
  /\ failures \in [Messages -> 0..MaxErrors]
  /\ succeeded \subseteq Messages /\ early \subseteq Messages

BrokerTypes == BrokerClientTyped /\ BrokerCallsTyped /\ BrokerMessagesTyped

LEMMA BrokerTypesMean == BrokerTypes <=> Broker!BrokerTypeOK
BY DEF BrokerTypes, BrokerClientTyped, BrokerCallsTyped, BrokerMessagesTyped,
   BrokerPlaces, Broker!BrokerTypeOK

LEMMA BrokerInitTypes ==
  ASSUME Broker!BrokerAssumption, MaxErrors \in Nat, Broker!Init PROVE BrokerTypes
<1>1. BrokerClientTyped
  BY DEF Broker!Init, BrokerClientTyped
<1>2. BrokerCallsTyped
  BY DEF Broker!Init, BrokerCallsTyped, BrokerPlaces
<1>3. BrokerMessagesTyped
  BY DEF Broker!Init, BrokerMessagesTyped
<1> QED  BY <1>1, <1>2, <1>3 DEF BrokerTypes

LEMMA BrokerGoesTyped ==
  ASSUME BrokerCallsTyped, NEW p, NEW to \in BrokerPlaces, Broker!Goes(p, to)
  PROVE  call' \in [Broker!Callers -> BrokerPlaces]
BY DEF BrokerCallsTyped, Broker!Goes

\* What a call of Consumer or Publish does with the client
LEMMA BrokerConsumerTyped ==
  ASSUME Broker!BrokerAssumption, BrokerTypes, NEW c \in BrokerConsumers, Broker!Consumer(c)
  PROVE  BrokerTypes'
<1>1. GroupOf[c] \in Groups
  BY DEF Broker!BrokerAssumption, Broker!Callers
<1>2. UNCHANGED << message, failures, succeeded, early >>
  BY DEF Broker!Consumer, Broker!LockConsumers, Broker!Connect, Broker!Dial,
     Broker!MakeRabbitConsumer, Broker!MakeRocketConsumer, Broker!AssignErr,
     Broker!CheckErr, Broker!Subscribe, Broker!broker
<1>3. call' \in [Broker!Callers -> BrokerPlaces]
  <2>1. \E to \in BrokerPlaces : Broker!Goes(c, to)
    BY DEF Broker!Consumer, Broker!LockConsumers, Broker!Connect, Broker!Dial,
       Broker!MakeRabbitConsumer, Broker!MakeRocketConsumer, Broker!AssignErr,
       Broker!CheckErr, Broker!Subscribe, Broker!Fails, BrokerPlaces
  <2> QED  BY <2>1, BrokerGoesTyped DEF BrokerTypes
<1>4. err' \in [BrokerConsumers -> BOOLEAN] /\ shut' = shut
  BY DEF Broker!Consumer, Broker!LockConsumers, Broker!Connect, Broker!Dial,
     Broker!MakeRabbitConsumer, Broker!MakeRocketConsumer, Broker!AssignErr,
     Broker!CheckErr, Broker!Subscribe, BrokerTypes, BrokerCallsTyped
<1>5. running' \subseteq BrokerConsumers
  BY DEF Broker!Consumer, Broker!LockConsumers, Broker!Connect, Broker!Dial,
     Broker!MakeRabbitConsumer, Broker!MakeRocketConsumer, Broker!AssignErr,
     Broker!CheckErr, Broker!Subscribe, Broker!Fails, BrokerTypes, BrokerCallsTyped
<1>6. rabbit' = rabbit /\ mux' \in BrokerConsumers \cup {Nobody} /\ producers' = producers
  BY DEF Broker!Consumer, Broker!LockConsumers, Broker!Connect, Broker!Dial,
     Broker!MakeRabbitConsumer, Broker!MakeRocketConsumer, Broker!AssignErr,
     Broker!CheckErr, Broker!Subscribe, Broker!Fails, Broker!client, BrokerTypes,
     BrokerClientTyped
<1>7. consumers' \in [Groups -> BrokerConsumers \cup {Nobody}]
  <2>1. consumers' = consumers \/ consumers' = [consumers EXCEPT ![GroupOf[c]] = c]
    BY DEF Broker!Consumer, Broker!LockConsumers, Broker!Connect, Broker!Dial,
       Broker!MakeRabbitConsumer, Broker!MakeRocketConsumer, Broker!AssignErr,
       Broker!CheckErr, Broker!Subscribe, Broker!Fails, Broker!client
  <2> QED  BY <1>1, <2>1 DEF BrokerTypes, BrokerClientTyped
<1>8. dialled' \in Nat /\ conn' \in 0..dialled'
  BY DEF Broker!Consumer, Broker!LockConsumers, Broker!Connect, Broker!Dial,
     Broker!MakeRabbitConsumer, Broker!MakeRocketConsumer, Broker!AssignErr,
     Broker!CheckErr, Broker!Subscribe, Broker!client, BrokerTypes, BrokerClientTyped
<1> QED  BY <1>2, <1>3, <1>4, <1>5, <1>6, <1>7, <1>8
         DEF BrokerTypes, BrokerClientTyped, BrokerCallsTyped, BrokerMessagesTyped

LEMMA BrokerPublishTyped ==
  ASSUME Broker!BrokerAssumption, BrokerTypes, NEW m \in Messages, Broker!Publish(m)
  PROVE  BrokerTypes'
<1>1. GroupOf[m] \in Groups
  BY DEF Broker!BrokerAssumption, Broker!Callers
<1>2. UNCHANGED << failures, succeeded, early, consumers, rabbit, err, running, shut >>
  BY DEF Broker!Publish, Broker!FindProducer, Broker!Connect, Broker!Dial,
     Broker!MakeRabbitProducer, Broker!MakeRocketProducer, Broker!Send, Broker!broker,
     Broker!client
<1>3. call' \in [Broker!Callers -> BrokerPlaces]
  <2>1. \E to \in BrokerPlaces : Broker!Goes(m, to)
    BY DEF Broker!Publish, Broker!FindProducer, Broker!Connect, Broker!Dial,
       Broker!MakeRabbitProducer, Broker!MakeRocketProducer, Broker!Made, Broker!Send,
       BrokerPlaces
  <2> QED  BY <2>1, BrokerGoesTyped DEF BrokerTypes
<1>4. mux' \in BrokerConsumers \cup {Nobody}
  BY DEF Broker!Publish, Broker!FindProducer, Broker!Connect, Broker!Dial,
     Broker!MakeRabbitProducer, Broker!MakeRocketProducer, Broker!Send,
     Broker!client, BrokerTypes, BrokerClientTyped
<1>5. producers' \subseteq Groups
  BY <1>1 DEF Broker!Publish, Broker!FindProducer, Broker!Connect, Broker!Dial,
     Broker!MakeRabbitProducer, Broker!MakeRocketProducer, Broker!Made, Broker!Send,
     Broker!client, BrokerTypes, BrokerClientTyped
<1>6. dialled' \in Nat /\ conn' \in 0..dialled'
  BY DEF Broker!Publish, Broker!FindProducer, Broker!Connect, Broker!Dial,
     Broker!MakeRabbitProducer, Broker!MakeRocketProducer, Broker!Send, Broker!client,
     BrokerTypes, BrokerClientTyped
<1>7. message' \in [Messages -> {"unsent", "ready", "handling", "answering", "acked"}]
  <2>1. message' = message \/ message' = [message EXCEPT ![m] = "ready"]
    BY DEF Broker!Publish, Broker!FindProducer, Broker!Connect, Broker!Dial,
       Broker!MakeRabbitProducer, Broker!MakeRocketProducer, Broker!Send, Broker!broker
  <2> QED  BY <2>1 DEF BrokerTypes, BrokerMessagesTyped
<1> QED  BY <1>2, <1>3, <1>4, <1>5, <1>6, <1>7
         DEF BrokerTypes, BrokerClientTyped, BrokerCallsTyped, BrokerMessagesTyped

LEMMA BrokerClosureTyped ==
  ASSUME Broker!BrokerAssumption, MaxErrors \in Nat, BrokerTypes, NEW m \in Messages,
         Broker!Closure(m)
  PROVE  BrokerTypes'
<1>1. UNCHANGED << Broker!client, call, running, shut >>
  BY DEF Broker!Closure, Broker!Deliver, Broker!HandlerReturns, Broker!Answer
<1>2. err' \in [BrokerConsumers -> BOOLEAN]
  <2>1. \/ err' = err \/ err' = [err EXCEPT ![To[m]] = FALSE]
        \/ err' = [err EXCEPT ![To[m]] = TRUE]
    BY DEF Broker!Closure, Broker!Deliver, Broker!HandlerReturns, Broker!Answer
  <2> QED  BY <2>1 DEF BrokerTypes, BrokerCallsTyped
<1>3. message' \in [Messages -> {"unsent", "ready", "handling", "answering", "acked"}]
  <2>1. \E to \in {"ready", "handling", "answering", "acked"} :
          message' = [message EXCEPT ![m] = to]
    BY DEF Broker!Closure, Broker!Deliver, Broker!HandlerReturns, Broker!Answer,
       Broker!AnswerOf
  <2> QED  BY <2>1 DEF BrokerTypes, BrokerMessagesTyped
<1>4. failures' \in [Messages -> 0..MaxErrors]
  <2>1. \/ failures' = failures
        \/ failures[m] < MaxErrors /\ failures' = [failures EXCEPT ![m] = @ + 1]
    BY DEF Broker!Closure, Broker!Deliver, Broker!HandlerReturns, Broker!Answer
  <2>2. failures \in [Messages -> 0..MaxErrors]
    BY DEF BrokerTypes, BrokerMessagesTyped
  <2>3. failures[m] < MaxErrors => failures[m] + 1 \in 0..MaxErrors
    BY <2>2
  <2> QED  BY <2>1, <2>2, <2>3
<1>5. succeeded' \subseteq Messages /\ early' \subseteq Messages
  BY DEF Broker!Closure, Broker!Deliver, Broker!HandlerReturns, Broker!Answer,
     BrokerTypes, BrokerMessagesTyped
<1> QED  BY <1>1, <1>2, <1>3, <1>4, <1>5
         DEF BrokerTypes, BrokerClientTyped, BrokerCallsTyped, BrokerMessagesTyped,
             Broker!client

LEMMA BrokerNextTyped ==
  ASSUME Broker!BrokerAssumption, MaxErrors \in Nat, BrokerTypes,
         [Broker!Next]_(Broker!vars)
  PROVE  BrokerTypes'
<1>1. CASE Broker!Run
  <2>1. running' \subseteq BrokerConsumers
    BY <1>1 DEF Broker!Run
  <2> QED  BY <1>1, <2>1 DEF Broker!Run, BrokerTypes, BrokerClientTyped, BrokerCallsTyped,
              BrokerMessagesTyped, Broker!client, Broker!broker
<1>2. CASE Broker!Shutdown
  <2>1. running' \subseteq BrokerConsumers
    BY <1>2 DEF Broker!Shutdown, BrokerTypes, BrokerCallsTyped
  <2> QED  BY <1>2, <2>1 DEF Broker!Shutdown, BrokerTypes, BrokerClientTyped,
              BrokerCallsTyped, BrokerMessagesTyped, Broker!client, Broker!broker
<1>3. CASE UNCHANGED Broker!vars
  BY <1>3 DEF Broker!vars, BrokerTypes, BrokerClientTyped, BrokerCallsTyped,
     BrokerMessagesTyped, Broker!client, Broker!broker
<1> QED  BY <1>1, <1>2, <1>3, BrokerConsumerTyped, BrokerPublishTyped, BrokerClosureTyped
         DEF Broker!Next

-----------------------------------------------------------------------------
\* What the type of the cache takes besides: who is idle has nothing in hand, and
\* only a captcha that was made can have been left undeleted.
CacheRest ==
  /\ \A c \in Clients : at[c] = "idle" => got[c] = Cache!Absent /\ num[c] = 0
  /\ undeleted \subseteq 1..sets

LEMMA CacheRestInit == ASSUME Cache!Init PROVE CacheRest
BY DEF Cache!Init, CacheRest

LEMMA CacheRestUpdate ==
  ASSUME CacheTyped, CacheRest, NEW c \in Clients, Cache!Update(c)
  PROVE  CacheRest'
<1>1. UNCHANGED << sets, undeleted >>
  BY DEF Cache!Update, Cache!RedisCalculate, Cache!GetItem, Cache!RedisExpire,
     Cache!GetExpire, Cache!SetItem, Cache!captchas
<1>2. \A d \in Clients \ {c} : at'[d] = at[d] /\ got'[d] = got[d] /\ num'[d] = num[d]
  BY DEF Cache!Update, Cache!RedisCalculate, Cache!GetItem, Cache!RedisExpire,
     Cache!GetExpire, Cache!SetItem, Cache!Goes, Cache!client, CacheTyped
<1>3. CASE \E n, next : /\ next \in {"getexpire", "setexpire"} /\ Cache!GetItem(c, n, next)
  <2>1. at'[c] # "idle"
    BY <1>3 DEF Cache!GetItem, Cache!Goes, CacheTyped
  <2> QED  BY <1>1, <1>2, <2>1 DEF CacheRest, Cache!Absent
<1>4. CASE Cache!GetExpire(c)
  <2>1. at'[c] # "idle"
    BY <1>4 DEF Cache!GetExpire, Cache!Goes, CacheTyped
  <2> QED  BY <1>1, <1>2, <2>1 DEF CacheRest, Cache!Absent
<1>5. CASE Cache!SetItem(c)
  <2>1. got'[c] = Cache!Absent /\ num'[c] = 0
    BY <1>5 DEF Cache!SetItem, CacheTyped
  <2> QED  BY <1>1, <1>2, <2>1 DEF CacheRest, Cache!Absent
<1>6. CASE UNCHANGED Cache!client
  BY <1>1, <1>6 DEF CacheRest, Cache!client, Cache!Absent
<1>7. \/ \E n, next : next \in {"getexpire", "setexpire"} /\ Cache!GetItem(c, n, next)
      \/ Cache!GetExpire(c) \/ Cache!SetItem(c) \/ UNCHANGED Cache!client
  BY DEF Cache!Update, Cache!RedisCalculate, Cache!RedisExpire
<1> QED  BY <1>3, <1>4, <1>5, <1>6, <1>7

LEMMA CacheRestVerify ==
  ASSUME CacheTyped, CacheRest, NEW c \in Clients, Cache!Verify(c)
  PROVE  CacheRest'
<1>1. \A d \in Clients \ {c} : at'[d] = at[d] /\ got'[d] = got[d] /\ num'[d] = num[d]
  BY DEF Cache!Verify, Cache!VerifyGet, Cache!VerifyDel, Cache!VerifyReturn, Cache!Goes,
     CacheTyped
<1>2. ASSUME NEW answer \in 0..MaxSets, NEW clr \in BOOLEAN, Cache!VerifyGet(c, answer, clr)
      PROVE  CacheRest'
  <2>1. at'[c] # "idle" /\ UNCHANGED << sets, undeleted >>
    BY <1>2 DEF Cache!VerifyGet, Cache!Goes, Cache!AfterGet, CacheTyped
  <2> QED  BY <1>1, <2>1 DEF CacheRest, Cache!Absent
<1>3. CASE Cache!VerifyDel(c)
  <2>1. at'[c] # "idle" /\ sets' = sets /\ at[c] = "delete"
    BY <1>3 DEF Cache!VerifyDel, Cache!Goes, CacheTyped
  <2>2. got[c] \in (1..sets) \cup {Cache!Absent}
    BY <2>1 DEF CacheTyped, CacheHand
  <2>3. undeleted' \subseteq 1..sets
    <3>1. \/ undeleted' = undeleted
          \/ undeleted' = undeleted \cup ({got[c]} \ {Cache!Absent})
      BY <1>3 DEF Cache!VerifyDel
    <3>2. undeleted \subseteq 1..sets
      BY DEF CacheRest
    <3> QED  BY <2>2, <3>1, <3>2
  <2> QED  BY <1>1, <2>1, <2>3 DEF CacheRest, Cache!Absent
<1>4. CASE Cache!VerifyReturn(c)
  <2>1. got'[c] = Cache!Absent /\ num'[c] = 0 /\ UNCHANGED << sets, undeleted >>
    BY <1>4 DEF Cache!VerifyReturn, CacheTyped
  <2> QED  BY <1>1, <2>1 DEF CacheRest, Cache!Absent
<1> QED  BY <1>2, <1>3, <1>4 DEF Cache!Verify

LEMMA CacheRestNext ==
  ASSUME CacheTyped, CacheRest, [Cache!Next]_(Cache!vars) PROVE CacheRest'
<1>1. ASSUME NEW k \in Cache!CacheKeys, Cache!Lapse(k) PROVE CacheRest'
  BY <1>1 DEF Cache!Lapse, Cache!client, Cache!captchas, CacheRest, Cache!Absent
<1>2. CASE Cache!SetCaptcha
  <2>1. 1..sets \subseteq 1..sets'
    BY <1>2 DEF Cache!SetCaptcha, CacheTyped
  <2> QED  BY <1>2, <2>1 DEF Cache!SetCaptcha, Cache!client, CacheRest, Cache!Absent
<1>3. CASE UNCHANGED Cache!vars
  BY <1>3 DEF Cache!vars, Cache!client, Cache!captchas, CacheRest, Cache!Absent
<1> QED  BY <1>1, <1>2, <1>3, CacheRestUpdate, CacheRestVerify DEF Cache!Next

LEMMA CacheTypesMean ==
  ASSUME Cache!CacheAssumption, CacheTyped, CaptchaInv, CacheRest PROVE Cache!CacheTypeOK
<1>. DEFINE Held == Cache!Values \cup {Cache!Absent}
<1>1. -calls..calls \subseteq Cache!Values /\ 1..sets \subseteq Cache!Values
  BY DEF CacheTyped, Cache!Values, Cache!CacheAssumption
<1>2. value \in [Cache!CacheKeys -> Held]
  <2>1. value[Cache!Counter] \in Held /\ value[Cache!Captcha] \in Held
    BY <1>1 DEF CacheTyped
  <2>2. DOMAIN value = Cache!CacheKeys
    BY DEF CacheTyped
  <2> QED  BY <2>1, <2>2 DEF CacheTyped, Cache!CacheKeys
<1>3. ASSUME NEW c \in Clients
      PROVE  got[c] \in Held /\ num[c] \in {-1, 1} \cup (0..MaxSets)
  <2>1. at[c] \in CachePlaces
    BY DEF CacheTyped
  <2>2. CASE at[c] = "idle"
    BY <2>2 DEF CacheRest, Cache!CacheAssumption
  <2>3. CASE Cache!Updating(c)
    <3>1. num[c] \in {-1, 0, 1} /\ got[c] \in -calls..calls
      BY <2>3 DEF CacheTyped, CacheHand
    <3> QED  BY <1>1, <3>1 DEF Cache!CacheAssumption
  <2>4. CASE at[c] \in {"delete", "compare"}
    <3>1. got[c] \in (1..sets) \cup {Cache!Absent} /\ num[c] \in 0..MaxSets
      BY <2>4 DEF CacheTyped, CacheHand
    <3> QED  BY <1>1, <3>1
  <2> QED  BY <2>1, <2>2, <2>3, <2>4 DEF CachePlaces, Cache!Updating
<1>4. got \in [Clients -> Held] /\ num \in [Clients -> {-1, 1} \cup (0..MaxSets)]
  BY <1>3 DEF CacheTyped
<1>5. /\ spent \cup undeleted \subseteq 1..MaxSets
      /\ reused \subseteq (1..MaxSets) \X (0..MaxSets)
  <2>1. 1..sets \subseteq 1..MaxSets
    BY DEF CacheTyped, Cache!CacheAssumption
  <2> QED  BY <2>1 DEF CaptchaInv, CaptchaReused, CacheRest
<1> QED  BY <1>2, <1>4, <1>5 DEF CacheTyped, CachePlaces, Cache!CacheTypeOK

-----------------------------------------------------------------------------
LEMMA RoomsNextRouted == ASSUME [Rooms!Next]_(Rooms!vars) PROVE routed' = routed
BY DEF Rooms!Next, Rooms!Router, Rooms!HandleJoin, Rooms!HandleLeave, Rooms!Note,
   Rooms!Close, Rooms!LeaveAll, Rooms!AppJoin, Rooms!AppLeave, Rooms!vars

LEMMA RoomsTypesMean ==
  ASSUME Rooms!RoomsAssumption, RoomsInv, routed \in BOOLEAN PROVE Rooms!RoomsTypeOK
<1>1. roomCount \in Nat
  BY OpenRoomsFinite, FS_CardinalityType DEF RoomsInv, RoomsCounted
<1> QED  BY <1>1 DEF RoomsInv, RoomsTyped, Rooms!RoomsTypeOK

-----------------------------------------------------------------------------
\* What the type of the start-up takes besides
BootRest ==
  /\ settings \in Files /\ boots \in 0..MaxBoots
  /\ broken \subseteq Boot!Kinds /\ poolSize \in Nat
  /\ queueReg \subseteq Boot!Kinds /\ memoryPool \in Nat
  /\ tasks \in [Boot!Kinds -> Seq(Boot!Tasks)]
  /\ consuming \subseteq Boot!Tasks /\ refused \subseteq Boot!Tasks
  /\ ran \subseteq Boot!Kinds

LEMMA BootRestInit ==
  ASSUME Boot!StartupAssumption, Boot!Init PROVE BootRest
<1>1. << >> \in Seq(Boot!Tasks)
  BY EmptySeq
<1>2. tasks \in [Boot!Kinds -> Seq(Boot!Tasks)]
  BY <1>1 DEF Boot!Init
<1>3. 0 \in 0..MaxBoots
  BY DEF Boot!StartupAssumption
<1> QED  BY <1>2, <1>3 DEF Boot!Init, BootRest

LEMMA BootListTyped ==
  ASSUME Boot!StartupAssumption, NEW k \in Boot!Kinds, NEW list \in TaskLists[k]
  PROVE  list \in Seq(Boot!Tasks)
<1>1. list \in Seq(Boot!ToSet(list))
  BY DEF Boot!StartupAssumption
<1>2. Boot!ToSet(list) \subseteq Boot!Tasks
  BY DEF Boot!Tasks
<1> QED  BY <1>1, <1>2

LEMMA BootTaskTyped ==
  ASSUME BootTyped, BootRest, NEW k \in Boot!Kinds, nth <= Len(tasks[k])
  PROVE  tasks[k][nth] \in Boot!Tasks
<1>1. tasks[k] \in Seq(Boot!Tasks)
  BY DEF BootRest
<1>2. nth \in 1..Len(tasks[k])
  BY <1>1 DEF BootTyped
<1> QED  BY <1>1, <1>2

LEMMA BootRestNext ==
  ASSUME Boot!StartupAssumption, BootTyped, BootRest, [Boot!Next]_(Boot!vars)
  PROVE  BootRest'
<1>1. CASE Boot!Bootstrap
  <2>1. boots' \in 0..MaxBoots
    BY <1>1 DEF Boot!Bootstrap, BootRest, Boot!StartupAssumption
  <2> QED  BY <1>1, <2>1 DEF Boot!Bootstrap, BootRest, Boot!given
<1>2. CASE Boot!InitQueue
  <2>1. nth \in 1..Len(cfgList)
    BY <1>2 DEF Boot!InitQueue, BootTyped
  <2>2. PICK k \in Boot!Kinds : k = cfgList[nth]
    BY <2>1 DEF BootTyped
  <2>3. poolSize' \in Nat /\ broken' \subseteq Boot!Kinds
    BY <1>2, <2>2 DEF Boot!InitQueue, BootRest, Boot!StartupAssumption
  <2> QED  BY <1>2, <2>3 DEF Boot!InitQueue, BootRest, Boot!given
<1>3. CASE Boot!Initialised
  BY <1>3 DEF Boot!Initialised, BootRest, Boot!given, Boot!config
<1>4. CASE Boot!Start
  BY <1>4 DEF Boot!Start, BootRest, Boot!given, Boot!config
<1>5. ASSUME NEW k \in Boot!Kinds, Boot!GetQueue(k) PROVE BootRest'
  BY <1>5 DEF Boot!GetQueue, BootRest, Boot!config
<1>6. ASSUME NEW k \in Boot!Kinds, NEW list \in TaskLists[k], Boot!AddTasks(k, list)
      PROVE  BootRest'
  <2>1. list \in Seq(Boot!Tasks)
    BY BootListTyped
  <2>2. tasks' \in [Boot!Kinds -> Seq(Boot!Tasks)]
    BY <1>6, <2>1 DEF Boot!AddTasks, BootRest
  <2> QED  BY <1>6, <2>2 DEF Boot!AddTasks, BootRest, Boot!config
<1>7. ASSUME NEW list \in ServiceLists, Boot!AddServices(list) PROVE BootRest'
  BY <1>7 DEF Boot!AddServices, BootRest, Boot!config
<1>8. CASE Boot!StartWarns \/ Boot!StartPanics
  BY <1>8 DEF Boot!StartWarns, Boot!StartPanics, BootRest, Boot!config, Boot!given
<1>9. CASE Boot!StartTask
  <2>1. PICK k \in Boot!Kinds : k = Boot!Kind
    BY <1>9 DEF Boot!StartTask, BootRest
  <2>2. tasks[k][nth] \in Boot!Tasks
    BY <1>9, <2>1, BootTaskTyped DEF Boot!StartTask
  <2>3. PICK t \in Boot!Tasks : t = tasks[Boot!Kind][nth]
    BY <2>1, <2>2
  <2>4. consuming' \subseteq Boot!Tasks /\ refused' \subseteq Boot!Tasks
    BY <1>9, <2>3 DEF Boot!StartTask, BootRest
  <2> QED  BY <1>9, <2>4 DEF Boot!StartTask, BootRest, Boot!config, Boot!given
<1>10. CASE Boot!RunQueue
  <2>1. ran' \subseteq Boot!Kinds
    BY <1>10 DEF Boot!RunQueue, BootRest
  <2> QED  BY <1>10, <2>1 DEF Boot!RunQueue, BootRest, Boot!config, Boot!given
<1>11. CASE UNCHANGED Boot!vars
  BY <1>11 DEF Boot!vars, BootRest, Boot!given, Boot!config
<1> QED  BY <1>1, <1>2, <1>3, <1>4, <1>5, <1>6, <1>7, <1>8, <1>9, <1>10, <1>11
         DEF Boot!Next

LEMMA BootTypesMean == ASSUME BootTyped, BootRest PROVE Boot!StartupTypeOK
BY DEF BootTyped, BootRest, BootPhases, Boot!StartupTypeOK

-----------------------------------------------------------------------------
LEMMA QueueSizesGiven == Proof!QueueSizesAssumption
BY ServicesAssumption DEF Proof!QueueSizesAssumption, Queue!QueueSizesAssumption

LEMMA QueueTypesMean == ASSUME Proof!QueueTypeOK PROVE Queue!QueueTypeOK
BY DEF Proof!QueueTypeOK, Queue!QueueTypeOK, Proof!Callers, Queue!Callers

LEMMA QueueAlwaysTyped == Spec => []Queue!QueueTypeOK
<1>1. Init => Proof!IInv /\ Proof!Bounded /\ Proof!Rest
  BY QueueCallersGiven, QueueSizesGiven, QueueInit, Proof!InitCorrect, Proof!RestInit
<1>2. Proof!IInv /\ Proof!Bounded /\ Proof!Rest /\ [Next]_vars
        => (Proof!IInv /\ Proof!Bounded /\ Proof!Rest)'
  BY QueueCallersGiven, QueueSizesGiven, QueueFrame, QueueStep, Proof!NextCorrect,
     Proof!NextBounded, Proof!NextRest
<1>3. Proof!IInv /\ Proof!Bounded /\ Proof!Rest => Queue!QueueTypeOK
  BY Proof!TypesMean, QueueTypesMean
<1> QED  BY <1>1, <1>2, <1>3, PTL DEF Spec

LEMMA BrokerAlwaysTyped == Spec => []Broker!BrokerTypeOK
<1>1. MaxErrors \in Nat
  BY ServicesAssumption DEF Queue!QueueSizesAssumption
<1>2. Init => BrokerTypes
  BY <1>1, ServicesAssumption, BrokerInitTypes DEF Init
<1>3. BrokerTypes /\ [Next]_vars => BrokerTypes'
  BY <1>1, ServicesAssumption, BrokerFrame, BrokerNextTyped
<1>4. BrokerTypes => Broker!BrokerTypeOK
  BY BrokerTypesMean
<1> QED  BY <1>2, <1>3, <1>4, PTL DEF Spec

LEMMA OtpAlwaysTyped == Spec => []Otp!OtpTypeOK
<1>1. Init => Otp!OtpTypeOK
  BY ServicesAssumption, OtpInitTyped DEF Init
<1>2. Otp!OtpTypeOK /\ [Next]_vars => Otp!OtpTypeOK'
  BY ServicesAssumption, OtpFrame, OtpNextTyped
<1> QED  BY <1>1, <1>2, PTL DEF Spec

LEMMA AppAlwaysTyped == Spec => []App!AppTypeOK
<1>1. Init => App!AppTypeOK
  BY ServicesAssumption, AppInitTypes DEF Init
<1>2. App!AppTypeOK /\ [Next]_vars => App!AppTypeOK'
  BY ServicesAssumption, AppFrame, AppNextTypes
<1> QED  BY <1>1, <1>2, PTL DEF Spec

LEMMA CacheAlwaysTyped == Spec => []Cache!CacheTypeOK
<1>1. Cache!CacheAssumption
  BY ServicesAssumption
<1>2. Init => CacheTyped /\ CounterInv /\ CaptchaInv /\ CacheRest
  BY <1>1, CacheInitTyped, CaptchaInit, CacheRestInit DEF Init
<1>3. CacheTyped /\ CounterInv /\ CaptchaInv /\ CacheRest /\ [Next]_vars
        => (CacheTyped /\ CounterInv /\ CaptchaInv /\ CacheRest)'
  BY <1>1, CacheFrame, CacheNextTyped, CaptchaNext, CacheRestNext
<1>4. CacheTyped /\ CaptchaInv /\ CacheRest => Cache!CacheTypeOK
  BY <1>1, CacheTypesMean
<1> QED  BY <1>2, <1>3, <1>4, PTL DEF Spec

LEMMA ExportAlwaysTyped == Spec => []Export!ExportTypeOK
<1>1. Init => Etyped
  BY ServicesAssumption, ExportInitTyped DEF Init
<1>2. Etyped /\ [Next]_vars => Etyped'
  BY ServicesAssumption, ExportFrame, ExportNextTyped
<1>3. Etyped => Export!ExportTypeOK
  BY DEF Etyped
<1> QED  BY <1>1, <1>2, <1>3, PTL DEF Spec

LEMMA RoomsAlwaysTyped == Spec => []Rooms!RoomsTypeOK
<1>1. Rooms!RoomsAssumption
  BY ServicesAssumption
<1>2. Init => RoomsInv /\ routed \in BOOLEAN
  BY <1>1, RoomsInitCorrect DEF Init, Rooms!Init
<1>3. RoomsInv /\ routed \in BOOLEAN /\ [Next]_vars => RoomsInv' /\ (routed \in BOOLEAN)'
  BY <1>1, RoomsFrame, RoomsNextCorrect, RoomsNextRouted
<1>4. RoomsInv /\ routed \in BOOLEAN => Rooms!RoomsTypeOK
  BY <1>1, RoomsTypesMean
<1> QED  BY <1>2, <1>3, <1>4, PTL DEF Spec

LEMMA BootAlwaysTyped == Spec => []Boot!StartupTypeOK
<1>1. Boot!StartupAssumption
  BY ServicesAssumption
<1>2. Init => BootTyped /\ BootRest
  BY <1>1, BootInitTyped, BootRestInit DEF Init
<1>3. BootTyped /\ BootRest /\ [Next]_vars => (BootTyped /\ BootRest)'
  BY <1>1, BootFrame, BootNextTyped, BootRestNext
<1>4. BootTyped /\ BootRest => Boot!StartupTypeOK
  BY BootTypesMean
<1> QED  BY <1>2, <1>3, <1>4, PTL DEF Spec

\* Every service keeps its variables in their types, whatever its parameters: no
\* channel of the queue in memory exceeds its capacity, no integer of a one-time
\* configuration its width, and nothing is in a map that was not put there.
THEOREM TypesCorrect == Spec => []ServicesTypeOK
<1>1. ServicesTypeOK <=>
        /\ Queue!QueueTypeOK /\ Broker!BrokerTypeOK /\ Cache!CacheTypeOK
        /\ Otp!OtpTypeOK /\ Export!ExportTypeOK /\ App!AppTypeOK
        /\ Rooms!RoomsTypeOK /\ Boot!StartupTypeOK
  BY DEF ServicesTypeOK
<1> QED  BY <1>1, QueueAlwaysTyped, BrokerAlwaysTyped, CacheAlwaysTyped, OtpAlwaysTyped,
            ExportAlwaysTyped, AppAlwaysTyped, RoomsAlwaysTyped, BootAlwaysTyped, PTL
=============================================================================
