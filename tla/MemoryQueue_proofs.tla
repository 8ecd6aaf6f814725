------------------------- MODULE MemoryQueue_proofs -------------------------
(* Proof that MemoryQueue implements WorkQueue, whatever the keys, the       *)
(* callers, the capacity and the interleaving.                               *)
EXTENDS MemoryQueue, SequenceTheorems, TLAPS

Elements(s) == {s[i] : i \in 1..Len(s)}

Once(s) == \A i, j \in 1..Len(s) : s[i] = s[j] => i = j

Typed ==
  /\ made \in Nat
  /\ queue \in [Keys -> 0..made]
  /\ chan \in [1..made -> Seq(Messages)]
  /\ caller \in [Callers -> {"new", "missing", "ready", "sent"}]
  /\ of \in [Callers -> 0..made]
  /\ holds \in [Consumers -> Messages \cup {NoMessage}]

\* A channel is for one key, even when a key has several.
OneKey ==
  /\ \A p \in Callers : caller[p] \in {"ready", "sent"} => of[p] # NoQueue
  /\ \A p, r \in Callers : of[p] = of[r] /\ of[p] # NoQueue => KeyOf[p] = KeyOf[r]
  /\ \A p \in Callers, k \in Keys : of[p] = queue[k] /\ of[p] # NoQueue => KeyOf[p] = k
  /\ \A k, l \in Keys : queue[k] = queue[l] /\ queue[k] # NoQueue => k = l

\* A message that waits is in the channel it was sent to, once; a consumer
\* that has one reads that channel; a message is at one place at most.
OnePlace ==
  /\ \A q \in 1..made :
       /\ Once(chan[q])
       /\ \A m \in Elements(chan[q]) :
            /\ of[m] = q /\ caller[m] = "sent" /\ m \notin handled
            /\ \A c \in Consumers : holds[c] # m
  /\ \A c \in Consumers : holds[c] # NoMessage =>
       /\ caller[holds[c]] = "sent" /\ caller[c] = "ready"
       /\ of[c] = of[holds[c]] /\ holds[c] \notin handled
  /\ \A c, d \in Consumers : holds[c] = holds[d] /\ holds[c] # NoMessage => c = d
  /\ \A c \in Consumers : c \in blocked => holds[c] # NoMessage
  /\ \A m \in Messages : m \in handled => caller[m] = "sent"

IInv == Typed /\ OneKey /\ OnePlace

-----------------------------------------------------------------------------
(* Sequences without repetition *)

LEMMA AppendOnce ==
  ASSUME NEW s \in Seq(Messages), NEW m \in Messages, Once(s), m \notin Elements(s)
  PROVE  /\ Append(s, m) \in Seq(Messages) /\ Once(Append(s, m))
         /\ Elements(Append(s, m)) = Elements(s) \cup {m}
<1>1. /\ Append(s, m) \in Seq(Messages) /\ Len(Append(s, m)) = Len(s) + 1
      /\ \A i \in 1..Len(s) : Append(s, m)[i] = s[i]
      /\ Append(s, m)[Len(s) + 1] = m
      /\ Len(s) \in Nat
  OBVIOUS
<1>2. 1..(Len(s) + 1) = 1..Len(s) \cup {Len(s) + 1}
  BY <1>1
<1>3. Once(Append(s, m))
  BY <1>1, <1>2 DEF Once, Elements
<1>4. Elements(Append(s, m)) = Elements(s) \cup {m}
  BY <1>1, <1>2 DEF Elements
<1> QED  BY <1>1, <1>3, <1>4

LEMMA TailOnce ==
  ASSUME NEW s \in Seq(Messages), Once(s), s # << >>
  PROVE  /\ Tail(s) \in Seq(Messages) /\ Once(Tail(s))
         /\ Head(s) \in Elements(s) /\ Head(s) \in Messages
         /\ Elements(Tail(s)) \subseteq Elements(s) \ {Head(s)}
<1>1. /\ Tail(s) \in Seq(Messages) /\ Len(Tail(s)) = Len(s) - 1
      /\ \A i \in 1..Len(Tail(s)) : Tail(s)[i] = s[i + 1]
      /\ Head(s) = s[1] /\ Len(s) \in Nat \ {0}
      /\ \A i \in 1..Len(s) : s[i] \in Messages
  OBVIOUS
<1>2. Once(Tail(s))
  BY <1>1 DEF Once
<1>3. Head(s) \in Elements(s) /\ Head(s) \in Messages
  BY <1>1 DEF Elements
<1>4. ASSUME NEW i \in 1..Len(Tail(s))
      PROVE  Tail(s)[i] \in Elements(s) /\ Tail(s)[i] # Head(s)
  BY <1>1 DEF Elements, Once
<1> QED  BY <1>1, <1>2, <1>3, <1>4 DEF Elements

LEMMA EmptyOnce ==
  << >> \in Seq(Messages) /\ Once(<< >>) /\ Elements(<< >>) = {}
BY DEF Once, Elements

LEMMA FunctionIsSequence ==
  ASSUME NEW S, NEW n \in Nat, NEW f \in [1..n -> S]
  PROVE  f \in Seq(S) /\ Len(f) = n
<1>1. f \in Seq(S)
  BY SeqDef
<1>2. Len(f) \in Nat /\ 1..Len(f) = 1..n
  BY <1>1, LenProperties
<1> QED  BY <1>1, <1>2

\* In a channel there are messages.
LEMMA ElementsTyped ==
  ASSUME NEW s \in Seq(Messages) PROVE Elements(s) \subseteq Messages
BY DEF Elements

-----------------------------------------------------------------------------
(* The invariant *)

LEMMA InitCorrect ==
  ASSUME QueueCallersAssumption, Init PROVE IInv
<1>1. chan \in [1..made -> Seq(Messages)]
  BY DEF Init
<1>2. Typed
  BY <1>1 DEF Init, Typed, NoQueue
<1>3. OneKey
  BY DEF Init, OneKey, NoQueue
<1>4. OnePlace
  BY DEF Init, OnePlace
<1> QED  BY <1>2, <1>3, <1>4 DEF IInv

\* A call that is not "ready" is at no place yet.
LEMMA NotReady ==
  ASSUME IInv, NEW p \in Callers, caller[p] \in {"new", "missing"}
  PROVE  /\ \A c \in Consumers : holds[c] # NoMessage => c # p /\ holds[c] # p
         /\ \A q \in 1..made : p \notin Elements(chan[q])
         /\ p \in Messages => p \notin handled
BY DEF IInv, OnePlace

LEMMA LoadCorrect ==
  ASSUME QueueCallersAssumption, IInv, NEW p \in Callers, Load(p)
  PROVE  IInv'
<1>1. KeyOf[p] \in Keys
  BY DEF QueueCallersAssumption
<1>2. CASE queue[KeyOf[p]] # NoQueue
  <2>1. /\ caller[p] = "new"
        /\ caller' = [caller EXCEPT ![p] = "ready"]
        /\ of' = [of EXCEPT ![p] = queue[KeyOf[p]]]
        /\ UNCHANGED << queue, made, chan, holds, blocked, handled >>
    BY <1>2 DEF Load
  <2>2. Typed'
    BY <1>1, <2>1 DEF IInv, Typed
  <2>3. \A r \in Callers : /\ r # p => caller'[r] = caller[r] /\ of'[r] = of[r]
                           /\ r = p => caller'[r] = "ready" /\ of'[r] = queue[KeyOf[p]]
    BY <2>1 DEF IInv, Typed
  <2>4. OneKey'
    BY <1>1, <1>2, <2>1, <2>3 DEF IInv, OneKey
  <2>5. OnePlace'
    <3>1. \A q \in 1..made : Elements(chan[q]) \subseteq Callers \ {p}
      BY <2>1, NotReady, ElementsTyped DEF IInv, Typed, Callers
    <3>2. \A c \in Consumers : holds[c] # NoMessage =>
            c \in Callers \ {p} /\ holds[c] \in Callers \ {p}
      BY <2>1, NotReady DEF IInv, Typed, Callers
    <3>3. \A m \in Messages : m \in handled => m \in Callers \ {p}
      BY <2>1, NotReady DEF Callers
    <3> QED  BY <2>1, <2>3, <3>1, <3>2, <3>3 DEF IInv, OnePlace
  <2> QED  BY <2>2, <2>4, <2>5 DEF IInv
<1>3. CASE queue[KeyOf[p]] = NoQueue
  <2>1. /\ caller[p] = "new"
        /\ caller' = [caller EXCEPT ![p] = "missing"]
        /\ UNCHANGED << of, queue, made, chan, holds, blocked, handled >>
    BY <1>3 DEF Load
  <2>2. Typed'
    BY <2>1 DEF IInv, Typed
  <2>3. \A r \in Callers : r # p => caller'[r] = caller[r]
    BY <2>1 DEF IInv, Typed
  <2>4. caller'[p] = "missing"
    BY <2>1 DEF IInv, Typed
  <2>5. OneKey'
    BY <2>1, <2>3, <2>4 DEF IInv, OneKey
  <2>6. OnePlace'
    <3>1. \A q \in 1..made : Elements(chan[q]) \subseteq Callers \ {p}
      BY <2>1, NotReady, ElementsTyped DEF IInv, Typed, Callers
    <3>2. \A c \in Consumers : holds[c] # NoMessage =>
            c \in Callers \ {p} /\ holds[c] \in Callers \ {p}
      BY <2>1, NotReady DEF IInv, Typed, Callers
    <3>3. \A m \in Messages : m \in handled => m \in Callers \ {p}
      BY <2>1, NotReady DEF Callers
    <3> QED  BY <2>1, <2>3, <3>1, <3>2, <3>3 DEF IInv, OnePlace
  <2> QED  BY <2>2, <2>5, <2>6 DEF IInv
<1> QED  BY <1>2, <1>3

\* The channel that Store makes is new to everybody.
LEMMA StoreCorrect ==
  ASSUME QueueCallersAssumption, IInv, NEW p \in Callers, Store(p)
  PROVE  IInv'
<1>1. KeyOf[p] \in Keys
  BY DEF QueueCallersAssumption
<1>2. /\ caller[p] = "missing" /\ made' = made + 1
      /\ chan' = Append(chan, << >>)
      /\ queue' = [queue EXCEPT ![KeyOf[p]] = made + 1]
      /\ caller' = [caller EXCEPT ![p] = "ready"]
      /\ of' = [of EXCEPT ![p] = made + 1]
      /\ UNCHANGED << holds, blocked, handled >>
  BY DEF Store
<1>3. made \in Nat /\ 1..(made + 1) = 1..made \cup {made + 1}
  <2>1. made \in Nat
    BY DEF IInv, Typed
  <2> QED  BY <2>1
<1>4. /\ chan' \in [1..(made + 1) -> Seq(Messages)]
      /\ \A q \in 1..made : chan'[q] = chan[q]
      /\ chan'[made + 1] = << >>
  <2>1. chan \in Seq(Seq(Messages)) /\ Len(chan) = made
    BY FunctionIsSequence DEF IInv, Typed
  <2>2. chan' \in Seq(Seq(Messages)) /\ Len(chan') = made + 1
    BY <1>2, <2>1, EmptyOnce
  <2>3. \A q \in 1..made : chan'[q] = chan[q]
    BY <1>2, <2>1
  <2>4. chan'[made + 1] = << >>
    BY <1>2, <2>1
  <2> QED  BY <2>2, <2>3, <2>4, LenProperties
<1>5. \A r \in Callers : /\ r # p => caller'[r] = caller[r] /\ of'[r] = of[r]
                         /\ r = p => caller'[r] = "ready" /\ of'[r] = made + 1
  BY <1>2 DEF IInv, Typed
<1>6. \A k \in Keys : /\ k # KeyOf[p] => queue'[k] = queue[k]
                      /\ k = KeyOf[p] => queue'[k] = made + 1
  BY <1>2 DEF IInv, Typed
<1>7. Typed'
  BY <1>1, <1>2, <1>3, <1>4 DEF IInv, Typed
<1>8. OneKey'
  <2>1. \A r \in Callers : of[r] # made + 1
    BY <1>3 DEF IInv, Typed
  <2>2. \A k \in Keys : queue[k] # made + 1
    BY <1>3 DEF IInv, Typed
  <2>3. made + 1 # NoQueue
    BY <1>3 DEF NoQueue
  <2> QED  BY <1>1, <1>5, <1>6, <2>1, <2>2, <2>3 DEF IInv, OneKey
<1>9. OnePlace'
  <2>1. \A q \in 1..made : Elements(chan[q]) \subseteq Callers \ {p}
    BY <1>2, NotReady, ElementsTyped DEF IInv, Typed, Callers
  <2>2. \A c \in Consumers : holds[c] # NoMessage =>
          c \in Callers \ {p} /\ holds[c] \in Callers \ {p}
    BY <1>2, NotReady DEF IInv, Typed, Callers
  <2>3. \A m \in Messages : m \in handled => m \in Callers \ {p}
    BY <1>2, NotReady DEF Callers
  <2>4. ASSUME NEW q \in 1..made'
        PROVE  /\ Once(chan'[q])
               /\ \A m \in Elements(chan'[q]) :
                    /\ of'[m] = q /\ caller'[m] = "sent" /\ m \notin handled'
                    /\ \A c \in Consumers : holds'[c] # m
    <3>1. CASE q \in 1..made
      BY <1>2, <1>4, <1>5, <2>1, <3>1 DEF IInv, OnePlace
    <3>2. CASE q = made + 1
      BY <1>4, <3>2, EmptyOnce
    <3> QED  BY <1>2, <1>3, <3>1, <3>2
  <2>5. \A c \in Consumers : holds'[c] # NoMessage =>
          /\ caller'[holds'[c]] = "sent" /\ caller'[c] = "ready"
          /\ of'[c] = of'[holds'[c]] /\ holds'[c] \notin handled'
    BY <1>2, <1>5, <2>2 DEF IInv, OnePlace
  <2>6. \A m \in Messages : m \in handled' => caller'[m] = "sent"
    BY <1>2, <1>5, <2>3 DEF IInv, OnePlace
  <2>7. /\ \A c, d \in Consumers : holds'[c] = holds'[d] /\ holds'[c] # NoMessage => c = d
        /\ \A c \in Consumers : c \in blocked' => holds'[c] # NoMessage
    BY <1>2 DEF IInv, OnePlace
  <2> QED  BY <2>4, <2>5, <2>6, <2>7 DEF OnePlace
<1> QED  BY <1>7, <1>8, <1>9 DEF IInv

-----------------------------------------------------------------------------
(* The channels *)

LEMMA ChannelOf ==
  ASSUME QueueCallersAssumption, IInv, NEW p \in Callers, caller[p] = "ready"
  PROVE  /\ of[p] \in 1..made
         /\ chan[of[p]] \in Seq(Messages) /\ Once(chan[of[p]])
<1>1. of[p] \in 1..made
  BY DEF IInv, Typed, OneKey, NoQueue
<1> QED  BY <1>1 DEF IInv, Typed, OnePlace

\* Of all channels, one gets other contents.
LEMMA ChannelGets ==
  ASSUME IInv, NEW q \in 1..made, NEW s \in Seq(Messages),
         chan' = [chan EXCEPT ![q] = s]
  PROVE  /\ chan' \in [1..made -> Seq(Messages)]
         /\ chan'[q] = s /\ \A r \in 1..made : r # q => chan'[r] = chan[r]
BY DEF IInv, Typed

LEMMA SendCorrect ==
  ASSUME QueueCallersAssumption, IInv, NEW m \in Messages, Send(m)
  PROVE  IInv'
<1>1. /\ caller[m] = "ready" /\ m \in Callers
      /\ chan' = [chan EXCEPT ![of[m]] = Append(chan[of[m]], m)]
      /\ caller' = [caller EXCEPT ![m] = "sent"]
      /\ UNCHANGED << queue, made, of, holds, blocked, handled >>
  BY DEF Send, Callers
<1>2. of[m] \in 1..made /\ chan[of[m]] \in Seq(Messages) /\ Once(chan[of[m]])
  BY <1>1, ChannelOf
<1>3. \A q \in 1..made : m \notin Elements(chan[q])
  BY <1>1 DEF IInv, OnePlace
<1>4. /\ Append(chan[of[m]], m) \in Seq(Messages) /\ Once(Append(chan[of[m]], m))
      /\ Elements(Append(chan[of[m]], m)) = Elements(chan[of[m]]) \cup {m}
  BY <1>2, <1>3, AppendOnce
<1>5. /\ chan' \in [1..made -> Seq(Messages)]
      /\ chan'[of[m]] = Append(chan[of[m]], m)
      /\ \A r \in 1..made : r # of[m] => chan'[r] = chan[r]
  BY <1>1, <1>2, <1>4, ChannelGets
<1>6. Typed'
  BY <1>1, <1>5 DEF IInv, Typed
<1>7. \A r \in Callers : /\ r # m => caller'[r] = caller[r]
                         /\ r = m => caller'[r] = "sent"
  BY <1>1 DEF IInv, Typed
<1>8. OneKey'
  BY <1>1, <1>7 DEF IInv, OneKey
<1>9. OnePlace'
  <2>1. \A c \in Consumers : holds[c] # m
    BY <1>1 DEF IInv, OnePlace, QueueCallersAssumption
  <2>2. m \notin handled
    BY <1>1 DEF IInv, OnePlace
  <2>3. ASSUME NEW q \in 1..made
        PROVE  /\ Once(chan'[q])
               /\ \A n \in Elements(chan'[q]) :
                    /\ of'[n] = q /\ caller'[n] = "sent" /\ n \notin handled'
                    /\ \A c \in Consumers : holds'[c] # n
    <3>1. \A n \in Elements(chan[q]) :
            /\ of[n] = q /\ caller[n] = "sent" /\ n \notin handled
            /\ \A c \in Consumers : holds[c] # n
      BY DEF IInv, OnePlace
    <3>2. Elements(chan[q]) \subseteq Callers
      BY ElementsTyped DEF IInv, Typed, Callers
    <3>3. CASE q = of[m]
      BY <1>1, <1>4, <1>5, <1>7, <2>1, <2>2, <3>1, <3>2, <3>3
    <3>4. CASE q # of[m]
      <4>1. Once(chan[q])
        BY DEF IInv, OnePlace
      <4> QED  BY <1>1, <1>5, <1>7, <3>1, <3>2, <3>4, <4>1
    <3> QED  BY <3>3, <3>4
  <2>4. \A c \in Consumers : holds'[c] # NoMessage =>
          /\ caller'[holds'[c]] = "sent" /\ caller'[c] = "ready"
          /\ of'[c] = of'[holds'[c]] /\ holds'[c] \notin handled'
    <3>1. \A c \in Consumers : c \in Callers /\ c # m
      BY DEF Callers, QueueCallersAssumption
    <3>2. \A c \in Consumers : holds[c] # NoMessage => holds[c] \in Callers
      BY DEF IInv, Typed, Callers
    <3> QED  BY <1>1, <1>7, <3>1, <3>2 DEF IInv, OnePlace
  <2>5. \A n \in Messages : n \in handled' => caller'[n] = "sent"
    BY <1>1, <1>7 DEF IInv, OnePlace, Callers
  <2>6. /\ \A c, d \in Consumers : holds'[c] = holds'[d] /\ holds'[c] # NoMessage => c = d
        /\ \A c \in Consumers : c \in blocked' => holds'[c] # NoMessage
    BY <1>1 DEF IInv, OnePlace
  <2> QED  BY <1>1, <2>3, <2>4, <2>5, <2>6 DEF OnePlace
<1> QED  BY <1>6, <1>8, <1>9 DEF IInv

\* A message goes to a consumer: to a consumer that waits at its channel, from
\* its sender, the channel or another consumer.
LEMMA SendToCorrect ==
  ASSUME QueueCallersAssumption, IInv, NEW m \in Messages, NEW c \in Consumers,
         SendTo(m, c)
  PROVE  IInv'
<1>1. /\ caller[m] = "ready" /\ m \in Callers
      /\ caller[c] = "ready" /\ c \in Callers /\ of[c] = of[m] /\ holds[c] = NoMessage
      /\ holds' = [holds EXCEPT ![c] = m]
      /\ caller' = [caller EXCEPT ![m] = "sent"]
      /\ UNCHANGED << queue, made, chan, of, blocked, handled >>
  BY DEF SendTo, Idle, Callers
<1>2. Typed'
  BY <1>1 DEF IInv, Typed
<1>3. \A r \in Callers : /\ r # m => caller'[r] = caller[r]
                         /\ r = m => caller'[r] = "sent"
  BY <1>1 DEF IInv, Typed
<1>4. \A d \in Consumers : /\ d # c => holds'[d] = holds[d]
                           /\ d = c => holds'[d] = m
  BY <1>1 DEF IInv, Typed
<1>5. OneKey'
  BY <1>1, <1>3 DEF IInv, OneKey
<1>6. /\ \A q \in 1..made : m \notin Elements(chan[q])
      /\ \A d \in Consumers : holds[d] # m
      /\ m \notin handled /\ m # NoMessage
  BY <1>1 DEF IInv, OnePlace, QueueCallersAssumption
<1>7. \A q \in 1..made :
        /\ Once(chan'[q])
        /\ \A n \in Elements(chan'[q]) :
             /\ of'[n] = q /\ caller'[n] = "sent" /\ n \notin handled'
             /\ \A d \in Consumers : holds'[d] # n
  <2>1. \A q \in 1..made : Elements(chan[q]) \subseteq Callers
    BY ElementsTyped DEF IInv, Typed, Callers
  <2> QED  BY <1>1, <1>3, <1>4, <1>6, <2>1 DEF IInv, OnePlace
<1>8. \A d \in Consumers : holds'[d] # NoMessage =>
        /\ caller'[holds'[d]] = "sent" /\ caller'[d] = "ready"
        /\ of'[d] = of'[holds'[d]] /\ holds'[d] \notin handled'
  <2>1. \A d \in Consumers : d \in Callers /\ d # m
    BY DEF Callers, QueueCallersAssumption
  <2>2. \A d \in Consumers : holds[d] # NoMessage => holds[d] \in Callers
    BY DEF IInv, Typed, Callers
  <2> QED  BY <1>1, <1>3, <1>4, <1>6, <2>1, <2>2 DEF IInv, OnePlace
<1>9. /\ \A n \in Messages : n \in handled' => caller'[n] = "sent"
      /\ \A d, e \in Consumers : holds'[d] = holds'[e] /\ holds'[d] # NoMessage => d = e
      /\ \A d \in Consumers : d \in blocked' => holds'[d] # NoMessage
  BY <1>1, <1>3, <1>4, <1>6 DEF IInv, OnePlace, Callers
<1> QED  BY <1>1, <1>2, <1>5, <1>7, <1>8, <1>9 DEF IInv, OnePlace

LEMMA ReceiveCorrect ==
  ASSUME QueueCallersAssumption, IInv, NEW c \in Consumers, Receive(c)
  PROVE  IInv'
<1> DEFINE m == Head(chan[of[c]])
<1>1. /\ caller[c] = "ready" /\ c \in Callers /\ holds[c] = NoMessage
      /\ chan[of[c]] # << >>
      /\ holds' = [holds EXCEPT ![c] = m]
      /\ chan' = [chan EXCEPT ![of[c]] = Tail(chan[of[c]])]
      /\ UNCHANGED << queue, made, caller, of, blocked, handled >>
  BY DEF Receive, Idle, Callers, lookup
<1>2. of[c] \in 1..made /\ chan[of[c]] \in Seq(Messages) /\ Once(chan[of[c]])
  BY <1>1, ChannelOf
<1>3. /\ Tail(chan[of[c]]) \in Seq(Messages) /\ Once(Tail(chan[of[c]]))
      /\ m \in Elements(chan[of[c]]) /\ m \in Messages
      /\ Elements(Tail(chan[of[c]])) \subseteq Elements(chan[of[c]]) \ {m}
  BY <1>1, <1>2, TailOnce
<1>4. /\ chan' \in [1..made -> Seq(Messages)]
      /\ chan'[of[c]] = Tail(chan[of[c]])
      /\ \A r \in 1..made : r # of[c] => chan'[r] = chan[r]
  BY <1>1, <1>2, <1>3, ChannelGets
<1>5. /\ of[m] = of[c] /\ caller[m] = "sent" /\ m \notin handled /\ m # NoMessage
      /\ \A d \in Consumers : holds[d] # m
  BY <1>2, <1>3 DEF IInv, OnePlace, QueueCallersAssumption
<1> HIDE DEF m
<1>6. \A d \in Consumers : /\ d # c => holds'[d] = holds[d]
                           /\ d = c => holds'[d] = m
  BY <1>1 DEF IInv, Typed
<1>7. Typed'
  BY <1>1, <1>3, <1>4 DEF IInv, Typed
<1>8. OneKey'
  BY <1>1 DEF IInv, OneKey
<1>9. ASSUME NEW q \in 1..made
      PROVE  /\ Once(chan'[q])
             /\ \A n \in Elements(chan'[q]) :
                  /\ of'[n] = q /\ caller'[n] = "sent" /\ n \notin handled'
                  /\ \A d \in Consumers : holds'[d] # n
  <2>1. /\ Once(chan[q])
        /\ \A n \in Elements(chan[q]) :
             /\ of[n] = q /\ caller[n] = "sent" /\ n \notin handled
             /\ \A d \in Consumers : holds[d] # n
    BY DEF IInv, OnePlace
  <2>2. CASE q = of[c]
    BY <1>1, <1>3, <1>4, <1>6, <2>1, <2>2
  <2>3. CASE q # of[c]
    BY <1>1, <1>4, <1>5, <1>6, <2>1, <2>3
  <2> QED  BY <2>2, <2>3
<1>10. /\ \A d \in Consumers : holds'[d] # NoMessage =>
            /\ caller'[holds'[d]] = "sent" /\ caller'[d] = "ready"
            /\ of'[d] = of'[holds'[d]] /\ holds'[d] \notin handled'
       /\ \A n \in Messages : n \in handled' => caller'[n] = "sent"
       /\ \A d, e \in Consumers : holds'[d] = holds'[e] /\ holds'[d] # NoMessage => d = e
       /\ \A d \in Consumers : d \in blocked' => holds'[d] # NoMessage
  BY <1>1, <1>5, <1>6 DEF IInv, OnePlace
<1> QED  BY <1>1, <1>7, <1>8, <1>9, <1>10 DEF IInv, OnePlace

LEMMA PutBackToCorrect ==
  ASSUME QueueCallersAssumption, IInv, NEW c \in Consumers, NEW d \in Consumers,
         PutBackTo(c, d)
  PROVE  IInv'
<1>1. /\ holds[c] # NoMessage /\ c # d
      /\ caller[d] = "ready" /\ holds[d] = NoMessage /\ of[d] = of[c]
      /\ holds' = [holds EXCEPT ![c] = NoMessage, ![d] = holds[c]]
      /\ blocked' = blocked \ {c}
      /\ UNCHANGED << queue, made, caller, of, chan, handled >>
  BY DEF PutBackTo, Idle, lookup, IInv, OnePlace
<1>2. \A e \in Consumers : /\ e \notin {c, d} => holds'[e] = holds[e]
                           /\ e = c => holds'[e] = NoMessage
                           /\ e = d => holds'[e] = holds[c]
  BY <1>1 DEF IInv, Typed
<1>3. Typed'
  BY <1>1 DEF IInv, Typed
<1>4. OneKey'
  BY <1>1 DEF IInv, OneKey
<1>5. ASSUME NEW q \in 1..made, NEW n \in Elements(chan[q])
      PROVE  /\ of[n] = q /\ caller[n] = "sent" /\ n \notin handled'
             /\ \A e \in Consumers : holds'[e] # n
  <2>1. n # NoMessage
    BY ElementsTyped DEF IInv, Typed, QueueCallersAssumption
  <2>2. /\ of[n] = q /\ caller[n] = "sent" /\ n \notin handled
        /\ \A e \in Consumers : holds[e] # n
    BY DEF IInv, OnePlace
  <2> QED  BY <1>1, <1>2, <2>1, <2>2
<1>6. /\ \A e \in Consumers : holds'[e] # NoMessage =>
           /\ caller'[holds'[e]] = "sent" /\ caller'[e] = "ready"
           /\ of'[e] = of'[holds'[e]] /\ holds'[e] \notin handled'
      /\ \A n \in Messages : n \in handled' => caller'[n] = "sent"
      /\ \A e, f \in Consumers : holds'[e] = holds'[f] /\ holds'[e] # NoMessage => e = f
      /\ \A e \in Consumers : e \in blocked' => holds'[e] # NoMessage
  <2>1. \A e \in Consumers : holds[e] # NoMessage =>
           /\ caller[holds[e]] = "sent" /\ caller[e] = "ready"
           /\ of[e] = of[holds[e]] /\ holds[e] \notin handled
    BY DEF IInv, OnePlace
  <2>2. \A e, f \in Consumers : holds[e] = holds[f] /\ holds[e] # NoMessage => e = f
    BY DEF IInv, OnePlace
  <2>3. \A e \in Consumers : e \in blocked => holds[e] # NoMessage
    BY DEF IInv, OnePlace
  <2>4. ASSUME NEW e \in Consumers, holds'[e] # NoMessage
        PROVE  /\ caller'[holds'[e]] = "sent" /\ caller'[e] = "ready"
               /\ of'[e] = of'[holds'[e]] /\ holds'[e] \notin handled'
    <3>1. CASE e = d
      <4>1. holds'[e] = holds[c]
        BY <1>2, <3>1
      <4>2. /\ caller[holds[c]] = "sent" /\ of[c] = of[holds[c]]
            /\ holds[c] \notin handled
        BY <1>1, <2>1
      <4> QED  BY <1>1, <3>1, <4>1, <4>2
    <3>2. CASE e # d
      <4>1. holds'[e] = holds[e] /\ holds[e] # NoMessage
        BY <1>2, <2>4, <3>2
      <4> QED  BY <1>1, <2>1, <4>1
    <3> QED  BY <3>1, <3>2
  <2>5. \A e, f \in Consumers : holds'[e] = holds'[f] /\ holds'[e] # NoMessage => e = f
    BY <1>1, <1>2, <2>2
  <2>6. \A e \in Consumers : e \in blocked' => holds'[e] # NoMessage
    BY <1>1, <1>2, <2>3
  <2>7. \A n \in Messages : n \in handled' => caller'[n] = "sent"
    BY <1>1 DEF IInv, OnePlace
  <2> QED  BY <2>4, <2>5, <2>6, <2>7
<1>7. OnePlace'
  <2>1. \A q \in 1..made : Once(chan[q])
    BY DEF IInv, OnePlace
  <2>2. \A q \in 1..made' :
          /\ Once(chan'[q])
          /\ \A n \in Elements(chan'[q]) :
               /\ of'[n] = q /\ caller'[n] = "sent" /\ n \notin handled'
               /\ \A e \in Consumers : holds'[e] # n
    BY <1>1, <1>5, <2>1
  <2> QED  BY <1>6, <2>2 DEF OnePlace
<1> QED  BY <1>3, <1>4, <1>7 DEF IInv

-----------------------------------------------------------------------------
(* The handlers *)

LEMMA HandleCorrect ==
  ASSUME QueueCallersAssumption, IInv, NEW c \in Consumers, Handle(c)
  PROVE  IInv'
<1>1. /\ holds[c] # NoMessage /\ c \notin blocked
      /\ handled' = handled \cup {holds[c]}
      /\ holds' = [holds EXCEPT ![c] = NoMessage]
      /\ UNCHANGED << queue, made, caller, of, chan, blocked >>
  BY DEF Handle, lookup
<1>2. \A e \in Consumers : /\ e # c => holds'[e] = holds[e]
                           /\ e = c => holds'[e] = NoMessage
  BY <1>1 DEF IInv, Typed
<1>3. Typed'
  BY <1>1 DEF IInv, Typed
<1>4. OneKey'
  BY <1>1 DEF IInv, OneKey
<1>5. ASSUME NEW q \in 1..made, NEW n \in Elements(chan[q])
      PROVE  /\ of[n] = q /\ caller[n] = "sent" /\ n \notin handled'
             /\ \A e \in Consumers : holds'[e] # n
  <2>1. n # NoMessage
    BY ElementsTyped DEF IInv, Typed, QueueCallersAssumption
  <2>2. /\ of[n] = q /\ caller[n] = "sent" /\ n \notin handled
        /\ \A e \in Consumers : holds[e] # n
    BY DEF IInv, OnePlace
  <2> QED  BY <1>1, <1>2, <2>1, <2>2
<1>6. /\ \A e \in Consumers : holds'[e] # NoMessage =>
           /\ caller'[holds'[e]] = "sent" /\ caller'[e] = "ready"
           /\ of'[e] = of'[holds'[e]] /\ holds'[e] \notin handled'
      /\ \A n \in Messages : n \in handled' => caller'[n] = "sent"
      /\ \A e, f \in Consumers : holds'[e] = holds'[f] /\ holds'[e] # NoMessage => e = f
      /\ \A e \in Consumers : e \in blocked' => holds'[e] # NoMessage
  BY <1>1, <1>2 DEF IInv, OnePlace
<1>7. OnePlace'
  BY <1>1, <1>5, <1>6 DEF IInv, OnePlace
<1> QED  BY <1>3, <1>4, <1>7 DEF IInv

LEMMA FailCorrect ==
  ASSUME IInv, NEW c \in Consumers, Fail(c)
  PROVE  IInv'
<1>1. /\ holds[c] # NoMessage /\ blocked' = blocked \cup {c}
      /\ UNCHANGED << queue, made, caller, of, chan, holds, handled >>
  BY DEF Fail, lookup
<1> QED  BY <1>1 DEF IInv, Typed, OneKey, OnePlace

LEMMA PutBackCorrect ==
  ASSUME QueueCallersAssumption, IInv, NEW c \in Consumers, PutBack(c)
  PROVE  IInv'
<1> DEFINE m == holds[c]
<1>1. /\ m # NoMessage
      /\ chan' = [chan EXCEPT ![of[c]] = Append(chan[of[c]], m)]
      /\ holds' = [holds EXCEPT ![c] = NoMessage]
      /\ blocked' = blocked \ {c}
      /\ UNCHANGED << queue, made, caller, of, handled >>
  BY DEF PutBack, lookup, IInv, OnePlace
<1>2. /\ m \in Messages /\ caller[m] = "sent" /\ caller[c] = "ready"
      /\ of[c] = of[m] /\ m \notin handled
      /\ c \in Callers /\ \A d \in Consumers : d # c => holds[d] # m
  BY <1>1 DEF IInv, Typed, OnePlace, Callers
<1>3. of[c] \in 1..made /\ chan[of[c]] \in Seq(Messages) /\ Once(chan[of[c]])
  BY <1>2, ChannelOf
<1>4. \A q \in 1..made : m \notin Elements(chan[q])
  BY DEF IInv, OnePlace
<1>5. /\ Append(chan[of[c]], m) \in Seq(Messages) /\ Once(Append(chan[of[c]], m))
      /\ Elements(Append(chan[of[c]], m)) = Elements(chan[of[c]]) \cup {m}
  BY <1>2, <1>3, <1>4, AppendOnce
<1>6. /\ chan' \in [1..made -> Seq(Messages)]
      /\ chan'[of[c]] = Append(chan[of[c]], m)
      /\ \A r \in 1..made : r # of[c] => chan'[r] = chan[r]
  BY <1>1, <1>3, <1>5, ChannelGets
<1>7. \A d \in Consumers : /\ d # c => holds'[d] = holds[d]
                           /\ d = c => holds'[d] = NoMessage
  BY <1>1 DEF IInv, Typed
<1>8. Typed'
  BY <1>1, <1>6 DEF IInv, Typed
<1>9. OneKey'
  BY <1>1 DEF IInv, OneKey
<1>10. ASSUME NEW q \in 1..made
       PROVE  /\ Once(chan'[q])
              /\ \A n \in Elements(chan'[q]) :
                   /\ of'[n] = q /\ caller'[n] = "sent" /\ n \notin handled'
                   /\ \A d \in Consumers : holds'[d] # n
  <2>1. /\ Once(chan[q]) /\ Elements(chan[q]) \subseteq Messages
        /\ \A n \in Elements(chan[q]) :
             /\ of[n] = q /\ caller[n] = "sent" /\ n \notin handled
             /\ \A d \in Consumers : holds[d] # n
    BY ElementsTyped DEF IInv, Typed, OnePlace
  <2>2. NoMessage \notin Messages
    BY DEF QueueCallersAssumption
  <2>3. CASE q = of[c]
    BY <1>1, <1>2, <1>5, <1>6, <1>7, <2>1, <2>2, <2>3
  <2>4. CASE q # of[c]
    BY <1>1, <1>6, <1>7, <2>1, <2>2, <2>4
  <2> QED  BY <2>3, <2>4
<1>11. /\ \A d \in Consumers : holds'[d] # NoMessage =>
            /\ caller'[holds'[d]] = "sent" /\ caller'[d] = "ready"
            /\ of'[d] = of'[holds'[d]] /\ holds'[d] \notin handled'
       /\ \A n \in Messages : n \in handled' => caller'[n] = "sent"
       /\ \A d, e \in Consumers : holds'[d] = holds'[e] /\ holds'[d] # NoMessage => d = e
       /\ \A d \in Consumers : d \in blocked' => holds'[d] # NoMessage
  BY <1>1, <1>7 DEF IInv, OnePlace
<1> QED  BY <1>1, <1>8, <1>9, <1>10, <1>11 DEF IInv, OnePlace

LEMMA NextCorrect ==
  ASSUME QueueCallersAssumption, IInv, [Next]_vars
  PROVE  IInv'
<1>1. ASSUME NEW m \in Messages, Publish(m) PROVE IInv'
  BY <1>1, LoadCorrect, StoreCorrect, SendCorrect, SendToCorrect DEF Publish, Callers
<1>2. ASSUME NEW c \in Consumers, Consumer(c) PROVE IInv'
  BY <1>2, LoadCorrect, StoreCorrect, ReceiveCorrect, HandleCorrect, FailCorrect,
     PutBackCorrect, PutBackToCorrect DEF Consumer, Callers
<1>3. CASE Service \/ UNCHANGED vars
  <2>1. UNCHANGED << queue, made, caller, of, chan, holds, blocked, handled >>
    BY <1>3 DEF Service, vars, lookup
  <2> QED  BY <2>1 DEF IInv, Typed, OneKey, OnePlace
<1> QED  BY <1>1, <1>2, <1>3 DEF Next

-----------------------------------------------------------------------------
(* The refinement *)

\* workOf as a function of what it depends on
WorkIn(h, done, at) ==
  [m \in Messages |->
     IF \E c \in Consumers : h[c] = m
       THEN CHOOSE c \in Consumers : h[c] = m
       ELSE IF m \in done THEN "handled"
       ELSE IF at[m] = "sent" THEN "waiting" ELSE "unsent"]

LEMMA WorkHeld ==
  ASSUME NEW h, NEW done, NEW at, NEW c \in Consumers, NEW m \in Messages,
         h[c] = m, \A d \in Consumers : h[d] = m => d = c
  PROVE  WorkIn(h, done, at)[m] = c
<1>1. (CHOOSE d \in Consumers : h[d] = m) = c
  OBVIOUS
<1> QED  BY <1>1 DEF WorkIn

LEMMA WorkFree ==
  ASSUME NEW h, NEW done, NEW at, NEW m \in Messages, \A c \in Consumers : h[c] # m
  PROVE  WorkIn(h, done, at)[m] = IF m \in done THEN "handled"
                                  ELSE IF at[m] = "sent" THEN "waiting" ELSE "unsent"
BY DEF WorkIn

\* What the abstract queue sees of a message, in this state and in the next
LEMMA WorkNow ==
  ASSUME QueueCallersAssumption, IInv, NEW m \in Messages
  PROVE  /\ \A c \in Consumers : holds[c] = m <=> workOf[m] = c
         /\ (\A c \in Consumers : holds[c] # m) =>
              workOf[m] = IF m \in handled THEN "handled"
                          ELSE IF caller[m] = "sent" THEN "waiting" ELSE "unsent"
<1>1. workOf = WorkIn(holds, handled, caller)
  BY DEF workOf, WorkIn
<1>2. \A c, d \in Consumers : holds[c] = m /\ holds[d] = m => c = d
  BY DEF IInv, OnePlace, QueueCallersAssumption
<1>3. CASE \E c \in Consumers : holds[c] = m
  <2>1. PICK c \in Consumers : holds[c] = m
    BY <1>3
  <2>2. workOf[m] = c
    BY <1>1, <1>2, <2>1, WorkHeld
  <2> QED  BY <1>2, <2>1, <2>2
<1>4. CASE \A c \in Consumers : holds[c] # m
  <2>1. workOf[m] = IF m \in handled THEN "handled"
                    ELSE IF caller[m] = "sent" THEN "waiting" ELSE "unsent"
    BY <1>1, <1>4, WorkFree
  <2> QED  BY <1>4, <2>1 DEF QueueCallersAssumption
<1> QED  BY <1>3, <1>4

LEMMA WorkNext ==
  ASSUME QueueCallersAssumption, IInv', NEW m \in Messages
  PROVE  /\ \A c \in Consumers : holds'[c] = m => workOf'[m] = c
         /\ (\A c \in Consumers : holds'[c] # m) =>
              workOf'[m] = IF m \in handled' THEN "handled"
                           ELSE IF caller'[m] = "sent" THEN "waiting" ELSE "unsent"
<1>1. workOf' = WorkIn(holds', handled', caller')
  BY DEF workOf, WorkIn
<1>2. \A c, d \in Consumers : holds'[c] = m /\ holds'[d] = m => c = d
  BY DEF IInv, OnePlace, QueueCallersAssumption
<1>3. ASSUME NEW c \in Consumers, holds'[c] = m PROVE workOf'[m] = c
  BY <1>1, <1>2, <1>3, WorkHeld
<1>4. ASSUME \A c \in Consumers : holds'[c] # m
      PROVE  workOf'[m] = IF m \in handled' THEN "handled"
                          ELSE IF caller'[m] = "sent" THEN "waiting" ELSE "unsent"
  BY <1>1, <1>4, WorkFree
<1> QED  BY <1>3, <1>4

\* A step that changes the work on m only
LEMMA WorkChanges ==
  ASSUME NEW m \in Messages, NEW to, workOf'[m] = to,
         \A n \in Messages : n # m => workOf'[n] = workOf[n]
  PROVE  workOf' = [workOf EXCEPT ![m] = to]
<1>1. /\ workOf = [n \in Messages |-> workOf[n]]
      /\ workOf' = [n \in Messages |-> workOf'[n]]
  BY DEF workOf
<1> QED  BY <1>1

LEMMA WorkStays ==
  ASSUME \A n \in Messages : workOf'[n] = workOf[n]
  PROVE  workOf' = workOf
<1>1. /\ workOf = [n \in Messages |-> workOf[n]]
      /\ workOf' = [n \in Messages |-> workOf'[n]]
  BY DEF workOf
<1> QED  BY <1>1

-----------------------------------------------------------------------------
\* Looking a queue up, a failed handler and the service are no steps of the work.
LEMMA QuietStep ==
  ASSUME QueueCallersAssumption, IInv, IInv',
         holds' = holds, handled' = handled,
         \A m \in Messages : caller'[m] = "sent" <=> caller[m] = "sent"
  PROVE  workOf' = workOf
<1>1. ASSUME NEW m \in Messages PROVE workOf'[m] = workOf[m]
  <2>1. CASE \E c \in Consumers : holds[c] = m
    BY <2>1, WorkNow, WorkNext
  <2>2. CASE \A c \in Consumers : holds[c] # m
    <3>1. workOf[m] = IF m \in handled THEN "handled"
                      ELSE IF caller[m] = "sent" THEN "waiting" ELSE "unsent"
      BY <2>2, WorkNow
    <3>2. workOf'[m] = IF m \in handled' THEN "handled"
                       ELSE IF caller'[m] = "sent" THEN "waiting" ELSE "unsent"
      BY <2>2, WorkNext
    <3> QED  BY <3>1, <3>2
  <2> QED  BY <2>1, <2>2
<1> QED  BY <1>1, WorkStays

\* A message changes hands, and no other.
LEMMA OneMoves ==
  ASSUME QueueCallersAssumption, IInv, IInv', NEW m \in Messages,
         \A c \in Consumers, n \in Messages : n # m => (holds'[c] = n <=> holds[c] = n),
         \A n \in Messages : n # m => /\ n \in handled' <=> n \in handled
                                      /\ caller'[n] = caller[n]
  PROVE  workOf' = [workOf EXCEPT ![m] = workOf'[m]]
<1>1. ASSUME NEW n \in Messages, n # m PROVE workOf'[n] = workOf[n]
  <2>1. CASE \E c \in Consumers : holds[c] = n
    BY <1>1, <2>1, WorkNow, WorkNext
  <2>2. CASE \A c \in Consumers : holds[c] # n
    <3>1. workOf[n] = IF n \in handled THEN "handled"
                      ELSE IF caller[n] = "sent" THEN "waiting" ELSE "unsent"
      BY <2>2, WorkNow
    <3>2. workOf'[n] = IF n \in handled' THEN "handled"
                       ELSE IF caller'[n] = "sent" THEN "waiting" ELSE "unsent"
      BY <1>1, <2>2, WorkNext
    <3> QED  BY <1>1, <3>1, <3>2
  <2> QED  BY <2>1, <2>2
<1> QED  BY <1>1, WorkChanges

\* A consumer that has nothing has no work.
LEMMA IdleFree ==
  ASSUME QueueCallersAssumption, IInv, NEW c \in Consumers, holds[c] = NoMessage
  PROVE  \A n \in Messages : workOf[n] # c
<1>1. \A n \in Messages : holds[c] # n
  BY DEF QueueCallersAssumption
<1> QED  BY <1>1, WorkNow

\* Consumers of a channel are for the key of the messages in it.
LEMMA SameKey ==
  ASSUME QueueCallersAssumption, IInv, NEW p \in Callers, NEW r \in Callers,
         of[p] = of[r], caller[p] \in {"ready", "sent"}
  PROVE  KeyOf[p] = KeyOf[r]
BY DEF IInv, OneKey

LEMMA SendRefines ==
  ASSUME QueueCallersAssumption, IInv, IInv', NEW m \in Messages, Send(m)
  PROVE  Promise!Submit(m)
<1>1. /\ caller[m] = "ready" /\ m \in Callers
      /\ caller' = [caller EXCEPT ![m] = "sent"]
      /\ UNCHANGED << holds, handled >>
  BY DEF Send, Callers
<1>2. \A n \in Messages : /\ n # m => caller'[n] = caller[n]
                          /\ n = m => caller'[n] = "sent"
  BY <1>1 DEF IInv, Typed, Callers
<1>3. m \notin handled /\ \A c \in Consumers : holds[c] # m
  BY <1>1 DEF IInv, OnePlace, QueueCallersAssumption
<1>4. workOf[m] = "unsent"
  BY <1>1, <1>3, WorkNow
<1>5. workOf'[m] = "waiting"
  BY <1>1, <1>2, <1>3, WorkNext
<1>6. workOf' = [workOf EXCEPT ![m] = workOf'[m]]
  BY <1>1, <1>2, OneMoves
<1> QED  BY <1>4, <1>5, <1>6 DEF Promise!Submit

LEMMA SendToRefines ==
  ASSUME QueueCallersAssumption, IInv, IInv', NEW m \in Messages, NEW c \in Consumers,
         SendTo(m, c)
  PROVE  Promise!Begin(m, c)
<1>1. /\ caller[m] = "ready" /\ m \in Callers /\ c \in Callers
      /\ holds[c] = NoMessage /\ of[c] = of[m]
      /\ holds' = [holds EXCEPT ![c] = m]
      /\ caller' = [caller EXCEPT ![m] = "sent"] /\ handled' = handled
  BY DEF SendTo, Idle, Callers
<1>2. /\ \A n \in Messages : n # m => caller'[n] = caller[n]
      /\ \A d \in Consumers : /\ d # c => holds'[d] = holds[d]
                              /\ d = c => holds'[d] = m
  BY <1>1 DEF IInv, Typed, Callers
<1>3. m \notin handled /\ \A d \in Consumers : holds[d] # m
  BY <1>1 DEF IInv, OnePlace, QueueCallersAssumption
<1>4. workOf[m] = "unsent"
  BY <1>1, <1>3, WorkNow
<1>5. workOf'[m] = c
  BY <1>2, WorkNext
<1>6. workOf' = [workOf EXCEPT ![m] = workOf'[m]]
  <2>1. \A d \in Consumers, n \in Messages : n # m => (holds'[d] = n <=> holds[d] = n)
    BY <1>1, <1>2 DEF QueueCallersAssumption
  <2> QED  BY <1>1, <1>2, <2>1, OneMoves
<1>7. KeyOf[c] = KeyOf[m] /\ \A n \in Messages : workOf[n] # c
  BY <1>1, SameKey, IdleFree
<1> QED  BY <1>4, <1>5, <1>6, <1>7 DEF Promise!Begin

LEMMA ReceiveRefines ==
  ASSUME QueueCallersAssumption, IInv, IInv', NEW c \in Consumers, Receive(c)
  PROVE  \E m \in Messages : Promise!Begin(m, c)
<1>1. /\ caller[c] = "ready" /\ c \in Callers /\ holds[c] = NoMessage
      /\ chan[of[c]] # << >>
      /\ holds' = [holds EXCEPT ![c] = Head(chan[of[c]])]
      /\ caller' = caller /\ handled' = handled
  BY DEF Receive, Idle, Callers, lookup
<1>2. of[c] \in 1..made /\ chan[of[c]] \in Seq(Messages) /\ Once(chan[of[c]])
  BY <1>1, ChannelOf
<1>3. PICK m \in Messages : m = Head(chan[of[c]]) /\ m \in Elements(chan[of[c]])
  BY <1>1, <1>2, TailOnce
<1>4. /\ of[m] = of[c] /\ caller[m] = "sent" /\ m \notin handled /\ m \in Callers
      /\ \A d \in Consumers : holds[d] # m
  BY <1>2, <1>3 DEF IInv, OnePlace, Callers
<1>5. \A d \in Consumers : /\ d # c => holds'[d] = holds[d]
                           /\ d = c => holds'[d] = m
  BY <1>1, <1>3 DEF IInv, Typed
<1>6. workOf[m] = "waiting"
  BY <1>4, WorkNow
<1>7. workOf'[m] = c
  BY <1>5, WorkNext
<1>8. workOf' = [workOf EXCEPT ![m] = workOf'[m]]
  <2>1. \A d \in Consumers, n \in Messages : n # m => (holds'[d] = n <=> holds[d] = n)
    BY <1>1, <1>5 DEF QueueCallersAssumption
  <2> QED  BY <1>1, <2>1, OneMoves
<1>9. KeyOf[c] = KeyOf[m] /\ \A n \in Messages : workOf[n] # c
  BY <1>1, <1>4, SameKey, IdleFree
<1> QED  BY <1>6, <1>7, <1>8, <1>9 DEF Promise!Begin

LEMMA HandleRefines ==
  ASSUME QueueCallersAssumption, IInv, IInv', NEW c \in Consumers, Handle(c)
  PROVE  \E m \in Messages : Promise!Succeed(m)
<1>1. PICK m \in Messages : m = holds[c]
  BY DEF Handle, IInv, Typed
<1>2. /\ handled' = handled \cup {m} /\ caller' = caller
      /\ holds' = [holds EXCEPT ![c] = NoMessage]
  BY <1>1 DEF Handle, lookup
<1>3. \A d \in Consumers : /\ d # c => holds'[d] = holds[d] /\ holds[d] # m
                           /\ d = c => holds'[d] = NoMessage
  BY <1>1, <1>2 DEF IInv, Typed, OnePlace, QueueCallersAssumption
<1>4. workOf[m] = c
  BY <1>1, WorkNow
<1>5. workOf'[m] = "handled"
  <2>1. \A d \in Consumers : holds'[d] # m
    BY <1>3 DEF QueueCallersAssumption
  <2> QED  BY <1>2, <2>1, WorkNext
<1>6. workOf' = [workOf EXCEPT ![m] = workOf'[m]]
  <2>1. \A d \in Consumers, n \in Messages : n # m => (holds'[d] = n <=> holds[d] = n)
    BY <1>1, <1>3 DEF QueueCallersAssumption
  <2> QED  BY <1>2, <2>1, OneMoves
<1> QED  BY <1>4, <1>5, <1>6 DEF Promise!Succeed

LEMMA PutBackRefines ==
  ASSUME QueueCallersAssumption, IInv, IInv', NEW c \in Consumers, PutBack(c)
  PROVE  \E m \in Messages : Promise!GiveBack(m)
<1>1. PICK m \in Messages : m = holds[c]
  BY DEF PutBack, IInv, Typed, OnePlace
<1>2. /\ handled' = handled /\ caller' = caller
      /\ holds' = [holds EXCEPT ![c] = NoMessage]
  BY <1>1 DEF PutBack, lookup
<1>3. \A d \in Consumers : /\ d # c => holds'[d] = holds[d] /\ holds[d] # m
                           /\ d = c => holds'[d] = NoMessage
  BY <1>1, <1>2 DEF IInv, Typed, OnePlace, QueueCallersAssumption
<1>4. caller[m] = "sent" /\ m \notin handled
  BY <1>1 DEF IInv, OnePlace, QueueCallersAssumption
<1>5. workOf[m] = c
  BY <1>1, WorkNow
<1>6. workOf'[m] = "waiting"
  <2>1. \A d \in Consumers : holds'[d] # m
    BY <1>3 DEF QueueCallersAssumption
  <2> QED  BY <1>2, <1>4, <2>1, WorkNext
<1>7. workOf' = [workOf EXCEPT ![m] = workOf'[m]]
  <2>1. \A d \in Consumers, n \in Messages : n # m => (holds'[d] = n <=> holds[d] = n)
    BY <1>1, <1>3 DEF QueueCallersAssumption
  <2> QED  BY <1>2, <2>1, OneMoves
<1> QED  BY <1>5, <1>6, <1>7 DEF Promise!GiveBack

LEMMA PutBackToRefines ==
  ASSUME QueueCallersAssumption, IInv, IInv', NEW c \in Consumers, NEW d \in Consumers,
         PutBackTo(c, d)
  PROVE  \E m \in Messages : Promise!GiveBack(m)
<1>1. PICK m \in Messages : m = holds[c]
  BY DEF PutBackTo, IInv, Typed, OnePlace
<1>2. /\ c # d /\ c \in Callers /\ d \in Callers /\ m \in Callers
      /\ caller[d] = "ready" /\ holds[d] = NoMessage /\ of[d] = of[c]
      /\ handled' = handled /\ caller' = caller
      /\ holds' = [holds EXCEPT ![c] = NoMessage, ![d] = m]
  BY <1>1 DEF PutBackTo, Idle, lookup, Callers, QueueCallersAssumption
<1>3. \A e \in Consumers : /\ e \notin {c, d} => holds'[e] = holds[e] /\ holds[e] # m
                           /\ e = c => holds'[e] = NoMessage
                           /\ e = d => holds'[e] = m
  BY <1>1, <1>2 DEF IInv, Typed, OnePlace, QueueCallersAssumption
<1>4. of[m] = of[d]
  BY <1>1, <1>2 DEF IInv, OnePlace, QueueCallersAssumption
<1>5. workOf[m] = c
  BY <1>1, WorkNow
<1>6. workOf'[m] = d
  BY <1>3, WorkNext
<1>7. workOf' = [workOf EXCEPT ![m] = workOf'[m]]
  <2>1. \A e \in Consumers, n \in Messages : n # m => (holds'[e] = n <=> holds[e] = n)
    BY <1>1, <1>2, <1>3 DEF QueueCallersAssumption
  <2> QED  BY <1>2, <2>1, OneMoves
<1>8. KeyOf[d] = KeyOf[m] /\ \A n \in Messages : workOf[n] # d
  BY <1>2, <1>4, SameKey, IdleFree
<1> QED  BY <1>5, <1>6, <1>7, <1>8 DEF Promise!GiveBack

LEMMA LookupRefines ==
  ASSUME QueueCallersAssumption, IInv, IInv', NEW p \in Callers, Load(p) \/ Store(p)
  PROVE  workOf' = workOf
<1>1. /\ caller[p] \in {"new", "missing"} /\ holds' = holds /\ handled' = handled
      /\ \E at \in {"ready", "missing"} : caller' = [caller EXCEPT ![p] = at]
  BY DEF Load, Store
<1>2. \A m \in Messages : caller'[m] = "sent" <=> caller[m] = "sent"
  BY <1>1 DEF IInv, Typed, Callers
<1> QED  BY <1>1, <1>2, QuietStep

LEMMA NextRefines ==
  ASSUME QueueCallersAssumption, IInv, IInv', [Next]_vars
  PROVE  [Promise!Next]_workOf
<1>1. ASSUME NEW p \in Callers, Load(p) \/ Store(p) PROVE workOf' = workOf
  BY <1>1, LookupRefines
<1>2. ASSUME NEW m \in Messages, Publish(m) PROVE [Promise!Next]_workOf
  <2>1. CASE Load(m) \/ Store(m)
    BY <1>1, <2>1 DEF Callers
  <2>2. CASE Send(m)
    BY <2>2, SendRefines DEF Promise!Next
  <2>3. CASE \E c \in Consumers : SendTo(m, c)
    BY <2>3, SendToRefines DEF Promise!Next
  <2> QED  BY <1>2, <2>1, <2>2, <2>3 DEF Publish
<1>3. ASSUME NEW c \in Consumers, Consumer(c) PROVE [Promise!Next]_workOf
  <2>1. CASE Load(c) \/ Store(c)
    BY <1>1, <2>1 DEF Callers
  <2>2. CASE Receive(c)
    BY <2>2, ReceiveRefines DEF Promise!Next
  <2>3. CASE Handle(c)
    BY <2>3, HandleRefines DEF Promise!Next
  <2>4. CASE Fail(c)
    BY <2>4, QuietStep DEF Fail, lookup
  <2>5. CASE PutBack(c)
    BY <2>5, PutBackRefines DEF Promise!Next
  <2>6. CASE \E d \in Consumers : PutBackTo(c, d)
    BY <2>6, PutBackToRefines DEF Promise!Next
  <2> QED  BY <1>3, <2>1, <2>2, <2>3, <2>4, <2>5, <2>6 DEF Consumer
<1>4. CASE Service \/ UNCHANGED vars
  BY <1>4, QuietStep DEF Service, vars, lookup
<1> QED  BY <1>2, <1>3, <1>4 DEF Next

LEMMA InitRefines ==
  ASSUME QueueCallersAssumption, Init
  PROVE  Promise!Init
<1>1. \A m \in Messages : workOf[m] = "unsent"
  <2>1. IInv
    BY InitCorrect
  <2>2. \A m \in Messages : /\ m \notin handled /\ caller[m] # "sent"
                            /\ \A c \in Consumers : holds[c] # m
    BY DEF Init, Callers, QueueCallersAssumption
  <2> QED  BY <2>1, <2>2, WorkNow
<1>2. workOf = [m \in Messages |-> workOf[m]]
  BY DEF workOf
<1> QED  BY <1>1, <1>2 DEF Promise!Init

-----------------------------------------------------------------------------
(* The type: what the invariant leaves out *)

\* No channel holds more than its capacity.
Bounded == \A q \in 1..made : Len(chan[q]) <= poolNum

Rest ==
  /\ blocked \subseteq Consumers /\ handled \subseteq Messages
  /\ errors \in [Messages -> 0..MaxErrors]
  /\ poolNum \in PoolNums /\ wait \in 0..1 /\ runner \in {"new", "waiting", "returned"}
  /\ runner = "new" => wait = 0

LEMMA RestInit ==
  ASSUME QueueSizesAssumption, Init PROVE Bounded /\ Rest
<1>1. errors \in [Messages -> 0..MaxErrors]
  BY DEF Init, QueueSizesAssumption
<1>2. Bounded
  BY DEF Init, Bounded
<1> QED  BY <1>1, <1>2 DEF Init, Rest

LEMMA BoundGets ==
  ASSUME IInv, Bounded, NEW q \in 1..made, NEW s \in Seq(Messages), Len(s) <= poolNum,
         chan' = [chan EXCEPT ![q] = s], UNCHANGED << made, poolNum >>
  PROVE  Bounded'
BY ChannelGets DEF Bounded

LEMMA SendBounded ==
  ASSUME QueueCallersAssumption, QueueSizesAssumption, IInv, Bounded, Rest,
         NEW p \in Callers, caller[p] = "ready", NEW m \in Messages, HasRoom(of[p]),
         chan' = [chan EXCEPT ![of[p]] = Append(@, m)], UNCHANGED << made, poolNum >>
  PROVE  Bounded'
<1>1. of[p] \in 1..made /\ chan[of[p]] \in Seq(Messages)
  BY ChannelOf
<1>2. PICK q \in 1..made : q = of[p]
  BY <1>1
<1>3. PICK s \in Seq(Messages) : s = Append(chan[q], m)
  <2>1. Append(chan[q], m) \in Seq(Messages)
    BY <1>1, <1>2
  <2> QED  BY <2>1
<1>4. poolNum \in Nat
  BY DEF Rest, QueueSizesAssumption
<1>5. Len(s) <= poolNum
  <2>1. Len(s) = Len(chan[q]) + 1 /\ Len(chan[q]) \in Nat
    BY <1>1, <1>2, <1>3
  <2>2. Len(chan[q]) < poolNum
    BY <1>2 DEF HasRoom
  <2> QED  BY <1>4, <2>1, <2>2
<1>6. chan' = [chan EXCEPT ![q] = s]
  BY <1>2, <1>3
<1> QED  BY <1>5, <1>6, BoundGets

LEMMA ReceiveBounded ==
  ASSUME QueueCallersAssumption, QueueSizesAssumption, IInv, Bounded, Rest,
         NEW c \in Consumers, Receive(c)
  PROVE  Bounded'
<1>1. /\ caller[c] = "ready" /\ c \in Callers /\ chan[of[c]] # << >>
      /\ chan' = [chan EXCEPT ![of[c]] = Tail(@)] /\ UNCHANGED << made, poolNum >>
  BY DEF Receive, Idle, Callers, lookup, service
<1>2. of[c] \in 1..made /\ chan[of[c]] \in Seq(Messages)
  BY <1>1, ChannelOf
<1>3. PICK q \in 1..made : q = of[c]
  BY <1>2
<1>4. PICK s \in Seq(Messages) : s = Tail(chan[q])
  <2>1. Tail(chan[q]) \in Seq(Messages)
    BY <1>1, <1>2, <1>3
  <2> QED  BY <2>1
<1>5. Len(s) <= poolNum
  <2>1. Len(s) = Len(chan[q]) - 1 /\ Len(chan[q]) \in Nat
    BY <1>1, <1>2, <1>3, <1>4
  <2>2. Len(chan[q]) <= poolNum /\ poolNum \in Nat
    BY DEF Bounded, Rest, QueueSizesAssumption
  <2> QED  BY <2>1, <2>2
<1>6. chan' = [chan EXCEPT ![q] = s]
  BY <1>1, <1>3, <1>4
<1> QED  BY <1>1, <1>5, <1>6, BoundGets

LEMMA StoreBounded ==
  ASSUME QueueSizesAssumption, IInv, Bounded, Rest, NEW p \in Callers, Store(p)
  PROVE  Bounded'
<1>1. /\ made' = made + 1 /\ chan' = Append(chan, << >>) /\ poolNum' = poolNum
  BY DEF Store, service
<1>2. made \in Nat /\ chan \in Seq(Seq(Messages)) /\ Len(chan) = made
  BY FunctionIsSequence DEF IInv, Typed
<1>3. \A q \in 1..made : chan'[q] = chan[q]
  BY <1>1, <1>2
<1>4. Len(chan'[made + 1]) = 0
  <2>1. chan'[made + 1] = << >>
    BY <1>1, <1>2
  <2> QED  BY <2>1
<1>5. poolNum \in Nat
  BY DEF Rest, QueueSizesAssumption
<1>6. ASSUME NEW q \in 1..made' PROVE Len(chan'[q]) <= poolNum'
  <2>1. CASE q = made + 1
    <3>1. poolNum' \in Nat
      BY <1>1, <1>5
    <3>2. Len(chan'[q]) = 0
      BY <1>4, <2>1
    <3> QED  BY <3>1, <3>2
  <2>2. CASE q # made + 1
    BY <1>1, <1>2, <1>3, <2>2 DEF Bounded
  <2> QED  BY <2>1, <2>2
<1> QED  BY <1>6 DEF Bounded

LEMMA NextBounded ==
  ASSUME QueueCallersAssumption, QueueSizesAssumption, IInv, Bounded, Rest, [Next]_vars
  PROVE  Bounded'
<1>1. ASSUME UNCHANGED << chan, made, poolNum >> PROVE Bounded'
  BY <1>1 DEF Bounded
<1>2. ASSUME NEW m \in Messages, Send(m) PROVE Bounded'
  <2>1. m \in Callers
    BY DEF Callers
  <2> QED  BY <1>2, <2>1, SendBounded DEF Send, service
<1>3. ASSUME NEW c \in Consumers, PutBack(c) PROVE Bounded'
  <2>1. /\ c \in Callers /\ caller[c] = "ready" /\ holds[c] \in Messages
    BY <1>3 DEF PutBack, Callers, IInv, Typed, OnePlace
  <2>2. PICK m \in Messages : m = holds[c]
    BY <2>1
  <2>3. /\ HasRoom(of[c]) /\ chan' = [chan EXCEPT ![of[c]] = Append(@, m)]
        /\ UNCHANGED << made, poolNum >>
    BY <1>3, <2>2 DEF PutBack, lookup, service
  <2> QED  BY <2>1, <2>3, SendBounded
<1>4. ASSUME NEW p \in Callers, Load(p) PROVE Bounded'
  BY <1>1, <1>4 DEF Load, service
<1>5. ASSUME NEW c \in Consumers,
             Handle(c) \/ Fail(c) \/ \E d \in Consumers : PutBackTo(c, d)
      PROVE  Bounded'
  BY <1>1, <1>5 DEF Handle, Fail, PutBackTo, lookup, service
<1>6. ASSUME NEW m \in Messages, \E c \in Consumers : SendTo(m, c) PROVE Bounded'
  BY <1>1, <1>6 DEF SendTo, service
<1>7. CASE Service \/ UNCHANGED vars
  BY <1>1, <1>7 DEF Service, vars, lookup, service
<1>8. \A p \in Messages \cup Consumers : p \in Callers
  BY DEF Callers
<1> QED  BY <1>2, <1>3, <1>4, <1>5, <1>6, <1>7, <1>8, StoreBounded, ReceiveBounded
         DEF Next, Publish, Consumer

LEMMA NextRest ==
  ASSUME QueueSizesAssumption, IInv, Rest, [Next]_vars
  PROVE  Rest'
<1>1. ASSUME UNCHANGED << errors, blocked, handled, poolNum, wait, runner >> PROVE Rest'
  BY <1>1 DEF Rest
<1>2. ASSUME NEW p \in Callers, Load(p) \/ Store(p) \/ Send(p) PROVE Rest'
  BY <1>1, <1>2 DEF Load, Store, Send, service
<1>3. ASSUME NEW c \in Consumers, Receive(c) PROVE Rest'
  BY <1>1, <1>3 DEF Receive, service
<1>4. ASSUME NEW m, NEW c, SendTo(m, c) PROVE Rest'
  BY <1>1, <1>4 DEF SendTo, service
<1>5. ASSUME NEW c \in Consumers, Handle(c) PROVE Rest'
  <2>1. holds[c] \in Messages
    BY <1>5 DEF Handle, IInv, Typed
  <2> QED  BY <1>5, <2>1 DEF Handle, Rest, service
<1>6. ASSUME NEW c \in Consumers, Fail(c) PROVE Rest'
  <2>1. holds[c] \in Messages
    BY <1>6 DEF Fail, IInv, Typed
  <2>2. PICK m \in Messages : m = holds[c]
    BY <2>1
  <2>3. errors[m] < MaxErrors /\ errors' = [errors EXCEPT ![m] = @ + 1]
    BY <1>6, <2>2 DEF Fail
  <2>4. errors' \in [Messages -> 0..MaxErrors]
    BY <2>3 DEF Rest, QueueSizesAssumption
  <2> QED  BY <1>6, <2>4 DEF Fail, Rest, service
<1>7. ASSUME NEW c \in Consumers, PutBack(c) \/ \E d \in Consumers : PutBackTo(c, d)
      PROVE  Rest'
  BY <1>7 DEF PutBack, PutBackTo, Rest, service
<1>8. CASE Service
  BY <1>8 DEF Service, Run, Shutdown, RunReturns, Rest
<1>9. CASE UNCHANGED vars
  BY <1>1, <1>9 DEF vars, service
<1>10. \A p \in Messages \cup Consumers : p \in Callers
  BY DEF Callers
<1> QED  BY <1>2, <1>3, <1>4, <1>5, <1>6, <1>7, <1>8, <1>9, <1>10
         DEF Next, Publish, Consumer

LEMMA TypesMean == ASSUME IInv, Bounded, Rest PROVE QueueTypeOK
<1>1. chan \in Seq(Seq(Messages)) /\ Len(chan) = made
  BY FunctionIsSequence DEF IInv, Typed
<1> QED  BY <1>1 DEF IInv, Typed, Bounded, Rest, QueueTypeOK

-----------------------------------------------------------------------------
\* The queue in memory keeps the promise of WorkQueue for any callers, keys and
\* capacity, with calls of Publish and Consumer looking queues up at the same time.
THEOREM MemoryQueueImplements ==
  ASSUME QueueCallersAssumption
  PROVE  Spec => ImplementsWorkQueue
<1>1. Init => IInv
  BY InitCorrect
<1>2. IInv /\ [Next]_vars => IInv'
  BY NextCorrect
<1>3. Init => Promise!Init
  BY InitRefines
<1>4. IInv /\ IInv' /\ [Next]_vars => [Promise!Next]_workOf
  BY NextRefines
<1> QED  BY <1>1, <1>2, <1>3, <1>4, PTL DEF Spec, ImplementsWorkQueue, Promise!Spec

=============================================================================
