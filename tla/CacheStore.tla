----------------------------- MODULE CacheStore -----------------------------
(***************************************************************************)
(* The caches of sdk/cache, one in memory and one in Redis, behind the     *)
(* interface core/cache/iCache.go, and the captcha store of pkg/captcha    *)
(* that is built on either.  The memory cache does Increase, Decrease and  *)
(* Expire in several calls of the library's cache, the Redis cache each    *)
(* with one command; the captcha store reads an answer and deletes it with *)
(* two calls of either.  The library's cache and Redis are external: a map *)
(* with expiry whose single calls are atomic; a Redis command may fail.    *)
(* The prefixes put before a key keep keys apart and are left out, as is   *)
(* HashGet and HashDel (Get and Del of a joined key: nothing sets a hash). *)
(***************************************************************************)
EXTENDS Integers

CONSTANTS Clients,   \* goroutines that use the cache
          MaxSets,   \* bound on the captchas made
          MaxCalls   \* bound on the calls of Increase and Decrease

\* The parameters are as Services assumes them.
CacheAssumption == MaxSets \in Nat /\ MaxCalls \in Nat

Counter == "counter"
Captcha == "captcha"
CacheKeys == {Counter, Captcha}
Values == (-MaxCalls..MaxCalls) \cup (1..MaxSets)
Absent == MaxCalls + MaxSets + 1  \* no value
Empty == 0                        \* the answer ""

VARIABLES
  redis,    \* the Redis cache, otherwise the memory cache
  value,    \* what the cache holds under each key
  ttl,      \* does it expire?
  at,       \* where each client is
  got,      \* what it has read: the value,
  left,     \*   and the time left: "none", "some", "gone"
  num,      \* what it adds, or the answer it verifies
  clear,    \* does it ask for the captcha to be deleted?
  sets,     \* captchas made; each has its number for an answer
  calls,    \* calls of Increase and Decrease begun
  exact,    \* history: the counter it should be
  clash,    \* history: a call changed the counter in the middle of another
  spent,    \* history: the captchas cleared by a call that has returned
  before,   \* history: those spent when the client's call began
  reused,   \* history: << captcha, answer >>: a call begun after the captcha was
            \*   spent was accepted with the answer, its own or the empty one
  undeleted \* history: those whose deletion failed

store == << redis, value, ttl >>
client == << at, got, left, num, clear >>
counting == << calls, exact, clash >>
captchas == << sets, spent, before, reused, undeleted >>
vars == << store, client, counting, captchas >>

Init ==
  /\ redis \in BOOLEAN
  /\ value = [k \in CacheKeys |-> IF k = Counter THEN 0 ELSE Absent]
  /\ ttl = [k \in CacheKeys |-> FALSE]
  /\ at = [c \in Clients |-> "idle"]
  /\ got = [c \in Clients |-> Absent]
  /\ left = [c \in Clients |-> "none"]
  /\ num = [c \in Clients |-> 0]
  /\ clear = [c \in Clients |-> FALSE]
  /\ sets = 0 /\ calls = 0 /\ exact = 0 /\ clash = FALSE
  /\ spent = {} /\ before = [c \in Clients |-> {}] /\ reused = {} /\ undeleted = {}

Goes(c, to) == at' = [at EXCEPT ![c] = to]

Put(k, v, expires) ==
  /\ redis' = redis
  /\ value' = [value EXCEPT ![k] = v]
  /\ ttl' = [ttl EXCEPT ![k] = expires /\ v # Absent]

\* Time passes: what has a deadline reaches it.
Lapse(k) ==
  /\ value[k] # Absent /\ ttl[k]
  /\ Put(k, Absent, FALSE)
  /\ clash' = (clash \/ k = Counter)
  /\ UNCHANGED << client, calls, exact, captchas >>

-----------------------------------------------------------------------------
(* Increase and Decrease, here by n; Expire, here by 0 *)

Updating(c) == at[c] \in {"getexpire", "set", "setexpire"}

\* Redis: INCR, DECR and EXPIRE. INCR makes the key when there is none.
RedisCalculate(c, n) ==
  /\ redis
  /\ at[c] = "idle" /\ calls < MaxCalls
  /\ Put(Counter, (IF value[Counter] = Absent THEN 0 ELSE value[Counter]) + n, ttl[Counter])
  /\ calls' = calls + 1 /\ exact' = exact + n
  /\ UNCHANGED << client, clash, captchas >>

RedisExpire(c) ==
  /\ redis
  /\ at[c] = "idle" /\ value[Counter] # Absent
  /\ ttl' = [ttl EXCEPT ![Counter] = TRUE]
  /\ UNCHANGED << redis, value, client, counting, captchas >>

\* getItem; a missing key is an error
GetItem(c, n, next) ==
  /\ ~redis
  /\ at[c] = "idle" /\ calls < MaxCalls
  /\ value[Counter] # Absent
  /\ got' = [got EXCEPT ![c] = value[Counter]]
  /\ num' = [num EXCEPT ![c] = n]
  /\ Goes(c, next)
  /\ calls' = calls + 1
  /\ UNCHANGED << store, left, clear, exact, clash, captchas >>

GetExpire(c) ==
  /\ at[c] = "getexpire"
  /\ left' = [left EXCEPT ![c] = IF value[Counter] = Absent THEN "gone"
                                 ELSE IF ttl[Counter] THEN "some" ELSE "none"]
  /\ Goes(c, "set")
  /\ UNCHANGED << store, got, num, clear, counting, captchas >>

\* A bug to detect: what is decreased is increased.
SumOfOnes(c) == got[c] + (IF num[c] = 0 THEN 0 ELSE 1)

Sum(c) == got[c] + num[c]

\* What has the time left of a key that is gone is gone itself.
SetItem(c) ==
  /\ at[c] \in {"set", "setexpire"}
  /\ \/ /\ at[c] = "set" /\ left[c] = "gone"
        /\ Put(Counter, Absent, FALSE)
     \/ /\ at[c] = "set" /\ left[c] # "gone"
        /\ Put(Counter, Sum(c), left[c] = "some")
     \/ /\ at[c] = "setexpire"
        /\ Put(Counter, got[c], TRUE)
  /\ exact' = exact + num[c]
  /\ clash' = (clash \/ \E d \in Clients \ {c} : Updating(d))
  /\ Goes(c, "idle")
  /\ got' = [got EXCEPT ![c] = Absent]
  /\ num' = [num EXCEPT ![c] = 0]
  /\ left' = [left EXCEPT ![c] = "none"]
  /\ UNCHANGED << clear, calls, captchas >>

Update(c) ==
  \/ \E n \in {1, -1} : RedisCalculate(c, n) \/ GetItem(c, n, "getexpire")
  \/ RedisExpire(c) \/ GetItem(c, 0, "setexpire")
  \/ GetExpire(c) \/ SetItem(c)

-----------------------------------------------------------------------------
(* The captcha store *)

\* cacheStore.Set, each time with a new answer
SetCaptcha ==
  /\ sets < MaxSets
  /\ sets' = sets + 1
  /\ Put(Captcha, sets + 1, TRUE)
  /\ UNCHANGED << client, counting, spent, before, reused, undeleted >>

\* A bug to detect: the captcha is deleted when the answer was right only.
AfterGetIfRight(answer, clr) ==
  IF clr /\ value[Captcha] = answer THEN "delete" ELSE "compare"

AfterGet(answer, clr) == IF clr THEN "delete" ELSE "compare"

\* Verify(id, answer, clear): it calls Get, and that the cache.
VerifyGet(c, answer, clr) ==
  /\ at[c] = "idle"
  /\ num' = [num EXCEPT ![c] = answer]
  /\ clear' = [clear EXCEPT ![c] = clr]
  /\ before' = [before EXCEPT ![c] = spent]
  /\ \/ /\ got' = [got EXCEPT ![c] = value[Captcha]]
        /\ Goes(c, AfterGet(answer, clr))
     \/ /\ redis                       \* the command fails: Get returns ""
        /\ got' = [got EXCEPT ![c] = Absent]
        /\ Goes(c, "compare")
  /\ UNCHANGED << store, left, counting, sets, spent, reused, undeleted >>

\* The error of Del is dropped.
VerifyDel(c) ==
  /\ at[c] = "delete"
  /\ \/ Put(Captcha, Absent, FALSE) /\ undeleted' = undeleted
     \/ /\ redis
        /\ undeleted' = undeleted \cup ({got[c]} \ {Absent})
        /\ UNCHANGED store
  /\ Goes(c, "compare")
  /\ UNCHANGED << got, left, num, clear, counting, sets, spent, before, reused >>

\* e.Get(id, clear) == answer; a captcha that is not there reads as ""
Accepts(c) == (IF got[c] = Absent THEN Empty ELSE got[c]) = num[c]

VerifyReturn(c) ==
  /\ at[c] = "compare"
  /\ Goes(c, "idle")
  /\ spent' = IF clear[c] /\ got[c] # Absent THEN spent \cup {got[c]} ELSE spent
  /\ reused' = reused \cup
       {p \in before[c] \X {num[c]} : Accepts(c) /\ num[c] \in {p[1], Empty}}
  /\ got' = [got EXCEPT ![c] = Absent]
  /\ num' = [num EXCEPT ![c] = 0]
  /\ clear' = [clear EXCEPT ![c] = FALSE]
  /\ before' = [before EXCEPT ![c] = {}]
  /\ UNCHANGED << store, left, counting, sets, undeleted >>

Verify(c) ==
  \/ \E answer \in 0..MaxSets, clr \in BOOLEAN : VerifyGet(c, answer, clr)
  \/ VerifyDel(c) \/ VerifyReturn(c)

-----------------------------------------------------------------------------
Next == \/ \E k \in CacheKeys : Lapse(k)
        \/ \E c \in Clients : Update(c) \/ Verify(c)
        \/ SetCaptcha

Spec == Init /\ [][Next]_vars

-----------------------------------------------------------------------------
(* The properties *)

CacheTypeOK ==
  /\ redis \in BOOLEAN
  /\ value \in [CacheKeys -> Values \cup {Absent}]
  /\ ttl \in [CacheKeys -> BOOLEAN]
  /\ at \in [Clients -> {"idle", "getexpire", "set", "setexpire", "delete", "compare"}]
  /\ got \in [Clients -> Values \cup {Absent}]
  /\ left \in [Clients -> {"none", "some", "gone"}]
  /\ num \in [Clients -> {-1, 1} \cup (0..MaxSets)]
  /\ clear \in [Clients -> BOOLEAN]
  /\ sets \in 0..MaxSets /\ calls \in 0..MaxCalls
  /\ spent \cup undeleted \subseteq 1..MaxSets
  /\ reused \subseteq (1..MaxSets) \X (0..MaxSets)

\* Increase, Decrease and Expire that do not overlap, on a key that does not
\* expire meanwhile, add up in either cache, and in Redis also when they do.
CounterExact == ~clash => value[Counter] = exact

\* The answer of a captcha that a call asked to be cleared is accepted by no
\* call made after that one has returned, right or wrong as its answer was,
\* unless Redis failed the deletion, whose error the store drops.  (Calls at the
\* same time may both be accepted: the store reads and then deletes.)  What such
\* a call does accept is the empty answer, as a captcha that is not there, or
\* that Redis fails to read, reads as "".
SpentIsSpent ==
  \A p \in reused : p[2] # Empty => p[1] \in undeleted
=============================================================================
