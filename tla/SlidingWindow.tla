---------------------------- MODULE SlidingWindow ----------------------------
(***************************************************************************)
(* The eviction loops shared by homelink/core/rate_limiter.py and          *)
(* homelink/crypto/nonce_cache.py, over a sequence of time stamps kept in  *)
(* the order in which they were appended.                                  *)
(*                                                                         *)
(* Both loops look only at the oldest entry and stop at the first one that *)
(* is still inside the window.  How many entries go is therefore given by  *)
(* a predicate on the number k of popped entries; exactly one k satisfies  *)
(* it for every sequence and every cutoff.                                 *)
(***************************************************************************)
EXTENDS Integers, Sequences

(* What is left of s after its first k entries are popped.                 *)
DropFirst(s, k) == SubSeq(s, k + 1, Len(s))

(* `while s and s[0] < cutoff: s.popleft()` pops exactly k entries.        *)
PopsExpired(s, cutoff, k) ==
  /\ k \in 0..Len(s)
  /\ \A i \in 1..k : s[i] < cutoff
  /\ k < Len(s) => s[k + 1] >= cutoff

PopsForCapacityOneMore(s, cap) ==
  IF Len(s) + 1 >= cap THEN Len(s) + 2 - cap ELSE 0

(* `while len(s) >= cap: s.popitem(last=False)` pops this many entries.    *)
PopsForCapacity(s, cap) == IF Len(s) >= cap THEN Len(s) - cap + 1 ELSE 0

(* The admission test of RateLimiter.is_allowed on an evicted bucket.      *)
HasRoom(s, max) == Len(s) < max

=============================================================================
