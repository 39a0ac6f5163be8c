---------------------------- MODULE CacheService ----------------------------
(***************************************************************************)
(* CacheService: a Map in memory whose entries expire.  An expired entry   *)
(* stays in the Map until a read of its key or the periodic cleanup drops  *)
(* it, so the age of an entry and its presence are separate matters.       *)
(* Ages are counted in ticks of a quarter of an hour and stop at Ttl + 1,  *)
(* the first age at which the entry is expired.                            *)
(***************************************************************************)
EXTENDS Integers, Functions

CONSTANTS
  Keys,     \* the keys the program uses
  Values,   \* what it stores under them, natural numbers
  Ttl       \* the lifetime of an entry, in ticks, at least one

VARIABLE cache   \* the Map: a function from the keys present

Entry == [value : Values, age : 0 .. Ttl + 1]

(* null, and what `value || default` treats like it. *)
Absent == 0

Expired(k) == k \in DOMAIN cache /\ cache[k].age > Ttl

(* Variant: expiry is left to the cleanup task. *)
GetUnexpired(k) == IF k \in DOMAIN cache THEN cache[k].value ELSE Absent

Get(k) == IF k \in DOMAIN cache /\ ~Expired(k) THEN cache[k].value ELSE Absent

(* What a read of the keys K leaves in the Map. *)
AfterReading(K) == Restrict(cache, DOMAIN cache \ {k \in K : Expired(k)})

SetAll(values) ==
  [k \in DOMAIN cache \cup DOMAIN values |->
     IF k \in DOMAIN values THEN [value |-> values[k], age |-> 0] ELSE cache[k]]

(* get, has and getByPattern drop the expired entries they meet; the       *)
(* cleanup task does it for every key.                                     *)
Read(K) == cache' = AfterReading(K)
Cleanup == Read(Keys)

TimePasses ==
  cache' = [k \in DOMAIN cache |-> [cache[k] EXCEPT !.age = IF @ > Ttl THEN @ ELSE @ + 1]]

CacheTypeOK ==
  /\ DOMAIN cache \subseteq Keys
  /\ \A k \in DOMAIN cache : cache[k] \in Entry
=============================================================================
