------------------------------ MODULE KeyCache ------------------------------
(***************************************************************************)
(* How Wson.Parser reads the strings of a stream.  The characters go into  *)
(* a buffer that the thread keeps from one parse to the next, and a key is *)
(* looked up in globalStringBytesCache, an array that all threads read and *)
(* write without a lock.                                                   *)
(*                                                                         *)
(* The array is not volatile: a thread that reads a slot may see any of    *)
(* the strings ever stored there, or the initial null.  So a slot is the   *)
(* set of what was stored in it, and a read chooses.                       *)
(***************************************************************************)
EXTENDS Naturals, Sequences

CONSTANTS
  Threads,
  Chars, Nul,    \* characters; the one a new array is filled with
  Texts,         \* the strings of the streams, without their encoding
  Slots, Index,  \* the slot for a text: the low bits of its hash
  CachedBelow,   \* only a shorter key is cached          (64)
  MinChars,      \* the least buffer created            (2048)
  Spare,         \* added to a larger one               (1024)
  PoolLimit      \* only a smaller buffer is kept      (16384)

ASSUME TextAssumption ==
  /\ Nul \in Chars
  /\ Texts \subseteq Seq(Chars)
  /\ Index \in [Texts -> Slots]
  /\ CachedBelow \in Nat /\ MinChars \in Nat \ {0}
  /\ Spare \in Nat /\ PoolLimit \in Nat

VARIABLES
  stored,  \* slot -> the texts stored there so far
  pool,    \* thread -> localCharsBufferCache, <<>> for none
  chars,   \* thread -> charsBuffer of its parser, <<>> for none
  pc,      \* thread -> "idle", "parsing", or where it is in readMapKeyUTF16
  text,    \* thread -> the string in the stream that is read, or was last
  seen,    \* thread -> {} or {what was found in the slot}
  got      \* thread -> {} or {the string returned for text}

keyVars == <<stored, pool, chars, pc, text, seen, got>>

-----------------------------------------------------------------------------
NewChars(length) == [i \in 1..length |-> Nul]

(* The parser's own buffer, or the pooled one, or a new one; and another   *)
(* new one if it is too short.                                             *)
EnsureCharBuffer(t, length) ==
  LET some == IF chars[t] # <<>> THEN chars[t]
              ELSE IF pool[t] # <<>> THEN pool[t]
              ELSE NewChars(IF length > MinChars THEN length + Spare ELSE MinChars)
  IN  IF Len(some) < length THEN NewChars(length) ELSE some

(* The buffer after the text was copied: what is behind it is stale. *)
Filled(buffer, txt) ==
  [i \in 1..Len(buffer) |-> IF i <= Len(txt) THEN txt[i] ELSE buffer[i]]

(* Read the characters of txt into the buffer, which leaves the pool. *)
Copy(t, txt) ==
  /\ chars' = [chars EXCEPT ![t] = Filled(EnsureCharBuffer(t, Len(txt)), txt)]
  /\ pool' = [pool EXCEPT ![t] = IF chars[t] = <<>> THEN <<>> ELSE @]
  /\ text' = [text EXCEPT ![t] = txt]

Made(t) == SubSeq(chars[t], 1, Len(text[t]))

(* Mutant: the lengths are not compared.                                   *)
SamePrefix(t, known) ==
  \A i \in 1..Len(text[t]) : i \in DOMAIN known => chars[t][i] = known[i]

(* A hit: the same length, and the characters of the buffer up to there. *)
Same(t, known) ==
  /\ Len(known) = Len(text[t])
  /\ \A i \in 1..Len(text[t]) : chars[t][i] = known[i]

-----------------------------------------------------------------------------
Parse(t) ==
  /\ pc[t] = "idle"
  /\ pc' = [pc EXCEPT ![t] = "parsing"]
  /\ UNCHANGED <<stored, pool, chars, text, seen, got>>

(* readUTF16String: no other thread has part in it. *)
ReadString(t) ==
  /\ pc[t] = "parsing"
  /\ \E txt \in Texts :
       /\ Copy(t, txt)
       /\ got' = [got EXCEPT ![t] = {SubSeq(chars'[t], 1, Len(txt))}]
  /\ UNCHANGED <<stored, pc, seen>>

(* readMapKeyUTF16: the characters and their hash, *)
ReadKey(t) ==
  /\ pc[t] = "parsing"
  /\ \E txt \in Texts : Copy(t, txt)
  /\ pc' = [pc EXCEPT ![t] = "probe"]
  /\ got' = [got EXCEPT ![t] = {}]
  /\ UNCHANGED <<stored, seen>>

(* the slot, read once, *)
Probe(t) ==
  /\ pc[t] = "probe"
  /\ \E found \in {{}} \cup {{txt} : txt \in stored[Index[text[t]]]} :
       seen' = [seen EXCEPT ![t] = found]
  /\ pc' = [pc EXCEPT ![t] = "compare"]
  /\ UNCHANGED <<stored, pool, chars, text, got>>

(* a hit, which returns the cached string, *)
KeyHit(t) ==
  /\ pc[t] = "compare"
  /\ \E known \in seen[t] : Same(t, known)
  /\ got' = [got EXCEPT ![t] = seen[t]]
  /\ seen' = [seen EXCEPT ![t] = {}]
  /\ pc' = [pc EXCEPT ![t] = "parsing"]
  /\ UNCHANGED <<stored, pool, chars, text>>

(* Mutant: a key of any length is stored.                                  *)
MissUnlimited(t) ==
  /\ pc[t] = "compare"
  /\ \A known \in seen[t] : ~Same(t, known)
  /\ stored' = [stored EXCEPT ![Index[text[t]]] = @ \cup {Made(t)}]
  /\ got' = [got EXCEPT ![t] = {Made(t)}]
  /\ seen' = [seen EXCEPT ![t] = {}]
  /\ pc' = [pc EXCEPT ![t] = "parsing"]
  /\ UNCHANGED <<pool, chars, text>>

(* or a new string, which takes the slot if it is short. *)
KeyMiss(t) ==
  /\ pc[t] = "compare"
  /\ \A known \in seen[t] : ~Same(t, known)
  /\ stored' = IF Len(text[t]) < CachedBelow
               THEN [stored EXCEPT ![Index[text[t]]] = @ \cup {Made(t)}]
               ELSE stored
  /\ got' = [got EXCEPT ![t] = {Made(t)}]
  /\ seen' = [seen EXCEPT ![t] = {}]
  /\ pc' = [pc EXCEPT ![t] = "parsing"]
  /\ UNCHANGED <<pool, chars, text>>

(* The end of a parse: a buffer that is not too large goes to the pool. *)
Close(t) ==
  /\ pc[t] = "parsing"
  /\ pool' = [pool EXCEPT ![t] =
                IF chars[t] # <<>> /\ Len(chars[t]) < PoolLimit THEN chars[t] ELSE @]
  /\ chars' = [chars EXCEPT ![t] = <<>>]
  /\ got' = [got EXCEPT ![t] = {}]
  /\ pc' = [pc EXCEPT ![t] = "idle"]
  /\ UNCHANGED <<stored, text, seen>>

(* An exception in the middle of it: close() is not reached, and the       *)
(* buffer is lost to the pool.                                             *)
Fail(t) ==
  /\ pc[t] = "parsing"
  /\ chars' = [chars EXCEPT ![t] = <<>>]
  /\ got' = [got EXCEPT ![t] = {}]
  /\ pc' = [pc EXCEPT ![t] = "idle"]
  /\ UNCHANGED <<stored, pool, text, seen>>

(* Mutant: a parser, too, has only a weak reference.                       *)
CollectInUse(t) ==
  /\ chars' = [chars EXCEPT ![t] = <<>>]
  /\ UNCHANGED <<stored, pool, pc, text, seen, got>>

(* The collector clears the weak reference to a pooled buffer. *)
Collect(t) ==
  /\ pool' = [pool EXCEPT ![t] = <<>>]
  /\ UNCHANGED <<stored, chars, pc, text, seen, got>>

KeyInit ==
  /\ stored = [s \in Slots |-> {}]
  /\ pool = [t \in Threads |-> <<>>]
  /\ chars = [t \in Threads |-> <<>>]
  /\ pc = [t \in Threads |-> "idle"]
  /\ text = [t \in Threads |-> <<>>]
  /\ seen = [t \in Threads |-> {}]
  /\ got = [t \in Threads |-> {}]

Step(t) ==
  \/ Parse(t) \/ ReadString(t) \/ ReadKey(t) \/ Probe(t)
  \/ KeyHit(t) \/ KeyMiss(t)
  \/ Close(t) \/ Fail(t) \/ Collect(t)

KeyNext == \E t \in Threads : Step(t)

KeySpec == KeyInit /\ [][KeyNext]_keyVars

-----------------------------------------------------------------------------
(* Properties.                                                             *)

(* The shapes of the state; while a key is looked up its characters are in *)
(* the buffer.                                                             *)
KeyTypeOK ==
  /\ stored \in [Slots -> SUBSET Seq(Chars)]
  /\ pool \in [Threads -> Seq(Chars)]
  /\ chars \in [Threads -> Seq(Chars)]
  /\ pc \in [Threads -> {"idle", "parsing", "probe", "compare"}]
  /\ text \in [Threads -> Seq(Chars)]
  /\ seen \in [Threads -> SUBSET Seq(Chars)]
  /\ got \in [Threads -> SUBSET Seq(Chars)]
  /\ \A t \in Threads : pc[t] \in {"probe", "compare"} =>
        Len(text[t]) <= Len(chars[t])

(* A string the parser returns is the one in the stream, whatever other    *)
(* threads store in the slot meanwhile, whichever of their stores this one *)
(* sees, and whatever an earlier string or parse left in the buffer        *)
(* (Wson.Parser.readMapKeyUTF16, readUTF16String).                         *)
AsInStream == \A t \in Threads : got[t] \subseteq {text[t]}

(* The shared array never keeps a long key alive, and a slot holds only    *)
(* keys that are looked up there: what a stream of all different or very   *)
(* long keys can pin is bounded (Wson.Parser.readMapKeyUTF16).             *)
CacheBounded ==
  \A s \in Slots : \A txt \in stored[s] :
    /\ txt \in Texts /\ Index[txt] = s
    /\ Len(txt) < CachedBelow
=============================================================================
