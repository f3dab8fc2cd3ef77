---------------------------- MODULE OpenOptions ----------------------------
(***************************************************************************)
(* What a caller may ask an open for, and what becomes of it on its way to *)
(* the engine: the JNI vector of embedded-mongodb-android/src/options.rs,  *)
(* the newtypes and the C struct of embedded-mongodb-sys/src/options.rs,   *)
(* and the session policy of src/options.rs.                               *)
(*                                                                         *)
(* An Option is a set of at most one element.  A Result is an Option too:  *)
(* the empty set is the refusal, whose wording is left out.  The widths    *)
(* and the ranges are constants, so that a small instance has values on    *)
(* both sides of every bound.                                              *)
(***************************************************************************)
EXTENDS Integers, Sequences

CONSTANTS
    U32Max,                \* u32::MAX; a jlong slot holds values on both sides of 0..U32Max
    MaxCacheMebibytes,     \* CacheSize::MAX_MEBIBYTES
    MinJournalKibibytes,   \* JournalFileSize::MIN_KIBIBYTES
    MaxJournalKibibytes,   \* JournalFileSize::MAX_KIBIBYTES
    MaxCount,              \* Concurrency::MAX_COUNT
    DefaultCount           \* Concurrency::DEFAULT_COUNT

\* The ranges the source states: every limit is a u32, none of them admits the
\* zero that means "unset", and the default policy is one from_count accepts.
ASSUME OptionsAssumption ==
    /\ {U32Max, MaxCacheMebibytes, MinJournalKibibytes, MaxJournalKibibytes,
        MaxCount, DefaultCount} \subseteq Nat \ {0}
    /\ {MaxCacheMebibytes, MaxJournalKibibytes, MaxCount} \subseteq 1..U32Max
    /\ DefaultCount <= MaxCount

SLOTS == 3

Some(x) == {x}
None == {}

\* check_range, and every newtype built on it: the value, or a refusal.
CheckRange(value, low, high) == {v \in {value} : low <= v /\ v <= high}

CacheSize(mebibytes) == CheckRange(mebibytes, 1, MaxCacheMebibytes)

JournalFileSize(kibibytes) ==
    CheckRange(kibibytes, MinJournalKibibytes, MaxJournalKibibytes)

Preallocations == {"Enabled", "Disabled"}

\* Preallocation::native: zero is reserved for "unset".
PreallocationNative(p) == IF p = "Enabled" THEN 1 ELSE 2

\* EngineOptions::to_ffi: zero is the engine's default in every field.
ToFfi(options) ==
    << IF options.cache = None THEN 0 ELSE CHOOSE m \in options.cache : TRUE,
       IF options.journal = None THEN 0 ELSE CHOOSE k \in options.journal : TRUE,
       IF options.preallocation = None
         THEN 0 ELSE PreallocationNative(CHOOSE p \in options.preallocation : TRUE) >>

-----------------------------------------------------------------------------
(* The JNI vector *)

\* read_slots: as many slots as this build knows, the rest unset.
ReadSlots(vector) ==
    [i \in 1..SLOTS |-> IF i <= Len(vector) THEN vector[i] ELSE 0]

\* size_slot: zero asks for nothing, and a value that is no u32 is refused.
SlotIsUnset(value) == value = 0
SlotIsU32(value) == value \in 0..U32Max

\* PreallocationSlot::read and ::requested.
PreallocationRequested(value) ==
    CASE value = 1 -> Some("Enabled")
      [] value = 2 -> Some("Disabled")
      [] OTHER -> None

\* Whether a size slot is accepted: unset, or a u32 its newtype takes.
SizeAccepted(value, newtype) ==
    \/ SlotIsUnset(value)
    \/ SlotIsU32(value) /\ newtype # None

\* open_options: refused unless every slot is accepted.
SlotsAccepted(vector) ==
    LET slots == ReadSlots(vector)
    IN  /\ SizeAccepted(slots[1], CacheSize(slots[1]))
        /\ SizeAccepted(slots[2], JournalFileSize(slots[2]))
        /\ slots[3] \in 0..2

EngineOptionsOf(vector) ==
    LET slots == ReadSlots(vector)
    IN  [cache         |-> IF SlotIsUnset(slots[1]) THEN None ELSE CacheSize(slots[1]),
         journal       |-> IF SlotIsUnset(slots[2]) THEN None ELSE JournalFileSize(slots[2]),
         preallocation |-> PreallocationRequested(slots[3])]

-----------------------------------------------------------------------------
(* The session policy *)

\* Concurrency::preallocated, the fixed pool.
Preallocated(count) == [min |-> count, max |-> count, idle |-> None]

\* Concurrency::from_count.
FromCount(count) == {Preallocated(c) : c \in CheckRange(count, 1, MaxCount)}

\* u32::try_from(idle_timeout.as_millis()).unwrap_or(u32::MAX).
SaturatedMillis(millis) == IF millis > U32Max THEN U32Max ELSE millis

\* (Slip: a floor equal to the ceiling keeps its idle timeout.)
Dynamic_AlwaysReaps(min, max, millis) ==
    IF /\ CheckRange(max, 1, MaxCount) # None
       /\ CheckRange(min, 1, max) # None
       /\ CheckRange(SaturatedMillis(millis), 1, U32Max) # None
    THEN Some([min |-> min, max |-> max, idle |-> Some(millis)])
    ELSE None

\* Concurrency::dynamic.  The floor is checked against the ceiling just
\* validated, and a pool with no room above its floor is a fixed one.
Dynamic(min, max, millis) ==
    LET accepted == /\ CheckRange(max, 1, MaxCount) # None
                    /\ CheckRange(min, 1, max) # None
                    /\ CheckRange(SaturatedMillis(millis), 1, U32Max) # None
    IN  IF ~accepted THEN None
        ELSE IF min = max THEN Some(Preallocated(min))
        ELSE Some([min |-> min, max |-> max, idle |-> Some(millis)])

\* OpenOptions::resolve_concurrency: what was asked for, or the default.
ResolveConcurrency(asked) ==
    IF asked = None THEN Preallocated(DefaultCount) ELSE CHOOSE p \in asked : TRUE

=============================================================================
