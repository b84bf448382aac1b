------------------------------- MODULE Parser -------------------------------
(***************************************************************************)
(* The username parameters (internal/parser): what follows "__" in the     *)
(* proxy username, as the sequence of its items "key.value".               *)
(*                                                                         *)
(* An item is [key, value]; the value None is the empty one and an item    *)
(* without a dot has a key nobody knows.  A sessttl that strconv.Atoi does *)
(* not accept, or that is not positive, is 0 here: all are ignored.        *)
(***************************************************************************)
EXTENDS Integers, Sequences

CONSTANTS
    None,
    AnyCountry,     \* Params.Country = "": no cr item
    Folded,         \* strings.ToLower where it changes a value, as a function
    Minute,         \* time.Minute
    MaxDuration     \* the largest time.Duration

ToLower(v) == IF v \in DOMAIN Folded THEN Folded[v] ELSE v

\* Multiplication of a time.Duration, a signed integer that wraps.
Wrap(d) == ((d + MaxDuration + 1) % (2 * (MaxDuration + 1))) - (MaxDuration + 1)

\* The value of the last item with this key that is not skipped.
ValueOf(items, key, Skip, default) ==
    LET given == {j \in DOMAIN items :
                     /\ ToLower(items[j].key) = key
                     /\ items[j].value \notin Skip \cup {None}}
    IN  IF given = {} THEN default
        ELSE items[CHOOSE j \in given : \A k \in given : k <= j].value

\* Params.
Parse(items) ==
    LET minutes == ValueOf(items, "sessttl", {0}, 0)
    IN  [country   |-> ToLower(ValueOf(items, "cr", {}, AnyCountry)),
         sessionID |-> ValueOf(items, "sessid", {}, None),
         ttl       |-> Wrap(minutes * Minute)]

IsSticky(params) == params.sessionID # None
=============================================================================
