----------------------------- MODULE Bencoded -----------------------------
(* Bencoded values as the bencode library hands them over, and the helpers *)
(* of common/maybe.h that take them apart.  A value is a pair of its type  *)
(* and its content; the content of a dictionary is a function of its keys. *)
(* A Maybe is a sequence of at most one element, an Either a pair.  What   *)
(* throws is a third outcome: no caller catches it.                        *)
EXTENDS Sequences, Naturals

Bint(n) == <<"int", n>>
Bstring(s) == <<"str", s>>
Blist(seq) == <<"list", seq>>
Bdict(f) == <<"dict", f>>

None == <<>>
Some(x) == <<x>>
Left == <<"left">>
Right(x) == <<"right", x>>
Throws == <<"throws">>

(* bdict::find. *)
Find(dict, key) == IF key \in DOMAIN dict THEN Some(dict[key]) ELSE None

(* toMaybe(...).flatMap(toBint) and the like: nothing if the type differs. *)
As(type, maybe) ==
    IF maybe # None /\ maybe[1][1] = type THEN Some(maybe[1][2]) ELSE None

(* bdataToValueM: std::get throws if the type differs. *)
WrongType(type, maybe) == maybe # None /\ maybe[1][1] # type

FromMaybe(maybe, default) == IF maybe = None THEN default ELSE maybe[1]

IsRight(either) == either[1] = "right"

(* mmapVector: the values of all results, or the first result that is no  *)
(* value.                                                                   *)
MmapVector(results) ==
    LET failed == {i \in DOMAIN results : ~IsRight(results[i])}
        first == CHOOSE i \in failed : \A j \in failed : i <= j
    IN  IF failed = {} THEN Right([i \in DOMAIN results |-> results[i][2]]) ELSE results[first]

(* eitherOf: the first success. *)
EitherOf(e1, e2) == IF IsRight(e1) THEN e1 ELSE e2
=============================================================================
