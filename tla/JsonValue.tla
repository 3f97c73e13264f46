------------------------------ MODULE JsonValue ------------------------------
(***************************************************************************)
(* The values that configurations and results are made of, as far as the   *)
(* code tells them apart.  A value is a pair of its type and its content;  *)
(* an object is a function from its keys to values, so that a key that is  *)
(* absent and one that is null are different things, as in Python.         *)
(* Numbers are integers: metrics and thresholds are counted in hundredths. *)
(***************************************************************************)
EXTENDS Integers, Sequences

Null      == <<"null">>
NaN       == <<"nan">>
Inf       == <<"inf">>
Bool(b)   == <<"bool", b>>
Number(n) == <<"number", n>>
Text(s)   == <<"text", s>>
Object(f) == <<"object", f>>

Type(v) == v[1]
Content(v) == v[2]

(* dict.get(key) of an object's content: None when the key is absent.       *)
Get(f, key) == IF key \in DOMAIN f THEN f[key] ELSE Null

(* isinstance(v, (int, float)): a bool is an int.                           *)
IsNumeric(v) == Type(v) \in {"number", "bool", "nan", "inf"}

IsFinite(v) == Type(v) \in {"number", "bool"}

(* float(v) of a finite number.                                             *)
AsNumber(v) == IF Type(v) = "bool" THEN IF Content(v) THEN 100 ELSE 0 ELSE Content(v)

IsFalse(v) == v = Bool(FALSE)
IsTrue(v)  == v = Bool(TRUE)

(* bool(v).                                                                 *)
Truthy(v) ==
  \/ Type(v) \in {"nan", "inf"}
  \/ Type(v) = "bool" /\ Content(v)
  \/ Type(v) = "number" /\ Content(v) # 0
  \/ Type(v) = "text" /\ Content(v) # ""
  \/ Type(v) = "object" /\ DOMAIN Content(v) # {}

IsText(v) == Type(v) = "text" /\ Content(v) # ""

(* s.strip() leaves something; " " stands for any blank string.             *)
IsWord(v) == IsText(v) /\ Content(v) # " "
==============================================================================
