----------------------------- MODULE Derivative -----------------------------
(***************************************************************************)
(* containers_allocators/containers.cpp: derivative of a polynomial, from  *)
(* text to text.  A term of a text is what one match of the regular        *)
(* expression yields: a sign, digits or none, an x or none, the digits of  *)
(* the power or none.  The result is again a sequence of terms.            *)
(***************************************************************************)
EXTENDS Integers, Sequences, FiniteSetsExt

CONSTANTS
    MaxTerms,   (* bound: terms of the polynomial                          *)
    MaxCoef,    (* bound: coefficients                                     *)
    MaxPow      (* bound: powers                                           *)

VARIABLES
    at,                 (* "sign", "match", "print", "returned", "thrown"  *)
    polynomial,         (* the argument, a sequence of terms               *)
    match,              (* matches that have been counted                  *)
    constant_by_pow,    (* [a finite set of powers -> Int]                 *)
    it,                 (* the powers that are still to be printed         *)
    result              (* the terms printed so far                        *)

polyVars == <<at, polynomial, match, constant_by_pow, it, result>>

None == -1      \* no digits

Terms ==
    {t \in [sign : {"+", "-", ""}, coef : {None} \union 0..MaxCoef,
            x : BOOLEAN, pow : {None} \union 0..MaxPow] :
        /\ t.pow # None => t.x
        /\ t.coef = None => t.x}

\* Only the first term may lack its sign.
Polynomials ==
    UNION {{text \in [1..m -> Terms] : \A k \in 2..m : text[k].sign # ""} :
              m \in 0..MaxTerms}

PolyInit(inputs) ==
    /\ polynomial \in inputs
    /\ at = "sign"
    /\ match = 0
    /\ constant_by_pow = <<>>
    /\ it = {}
    /\ result = <<>>

\* A missing sign is inserted; polynomial.at(0) of an empty text throws.
InsertSign ==
    /\ at = "sign"
    /\ \/ /\ polynomial = <<>>
          /\ at' = "thrown"
          /\ UNCHANGED polynomial
       \/ /\ polynomial # <<>>
          /\ at' = "match"
          /\ polynomial' = [polynomial EXCEPT ![1].sign = IF @ = "" THEN "+" ELSE @]
    /\ UNCHANGED <<match, constant_by_pow, it, result>>

string_to_int(digits, default_value) ==
    IF digits = None THEN default_value ELSE digits

Constant(t) ==
    (IF t.sign = "-" THEN -1 ELSE 1) * string_to_int(t.coef, 1)

Power(t) == string_to_int(t.pow, IF t.x THEN 1 ELSE 0)

\* Seeded fault: a later term replaces an earlier one with the same power.
Replaced(old, c) == c

Added(old, c) == old + c

\* constant_by_pow[pow] += constant
Count ==
    /\ at = "match"
    /\ match < Len(polynomial)
    /\ LET t == polynomial[match + 1]
           p == Power(t)
       IN  constant_by_pow' =
               [q \in DOMAIN constant_by_pow \union {p} |->
                   IF q \notin DOMAIN constant_by_pow THEN Constant(t)
                   ELSE IF q = p THEN Added(constant_by_pow[p], Constant(t))
                   ELSE constant_by_pow[q]]
    /\ match' = match + 1
    /\ UNCHANGED <<at, polynomial, it, result>>

AllCounted ==
    /\ at = "match"
    /\ match = Len(polynomial)
    /\ at' = "print"
    /\ it' = DOMAIN constant_by_pow
    /\ UNCHANGED <<polynomial, match, constant_by_pow, result>>

Abs(v) == IF v < 0 THEN -v ELSE v

\* The text of a term.  A number brings its own minus; without a number, and
\* before the first term, there is no sign but the plus of the term before.
Printed(pow, constant, first) ==
    LET add_x        == pow > 0
        add_constant == ~(add_x /\ Abs(constant) = 1)
    IN  [sign |-> IF constant >= 0 THEN IF first THEN "" ELSE "+"
                  ELSE IF add_constant THEN "-" ELSE "",
         coef |-> IF add_constant THEN Abs(constant) ELSE None,
         x    |-> add_x,
         pow  |-> IF pow > 1 THEN pow ELSE None]

\* One turn of the loop over the powers, from the greatest down.
PrintTerm ==
    /\ at = "print"
    /\ it # {}
    /\ LET p == Max(it)
       IN  /\ it' = it \ {p}
           /\ result' = IF p = 0 THEN result
                        ELSE Append(result, Printed(p - 1,
                                        p * constant_by_pow[p], result = <<>>))
    /\ UNCHANGED <<at, polynomial, match, constant_by_pow>>

Returns ==
    /\ at = "print"
    /\ it = {}
    /\ at' = "returned"
    /\ UNCHANGED <<polynomial, match, constant_by_pow, it, result>>

PolyNext == InsertSign \/ Count \/ AllCounted \/ PrintTerm \/ Returns
-----------------------------------------------------------------------------
\* The coefficients of power p in the first terms of a text, and in all of it.
Coefficients(text, p) ==
    LET upTo[k \in 0..Len(text)] ==
            IF k = 0 THEN 0
            ELSE upTo[k - 1] + (IF Power(text[k]) = p THEN Constant(text[k]) ELSE 0)
    IN  upTo

Coefficient(text, p) == Coefficients(text, p)[Len(text)]

\* What is printed reads as the derivative of what was passed, and can be passed
\* again unless it is empty: its powers fall, and a sign separates its terms.
DerivativeIsFormal ==
    at = "returned" =>
        /\ \A p \in 0..MaxPow :
              Coefficient(result, p) = (p + 1) * Coefficient(polynomial, p + 1)
        /\ \A k \in 2..Len(result) :
              /\ result[k].sign # ""
              /\ Power(result[k]) < Power(result[k - 1])
=============================================================================
