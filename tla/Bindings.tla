------------------------------ MODULE Bindings ------------------------------
(***************************************************************************)
(* What a Python or JavaScript caller sees of a call into the crate: it    *)
(* returns, raises an error with its status code, or panics.               *)
(*                                                                         *)
(* Text crosses the boundary as well-formed Unicode and numbers as usize:  *)
(* the conversions of PyO3 and wasm-bindgen refuse or replace anything     *)
(* else before the crate is entered.                                       *)
(***************************************************************************)
EXTENDS HardBinding, StatusCodes

Returns(v)        == [returns |-> v]
Raises(e)         == [raises |-> e, code |-> Code(e)]
Panics            == [panics |-> TRUE]
HasReturned(call) == "returns" \in DOMAIN call
HasRaised(call)   == "raises" \in DOMAIN call

\* None in Python, null in JavaScript.
None == [none |-> TRUE]

\* The value of a usize expression: where it does not fit, a build with
\* overflow checks traps and any other wraps.
Usize(n, traps) ==
  IF n <= USIZE_MAX THEN Returns(n)
  ELSE IF traps THEN Panics ELSE Returns(n % (USIZE_MAX + 1))
=============================================================================
