------------------------------- MODULE Scopes -------------------------------
(***************************************************************************)
(* Straight-line C++ with owners and scope guards, as data.  A script is a *)
(* sequence of steps; a step may need resources, see bindings, create      *)
(* resources, bind an object to a target, push cleanups (a destructor or a *)
(* SC_SCOPE_GUARD), move resources out of the local owners, or leave       *)
(* scopes.  "ends" lists the other ways it may come out.                   *)
(***************************************************************************)
EXTENDS Naturals, Sequences

(* A cleanup releases resources in order, or unbinds a target.             *)
Frees(resources) == [frees |-> resources, unbinds |-> {}]
Unbinds(target) == [frees |-> <<>>, unbinds |-> {target}]

(* A step that does nothing and cannot fail.                               *)
Skip(name) ==
  [name |-> name, needs |-> {}, sees |-> {}, gets |-> {}, binds |-> {},
   owns |-> <<>>, moves |-> {}, leaves |-> 0, ends |-> {}]

(* A call that throws when it fails.                                       *)
Call(name, needs) == [Skip(name) EXCEPT !.needs = needs, !.ends = {"throw"}]

(* SC_EXPECT: contract_check_failed ends the process.                      *)
Expect(name, needs) ==
  [Skip(name) EXCEPT !.needs = needs, !.ends = {"terminate"}]

(* A resource that nobody owns yet, an owner for it, and both at once.     *)
Open(resource, needs) == [Call(resource, needs) EXCEPT !.gets = {resource}]
Guard(resources) == [Skip("guard") EXCEPT !.owns = <<Frees(resources)>>]
Own(resource, needs) ==
  [Open(resource, needs) EXCEPT !.owns = <<Frees(<<resource>>)>>]

(* The end of the innermost scopes.                                        *)
Leave(n) == [Skip("leave") EXCEPT !.leaves = n]
=============================================================================
