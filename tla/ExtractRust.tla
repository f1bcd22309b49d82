---------------------------- MODULE ExtractRust ----------------------------
(***************************************************************************)
(* The Rust adapter, one action per handler of Builder::walk.  What a node *)
(* says of itself: c of a call is the form of its callee ("plain" a name,  *)
(* "ffi" a name of an extern block, "method" x.m, "new" T::new, "newBox"   *)
(* Box::new, "spawn" tokio::spawn, "computed" a callee in parentheses, as  *)
(* in (self.f)(x)), of a macro "panic" or "other".                         *)
(***************************************************************************)
EXTENDS SyntaxWalk

Types == {"struct_item", "enum_item", "union_item", "type_item"}
Constants == {"const_item", "static_item"}
Loops == {"for_expression", "while_expression", "loop_expression"}
Ifs == {"if_expression", "if_let_expression"}

(* record_fn_entrypoints: main, or what the attributes before it make it;  *)
(* an attribute that is a macro is a cut.                                  *)
Entries == IF Reads \in {"main", "test"} THEN {[fqn |-> Named, kind |-> Reads]} ELSE {}
MacroCut(fs) == IF Reads = "macro" THEN Add(fs, "cuts", {[at |-> at]}) ELSE fs

(* walk_function; only a function in a member list is a method.            *)
WalkFunction ==
    /\ IsAt({"function_item"})
    /\ LET body == EnterBody(Named, Push(Named))
           kind == IF ctx.members THEN "method" ELSE "function"
       IN  /\ facts' = MacroCut(Add(Add(facts, "defs", {ADef(Named, kind)}),
                                    "entries", Entries))
           /\ Into({"body", "tail"}, body)
           /\ frames' = Later("ssa", body)
    /\ UNCHANGED <<lang, path, pass>>

(* walk_type and record_value_def: a definition, and no child is walked.   *)
RecordDef ==
    /\ IsAt(Types \cup Constants)
    /\ facts' = MacroCut(Add(facts, "defs",
          {ADef(Named, IF Kind \in Types THEN "type" ELSE "constant")}))
    /\ Leave({"value"})
    /\ Keep

(* walk_trait and walk_impl: a trait is a definition, an impl is not; both *)
(* own a scope, and their functions are members.                           *)
WalkMembers ==
    /\ IsAt({"trait_item", "impl_item"})
    /\ facts' = IF Kind = "trait_item"
                THEN Add(facts, "defs", {ADef(Named, "type")})
                ELSE IF Reads = "of_trait"
                THEN Add(facts, "relations",
                         {[kind |-> "implements", at |-> at]})
                ELSE facts
    /\ Into({"body"}, EnterMembers(Named, Push(Named)))
    /\ Keep

WalkMod ==
    /\ IsAt({"mod_item"})
    /\ facts' = Add(facts, "defs", {ADef(Named, "module")})
    /\ Into({"body"}, EnterBody(Named, Push(Named)))
    /\ Keep

-----------------------------------------------------------------------------
(* classify_callee and constructor_target: what a call refers to.          *)
CalleeKind(c) ==
    CASE c = "method" -> "virtual"
      [] c = "new" -> "instantiate"
      [] OTHER -> "call"

(* classify_callee finds no name in a callee in parentheses: whatever the  *)
(* call would be recorded as, it leaves no reference.                      *)
IfNamed(c, refs) == IF c = "computed" THEN {} ELSE refs

(* walk_call_expression of anything but a spawn.  A Box::new that wraps no *)
(* construction is an ordinary call.  The effects are read off the text of *)
(* the callee, with or without a name.                                     *)
WalkCall ==
    /\ IsAt({"call_expression"}) /\ Reads # "spawn"
    /\ facts' = Add(Add(facts, "refs", IfNamed(Reads,
                        {ARef(CalleeKind(Reads), Condition, "none")})),
                    "effects", {AnEffect("call")})
    /\ \/ Into({"function", "arguments"}, ctx)
       \/ Leave({"leaf"})
    /\ Keep

(* record_spawn and walk_spawn_children: each argument that is a call, an  *)
(* awaited or a tried call becomes a spawn reference; of a plain call only *)
(* its own arguments are then walked, everything else is walked again.     *)
Tried == {"await_expression", "try_expression"}

RECURSIVE TopLevelCall(_)
TopLevelCall(i) ==          \* position of the call, or 0
    CASE path[i].k = "call_expression" -> i
      [] path[i].k \in Tried /\ path[i].r = "operand" -> TopLevelCall(i + 1)
      [] OTHER -> 0

WalkSpawn ==
    /\ IsAt({"call_expression"}) /\ Reads = "spawn"
    /\ LET call == IF Role = "arguments" THEN TopLevelCall(at + 1) ELSE 0
           spawned == IF call = 0 THEN {}
                      ELSE IfNamed(path[call].c,
                             {[ARef("spawn", Condition, "none") EXCEPT !.at = call]})
       IN  /\ facts' = Add(Add(facts, "refs", spawned),
                           "effects", {AnEffect("call"), AnEffect("spawns")})
           /\ CASE Role # "arguments" -> Leave({"function", "leaf"})
                [] call = at + 1 ->
                      IF Next1.r = "arguments"
                      THEN at' = at + 2 /\ UNCHANGED ctx
                      ELSE Leave({"arguments"})
                [] OTHER -> Into({"arguments"}, ctx)
    /\ Keep

WalkStruct ==
    /\ IsAt({"struct_expression"})
    /\ facts' = Add(facts, "refs", {ARef("instantiate", Condition, "none")})
    /\ Into({"element"}, ctx)
    /\ Keep

(* walk_macro_invocation: only the panicking macros are a reference.  The  *)
(* arguments of any macro are a tree of tokens, with no call in it.        *)
WalkMacro ==
    /\ IsAt({"macro_invocation"})
    /\ facts' = IF Reads = "panic"
                THEN Add(facts, "refs", {ARef("call", "panic", "none")})
                ELSE facts
    /\ Leave({"tokens", "leaf"})
    /\ Keep

-----------------------------------------------------------------------------
(* The constructs that guard what is in them.                              *)

WalkIf ==
    /\ IsAt(Ifs)
    /\ \/ Into({"condition"}, ctx)
       \/ Into({"consequence", "alternative"}, With("conditional"))
    /\ UNCHANGED facts /\ Keep

(* walk_match: of an arm only the value is walked, its guard is not.       *)
ArmCondition == IF Role = "err_arm" THEN "exception" ELSE "conditional"

WalkMatch ==
    /\ IsAt({"match_expression"})
    /\ \/ Into({"value"}, ctx)
       \/ Into({"arm", "err_arm"}, With(ArmCondition))
       \/ Leave({"guard"})
    /\ UNCHANGED facts /\ Keep

(* walk_loop: a for calls Iterator::next, labelled loop wherever it is.    *)
WalkLoop ==
    /\ IsAt(Loops)
    /\ facts' = IF Kind = "for_expression"
                THEN Add(facts, "refs", {ARef("call", "loop", "iterator")})
                ELSE facts
    /\ \/ Into({"value", "condition"}, ctx)
       \/ Into({"body"}, With("loop"))
    /\ Keep

(* walk_try: after the operand, its call once more, as the way of failure. *)
WalkTry ==
    /\ IsAt({"try_expression"})
    /\ LET call == TopLevelCall(at + 1)
       IN  facts' = IF call = 0 THEN facts
                    ELSE Add(facts, "refs", IfNamed(path[call].c,
                             {[ARef(CalleeKind(path[call].c), "exception", "none")
                                  EXCEPT !.at = call]}))
    /\ Into({"operand"}, ctx)
    /\ Keep

(* walk_await: an awaited call is one asynchronous reference, without its  *)
(* effects, and only its arguments are walked.                             *)
WalkAwait ==
    /\ IsAt({"await_expression"})
    /\ IF Next1.k # "call_expression"
       THEN UNCHANGED facts /\ Into({"operand"}, ctx)
       ELSE /\ facts' = Add(facts, "refs", IfNamed(Next1.c,
                            {[ARef("async", Condition, "none")
                                 EXCEPT !.at = at + 1]}))
            /\ IF Next1.r = "arguments"
               THEN at' = at + 2 /\ UNCHANGED ctx
               ELSE Leave({"operand"})
    /\ Keep

(* walk_closure: a definition with a scope of its own, under the name and  *)
(* the guards of the function around it.                                   *)
WalkClosure ==
    /\ IsAt({"closure_expression"})
    /\ facts' = Add(facts, "defs", {ADef(Named, "lambda")})
    /\ Into({"body"}, WithScope(Push(Named)))
    /\ Keep

Transparent == {"let_declaration", "assignment_expression",
                "return_expression", "field_expression", "binary_expression",
                "reference_expression", "index_expression", "identifier"}
WalkChildren == Through(Transparent)

-----------------------------------------------------------------------------
(* classify_rhs, operand_sources, collect_idents, opaque_call_arg_paths.   *)
Fields == {"field_expression"}
Operators == {"binary_expression"}
Wrappers == {"reference_expression"}
Composed == {"struct_expression", "match_expression"} \cup Ifs
Stop == {"closure_expression", "call_expression"}

Opaque == {"call_expression", "macro_invocation"} \cup Tried
ArgumentsThrough == Tried \cup Wrappers
Values ==
    [field |-> Fields, operator |-> Operators, operandWrapper |-> Wrappers,
     wrapper |-> Wrappers, baseWrapper |-> {}, composed |-> Composed, stop |-> Stop,
     opaque |-> Opaque, call |-> {"call_expression"}, through |-> ArgumentsThrough]

-----------------------------------------------------------------------------
(* walk_function_ssa and ssa_walk: the second pass over a body.  The tail  *)
(* of the body is its return value.                                        *)

RustStartSsa ==
    /\ lang = "rust"
    /\ StartSsa(IF frames # <<>> /\ path[Frame.at - 1].r = "tail"
                THEN FlowsOf(Values, Frame.ctx, Frame.at - 1, Frame.at) ELSE {})

SsaAssignment ==
    /\ Kind \in {"let_declaration", "assignment_expression", "return_expression"}
    /\ facts' = IF Reads = "pattern" THEN facts    \* binding_name
                ELSE Add(facts, "flows", FlowsOf(Values, ctx, at, at + 1))
    /\ Into({"value"}, ctx)

SsaGuarded ==
    /\ \/ /\ Kind \in Ifs
          /\ \/ Into({"condition"}, ctx)
             \/ Into({"consequence", "alternative"}, With("conditional"))
       \/ /\ Kind = "match_expression"
          /\ \/ Into({"value"}, ctx)
             \/ Into({"arm", "err_arm"}, With(ArmCondition))
             \/ Leave({"guard"})
       \/ /\ Kind \in Loops
          /\ \/ Into({"body"}, With("loop"))
             \/ Leave({"value", "condition"})
    /\ UNCHANGED facts

(* A closure is not entered; every other node is, a nested function too.   *)
SsaOther ==
    /\ Kind \notin {"let_declaration", "assignment_expression",
                    "return_expression", "match_expression"} \cup Ifs \cup Loops
    /\ at' = IF Kind = "closure_expression" \/ Role \in {"leaf", "tokens"}
             THEN Len(path) + 1 ELSE at + 1
    /\ UNCHANGED <<ctx, facts>>

SsaWalk ==
    /\ lang = "rust" /\ Flowing
    /\ SsaAssignment \/ SsaGuarded \/ SsaOther
    /\ Keep

RustNext ==
    \/ /\ lang = "rust"
       /\ \/ WalkFunction \/ RecordDef \/ WalkMembers \/ WalkMod
          \/ WalkCall \/ WalkSpawn \/ WalkStruct \/ WalkMacro
          \/ WalkIf \/ WalkMatch \/ WalkLoop \/ WalkTry \/ WalkAwait
          \/ WalkClosure \/ WalkChildren
    \/ RustStartSsa
    \/ SsaWalk
=============================================================================
