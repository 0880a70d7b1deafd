------------------------- MODULE RuntimeTokenService -------------------------
(***************************************************************************)
(* RuntimeTokenService (crates/aionui-ai-agent/src/runtime_token.rs): the  *)
(* tokens with which the agent of a team conversation proves itself to the *)
(* team tools.                                                             *)
(*                                                                         *)
(* issue is three operations on a DashMap, with no lock around them: look  *)
(* for a token of the conversation, drop what is there, insert a new one.  *)
(* Each is an operator here, so the calls of several threads interleave    *)
(* between them.  A conversation has one user, and every caller asks for   *)
(* the same scopes and for generation "default", so that a token is told   *)
(* by its conversation.  Tokens are drawn from a random source; here they  *)
(* are numbered, which makes them as distinct as the code takes them.      *)
(***************************************************************************)
EXTENDS Naturals

CONSTANT Conversations

VARIABLES
  tokens,    \* tokens[c]: the tokens of conversation c that validate
  issued     \* how many tokens were generated

tokenVars == <<tokens, issued>>

NoToken == 0

TokenInit ==
  /\ tokens = [c \in Conversations |-> {}]
  /\ issued = 0

(* existing_token: the tokens issue may return as they are.                *)
ExistingToken(c) == tokens[c]

(* generate_token                                                          *)
GeneratedToken == issued + 1

(* insert of a token                                                       *)
InsertToken(c, t) ==
  /\ tokens' = [tokens EXCEPT ![c] = @ \cup {t}]
  /\ UNCHANGED issued

(* invalidate_conversation and invalidate_conversation_id                  *)
InvalidateConversation(c) ==
  /\ tokens' = [tokens EXCEPT ![c] = {}]
  /\ UNCHANGED issued
==============================================================================
