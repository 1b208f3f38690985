------------------------------- MODULE Config -------------------------------
(***************************************************************************)
(* config.rs: the environment's eight variables parsed into a Config, or   *)
(* the name of the first variable that is in error.                        *)
(*                                                                         *)
(* What an environment holds for a variable is one of                      *)
(*   Unset, NotUnicode                                                     *)
(*   [word, dressed]    a word, dressed if it has surrounding white space  *)
(*                      or capitals; word is then its bare form            *)
(*   [ms, spelling]     a number: "plain", "long" (a plus sign or leading  *)
(*                      zeros) or "padded" with white space                *)
(*   [entries]          a list between commas: the trimmed entries         *)
(*   [regex, valid]     a regular expression, or what is not one           *)
(*   [output]           a name                                             *)
(* and the empty string is the word "".  Values says which of these a      *)
(* variable may hold; where numbers are read, a word is not one.           *)
(***************************************************************************)
EXTENDS Naturals, SequencesExt

CONSTANTS
  Strings,          \* String: the texts there are
  Unset, NotUnicode,
  None,             \* Option::None
  MaxMillis         \* u64::MAX

Modes  == {"next-free", "new-each", "same"}
Truthy == {"1", "true", "yes", "on"}
Falsy  == {"0", "false", "no", "off"}
Numerals == {"0", "1"}

Text == [word : Strings, dressed : BOOLEAN]
Number == [ms : Nat, spelling : {"plain", "long", "padded"}]
List == [entries : Seq(Strings)]
Pattern == [regex : Strings \ {""}, valid : BOOLEAN]
Name == [output : Strings \ {""}]
Empty == [word |-> "", dressed |-> FALSE]

ASSUME ConfigAssumption ==
  /\ {""} \union Modes \union Truthy \union Falsy \subseteq Strings
  /\ MaxMillis \in Nat
  /\ None \notin Nat
  /\ \A absent \in {Unset, NotUnicode} :
       absent \notin Text \union Number \union List \union Pattern \union Name

Variables == {"WORKSPACE_MODE", "MAXIMIZE", "SWITCH_TO_WORKSPACE",
              "SWITCH_VERIFY_TIMEOUT_MS", "EXCLUDED_APP_IDS",
              "EXCLUDED_TITLE_REGEX", "WORKSPACE_OUTPUT", "JUMP_ON_EMPTY"}

Values(var) ==
  {Unset, NotUnicode, Empty} \union
    CASE var = "SWITCH_VERIFY_TIMEOUT_MS" ->
                              Number \union {v \in Text : v.word \notin Numerals}
      [] var = "EXCLUDED_APP_IDS"         -> List
      [] var = "EXCLUDED_TITLE_REGEX"     -> Pattern
      [] var = "WORKSPACE_OUTPUT"         -> Name
      [] OTHER                            -> Text

(* from_env: std::env::var(key).ok(), None of what is not Unicode too. *)
Get(environment, var) ==
  IF environment[var] = NotUnicode THEN Unset ELSE environment[var]

Ok(value)  == [ok |-> TRUE, value |-> value]
Bad(var)   == [ok |-> FALSE, value |-> var]
Has(v, field) == v \notin {Unset, NotUnicode} /\ field \in DOMAIN v

ParseMode(var, v) ==
  IF v = Unset THEN Ok("next-free")
  ELSE IF Has(v, "word") /\ v.word \in Modes /\ ~v.dressed THEN Ok(v.word)
  ELSE Bad(var)

(* Trimmed and lowercased before it is compared.  Mutant: it is not. *)
ParseBoolExact(var, v) ==
  IF v = Unset THEN Ok(FALSE)
  ELSE IF Has(v, "word") /\ v.word \in Truthy \union Falsy /\ ~v.dressed
    THEN Ok(v.word \in Truthy)
  ELSE Bad(var)

ParseBool(var, v) ==
  IF v = Unset THEN Ok(FALSE)
  ELSE IF Has(v, "word") /\ v.word \in Truthy \union Falsy
    THEN Ok(v.word \in Truthy)
  ELSE Bad(var)

(* Only the literal "0" disables verification: any other spelling of zero is a
   timeout of no time.  A number is read without white space, up to u64.
   Mutant: every zero disables it. *)
ParseTimeoutAnyZero(var, v) ==
  IF v = Unset THEN Ok(250)
  ELSE IF Has(v, "ms") /\ v.spelling # "padded" /\ v.ms <= MaxMillis
    THEN Ok(IF v.ms = 0 THEN None ELSE v.ms)
  ELSE Bad(var)

ParseTimeout(var, v) ==
  IF v = Unset THEN Ok(250)
  ELSE IF v = [ms |-> 0, spelling |-> "plain"] THEN Ok(None)
  ELSE IF Has(v, "ms") /\ v.spelling # "padded" /\ v.ms <= MaxMillis
    THEN Ok(v.ms)
  ELSE Bad(var)

NonEmpty(entries) == SelectSeq(entries, LAMBDA e : e # "")

ParseAppIds(v) == IF Has(v, "entries") THEN NonEmpty(v.entries) ELSE << >>

ParseRegex(var, v) ==
  IF v = Unset \/ v = Empty THEN Ok(None)
  ELSE IF v.valid THEN Ok(v.regex)
  ELSE Bad(var)

ParseOutput(v) == IF v = Unset \/ v = Empty THEN None ELSE v.output

(* from_env_source: the first error in this order is the one reported. *)
FromEnv(environment) ==
  LET get(var) == Get(environment, var)
      mode     == ParseMode("WORKSPACE_MODE", get("WORKSPACE_MODE"))
      maximize == ParseBool("MAXIMIZE", get("MAXIMIZE"))
      switch   == ParseBool("SWITCH_TO_WORKSPACE", get("SWITCH_TO_WORKSPACE"))
      timeout  == ParseTimeout("SWITCH_VERIFY_TIMEOUT_MS",
                               get("SWITCH_VERIFY_TIMEOUT_MS"))
      regex    == ParseRegex("EXCLUDED_TITLE_REGEX", get("EXCLUDED_TITLE_REGEX"))
      jump     == ParseBool("JUMP_ON_EMPTY", get("JUMP_ON_EMPTY"))
      results  == <<mode, maximize, switch, timeout, regex, jump>>
      wrong    == SelectInSeq(results, LAMBDA result : ~result.ok)
  IN IF wrong # 0 THEN results[wrong]
     ELSE Ok([workspace_mode        |-> mode.value,
              maximize              |-> maximize.value,
              switch_to_workspace   |-> switch.value,
              switch_verify_timeout |-> timeout.value,
              excluded_app_ids      |-> ParseAppIds(get("EXCLUDED_APP_IDS")),
              excluded_title_regex  |-> regex.value,
              workspace_output      |-> ParseOutput(get("WORKSPACE_OUTPUT")),
              jump_on_empty         |-> jump.value])
=============================================================================
