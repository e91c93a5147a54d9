------------------------------ MODULE PlanSteps ------------------------------
(***************************************************************************)
(* The planSteps of a frontend case: what exploring a site writes          *)
(* (local/explore.rs), what the browser executor compiles the steps to     *)
(* (server/executors/browser.rs) and what `test lint` says of a case       *)
(* (local/lint.rs).  Operators only; CaseRun runs the cases.               *)
(*                                                                         *)
(* A text is the verb it starts with, which of the words the compiler      *)
(* looks for it contains anywhere, and whether it names a path.            *)
(***************************************************************************)
EXTENDS Integers, Sequences, SequencesExt

Words == {"email", "password", "enter"}     \* enter: or input

Verbs == {"click", "navigate", "verify",    \* click or tap; verify or assert
          "check", "none"}                  \* a check by another name

Texts == [verb : Verbs, words : SUBSET Words, path : BOOLEAN]

NoText == [verb |-> "none", words |-> {}, path |-> FALSE]

Actions == {"text",                         \* the step is a string
            "fill", "click", "goto",
            "find",                         \* verify, assert, assert_text, expect_text
            "expect",                       \* another name with assert or expect
            "none"}                         \* no known action

Steps == [action : Actions, says : Texts, url : BOOLEAN]

Say(verb, words) ==
    [action |-> "text", says |-> [verb |-> verb, words |-> words, path |-> FALSE],
     url |-> FALSE]

Object(action) == [action |-> action, says |-> NoText, url |-> FALSE]

-----------------------------------------------------------------------------
(* The compiler *)

\* compile_text_step: the first rule that fits.
CompileText(t) ==
    IF "enter" \in t.words /\ t.words \cap {"email", "password"} # {} THEN "fill"
    ELSE CASE t.verb = "click"    -> "click"
           [] t.verb = "navigate" -> IF t.path THEN "goto" ELSE "settle"
           [] t.verb = "verify"   -> "find"
           [] OTHER               -> "log"

\* compile_object_step: an action it does not know is taken for its description.
CompileObject(s) ==
    CASE s.action \in {"fill", "click", "find"} -> s.action
      [] s.action = "goto"                      -> IF s.url THEN "goto" ELSE "settle"
      [] OTHER                                  -> CompileText(s.says)

Compile(plan) ==
    [i \in DOMAIN plan |-> IF plan[i].action = "text" THEN CompileText(plan[i].says)
                           ELSE CompileObject(plan[i])]

-----------------------------------------------------------------------------
(* Exploration *)

\* Of a page one has seen a heading's words, inputs and buttons, each with its
\* words and whether it has a selector, and what a click on a button led to.

\* fill_step: a control without a selector is named in words.
FillStep(input, label) ==
    IF input.selector THEN Object("fill") ELSE Say("none", {label, "enter"})

ClickStep(button) ==
    IF button.selector THEN Object("click") ELSE Say("click", button.words)

NavigateTo == [action |-> "text", url |-> FALSE,
               says |-> [verb |-> "navigate", words |-> {}, path |-> TRUE]]

\* Sequences of at most one element stand for what may be missing.
PageSmoke(page) ==
    IF page.heading = <<>> THEN {} ELSE {<<Say("verify", page.heading[1])>>}

\* Both kinds of input have been found on the page.
LooksLikeLogin(page) == page.email # <<>> /\ page.password # <<>>

\* The flow through the form; a missing button is called Sign In.
LoginFlow(page) ==
    IF ~LooksLikeLogin(page) THEN {}
    ELSE {<<FillStep(page.email[1], "email"), FillStep(page.password[1], "password"),
            IF page.signIn = <<>> THEN Say("click", {}) ELSE ClickStep(page.signIn[1])>>}

ButtonClicks(page) == {<<ClickStep(b)>> : b \in page.buttons}

\* A probe asserts the heading that came up, or else goes to where the click led.
Probes(page) ==
    {<<ClickStep(p.button),
       IF p.heading = <<>> THEN NavigateTo ELSE Say("verify", p.heading[1])>> : p \in page.probes}

\* cases_from_page
Explored(page) == PageSmoke(page) \cup LoginFlow(page) \cup ButtonClicks(page) \cup Probes(page)

-----------------------------------------------------------------------------
(* Lint, as far as warnings go: a step of a flow has what it expects of the  *)
(* status, what it asserts of the body, and what it saves.                   *)

\* Mutant of SpecHasOracle: any expectation of the status will do.
AnyIsOracle(s) == TRUE

\* Of a GraphQL step it counts what is written about errors and data, not what
\* goes without saying.
SpecHasOracle(s) == s.expect # "any" \/ s.asserts # "none" \/ s.query = "lenient"

\* check_step_flow: of several steps one before the last asserts or saves.
MaskingProne(steps, none) ==
    /\ Len(steps) > 1
    /\ \A i \in 1 .. Len(steps) - 1 : ~SpecHasOracle(steps[i]) /\ steps[i].saves = none

\* check of a backend case with steps.
FlowIsSound(steps, none) ==
    /\ \A i \in DOMAIN steps : SpecHasOracle(steps[i])
    /\ ~MaskingProne(steps, none)

=============================================================================
