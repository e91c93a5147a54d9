------------------------------ MODULE MCCaseRun ------------------------------
\* CaseRun for TLC: flows of up to three steps over one variable, and every
\* kind of executor with every form of case.
EXTENDS CaseRun

Step(expect, asserts, saves, uses) ==
    [expect |-> expect, asserts |-> asserts, saves |-> saves, uses |-> uses, query |-> "none"]

Graphql(query, expect) == [Step(expect, "none", NoVar, "admin_password") EXCEPT !.query = query]

\* A login that saves a password, a read that carries it, a write that renews it,
\* a check that takes any answer below 500 and one that asks nothing more.
ThreeStepMenu ==
        {Step("exact", "value", "admin_password", NoVar), Step("success", "none", NoVar, "admin_password"),
         Step("accepted", "json", "admin_password", "admin_password"), Step("any", "value", NoVar, "admin_password")}

Menu == ThreeStepMenu \cup {Step("any", "none", "admin_password", NoVar)}

\* GraphQL steps, after a login or alone, and one that carries a made-up id.
Others == {Graphql("strict", "success"), Graphql("lenient", "any"),
           Step("success", "none", NoVar, "uuid")}

FlowSeqs == UNION {[1 .. n -> Menu] : n \in 1 .. 2} \cup [1 .. 3 -> ThreeStepMenu]
    \cup {<<s>> : s \in Others} \cup {<<Step("exact", "value", "admin_password", NoVar), s>> : s \in Others}

Case(kind, form, steps, llm) ==
    [kind |-> kind, form |-> form, steps |-> steps, plan |-> <<>>, llm |-> llm]

\* Pages with and without what exploration looks for: a heading, a login form,
\* buttons of every wording and clicks that lead to a heading or elsewhere.
AtMostOne(S) == {<<>>} \cup {<<x>> : x \in S}
Headings == AtMostOne(SUBSET Words)
Pages ==
    {[heading |-> h, email |-> e, password |-> p, signIn |-> b, buttons |-> Range(b),
      probes |-> {[button |-> x, heading |-> h] : x \in Range(b)}] :
        h \in Headings, e, p \in AtMostOne([words : {{"email"}}, selector : BOOLEAN]),
        b \in AtMostOne([words : {{}, {"email", "enter"}}, selector : BOOLEAN])}

\* The plans written by hand: two steps of any kind.
ByHand == [1 .. 2 -> {Say("verify", {}), Say("check", {}), Say("navigate", {}), Object("find"),
                      Object("expect"), Object("fill"), [Object("none") EXCEPT !.says.verb = "verify"]}]

Plan(plan) == [Case("frontend", "bare", <<>>, FALSE) EXCEPT !.plan = plan]

\* Of a flow with a bad step, the steps that parse are kept.
AllCases ==
    {Case("backend", "steps", s, FALSE) : s \in FlowSeqs}
    \cup {Case("backend", "spec", s, FALSE) : s \in [1 .. 1 -> Menu] \cup [1 .. 2 -> Menu]}
    \cup {Case("backend", "bad steps", s, FALSE) : s \in {<<>>} \cup [1 .. 1 -> Menu]}
    \cup {Case(k, f, <<>>, llm) : k \in Kinds, f \in {"bad spec", "code", "bare"},
                                  llm \in BOOLEAN}
    \cup {Plan(p) : p \in ByHand \cup UNION {Explored(page) : page \in Pages}}

\* Only a body that is not what was asked for is ever quoted.
AllAnswers ==
    {a \in [status  : {200, 401, 404, 422, 500},
            body    : {"right", "no value", "wrong value", "errors", "not json"},
            carries : BOOLEAN,
            says    : {{}, {"auth"}, {"unreachable"}}] :
        /\ a.body = "not json" => ~a.carries
        /\ a.body = "errors" => ~a.carries /\ a.status = 200
        /\ a.body \in {"right", "no value", "errors"} => a.says = {}}

\* A PRD with nothing to add, one with the credentials of an admin, and one
\* whose strategy has the password as a fixed value and as a template.
TheDocuments ==
    LET prd(credentials, strategy) ==
            [credentials |-> credentials, hasEnvironment |-> FALSE, environment |-> {},
             endpoints |-> {}, strategy |-> strategy]
        fixed == [name |-> "admin_password", alias |-> "adminPassword",
                  template |-> FALSE, braces |-> {}]
        made  == [fixed EXCEPT !.template = TRUE, !.braces = {"uuid8"}]
    IN  {prd({}, {}), prd({"admin_password"}, {}), prd({}, {fixed, made})}

\* References inside and outside the project, one of them twice, one to a file
\* that fills the snippet, and more than are shown.
TheMentions ==
    LET ref(as, path, inside, bytes) ==
            [as |-> as, path |-> path, inside |-> inside, bytes |-> bytes]
    IN  {<<>>,
         <<ref("quoted", "app.py", TRUE, 1), ref(".rs", "gone.rs", TRUE, 0), ref(".rs", "../x.rs", FALSE, 1)>>,
         <<ref(".js", "a.js", TRUE, 1), ref(".rs", "b.rs", TRUE, 8), ref(".js", "c.js", TRUE, 1)>>,
         <<ref("quoted", "d.py", TRUE, 1), ref(".ts", "e.ts", TRUE, 1), ref(".go", "f.go", TRUE, 1),
           ref(".ts", "e.ts", TRUE, 1), ref(".js", "a.js", TRUE, 1)>>}

SomeEchoes ==
    {{}, {"compile"}} \cup {{p} : p \in {"infra", "auth", "unreachable", "browser crash",
                                         "404", "assert", "timed out"}}

=============================================================================
