------------------------------ MODULE Diagnosis -------------------------------
(***************************************************************************)
(* What a run leaves beside the verdict of a case: the artifact it ran     *)
(* (local/run.rs), the model's analysis of a failure and, with --fix, a    *)
(* recommendation grounded in the source the failure points at             *)
(* (local/fix_context.rs, local/store.rs). Operators only; CaseRun uses    *)
(* them.                                                                   *)
(***************************************************************************)
EXTENDS Integers, Sequences, SequencesExt

\* A reference to a source file in a failure's text. `as`: the extension it is
\* found by, or "quoted" for Python's `File "..."`; path: the file it comes to
\* by way of links and dots; inside: the project has it; bytes: of the window
\* that is shown of it, in KiB; unreadable files have none.
Styles == <<".rs", ".py", ".ts", ".tsx", ".js", ".go", "quoted">>
Reference == [as : {Styles[i] : i \in DOMAIN Styles}, path : STRING, inside : BOOLEAN, bytes : Nat]

MAX_FILES         == 3
MAX_SNIPPET_BYTES == 8

\* extract_refs: one extension after the other, whatever the text's order.
ExtractRefs(text) ==
    FlattenSeq([i \in DOMAIN Styles |-> SelectSeq(text, LAMBDA ref : ref.as = Styles[i])])

Bytes(shown) == FoldLeft(LAMBDA n, ref : n + ref.bytes, 0, shown)

\* safe_join, and the file can be read.
Readable(ref) == ref.inside /\ ref.bytes > 0

\* source_context: each readable file of the project once, until there are
\* enough of them or enough text.
SourceContext(text) ==
    FoldLeft(LAMBDA shown, ref :
                 IF \/ Len(shown) >= MAX_FILES \/ Bytes(shown) >= MAX_SNIPPET_BYTES
                    \/ ~Readable(ref) \/ \E i \in DOMAIN shown : shown[i].path = ref.path
                 THEN shown ELSE Append(shown, ref),
             <<>>, ExtractRefs(text))

\* What came of a proposed patch: none was given, or git would apply it or not.
Patches == {"none", "applies", "rejected"}

\* patch_applies, asked only for a patch that was made from source.
Appliable(shown, patch) == shown # <<>> /\ patch = "applies"

\* write_fix: the section of fixes/<id>.md a patch is shown in.
FixSection(patch, appliable) ==
    IF patch = "none" THEN "advice" ELSE IF appliable THEN "verified" ELSE "sketch"

\* artifact_ext (a shell command or a program that is valid JSON by itself,
\* such as `true`, is left out).
ArtifactExt(kind, json) ==
    IF json THEN "json"
    ELSE CASE kind = "backend"  -> "py"
           [] kind = "frontend" -> "js"
           [] kind = "mcp"      -> "json"
           [] kind = "rust"     -> "rs"
           [] kind = "command"  -> "sh"

===============================================================================
