----------------------------- MODULE CodeSurface -----------------------------
(***************************************************************************)
(* What the tools know of the code under test: its functions as            *)
(* tree-sitter finds them, which of them the tests cover                   *)
(* (local/coverage.rs) and which a git diff touches (local/changed.rs).    *)
(* Operators only: their users are RegressionLoop and Generation.          *)
(*                                                                         *)
(* A function is a record of where it is defined and what marks it as a    *)
(* test, a file one of its language, and whether its path is a test's or   *)
(* under a directory that is skipped.  A name stands for all its           *)
(* spellings in capitals and small letters; a text is the set of whole     *)
(* words in it.                                                            *)
(***************************************************************************)
EXTENDS Integers, FiniteSets

Languages == {"rust", "python", "go", "javascript", "typescript"}

\* Branches and the source a prompt quotes are left out.
IsFunction(f) ==
    /\ DOMAIN f = {"name", "file", "line", "marked", "testName"}
    /\ f.line \in Nat \ {0}
    /\ f.marked \in BOOLEAN         \* an attribute or a module makes it a test
    /\ f.testName \in BOOLEAN       \* its name begins like a test's

\* structural_surface and Lang::from_extension: the files that are read.
Scanned(file) == file.language \in Languages /\ ~file.skipped

\* is_test_unit: what a language goes by.
IsTestUnit(f) ==
    CASE f.file.language = "rust"           -> f.marked
      [] f.file.language \in {"python", "go"} -> f.testName
      [] OTHER                              -> FALSE

\* units_in_file, of every file: the functions that a test could be written for.
Surface(code) == {f \in code : Scanned(f.file) /\ ~f.file.tests /\ ~IsTestUnit(f)}

-----------------------------------------------------------------------------
(* Coverage *)

\* test_haystack: title, description, spec and code; plan steps and commands
\* are not looked into.
Haystack(t) == t.words

\* mentions, in any of the texts.
Mentioned(f, texts) == \E text \in texts : f.name \in text

\* rust_executed_functions on what cargo llvm-cov exports, which is nothing where it
\* cannot be run: every identifier in the symbol of a function that was executed, those
\* of its modules and types too.
ExecutedNames(profile) == UNION {s.path : s \in {x \in profile : x.count > 0}}

\* gaps: a function is covered if it was seen to execute or a text names it.
Uncovered(units, texts, profile) ==
    {f \in units : f.name \notin ExecutedNames(profile) /\ ~Mentioned(f, texts)}

-----------------------------------------------------------------------------
(* Changes: a working tree as git compares it with a revision              *)
(*   code       the functions in the tree                                  *)
(*   hunks      [file, start, count] of the new side of the diff           *)
(*   untracked  files that git does not know                               *)
(*   deleted    files that are gone, whose hunks have no new side          *)

\* parse_diff_lines and parse_new_hunk: the new lines, or where old ones were.
HunkLines(h) ==
    LET first == IF h.start = 0 THEN 1 ELSE h.start
    IN  IF h.count = 0 THEN {first} ELSE first .. first + h.count - 1

LinesOf(file, tree) == UNION {HunkLines(h) : h \in {x \in tree.hunks : x.file = file}}

InFile(file, units) == {f \in units : f.file = file}

\* attribute: a line is of the last function that begins at it or above, even
\* if that one has ended by then.
Touched(units, lines) ==
    {f \in units : \E l \in lines :
        f.line <= l /\ \A g \in units : g.line <= l => g.line <= f.line}

TouchesTop(units, lines) == \E l \in lines : \A f \in units : l < f.line

\* untracked_files: a function of a file git does not know is new.
NewUnits(surface, tree) == {f \in surface : f.file \in tree.untracked}

\* changed_surface: the functions that are touched or new, and the files with
\* a change that is in none.  A file that is deleted is in neither.
ChangedUnits(tree) ==
    LET surface == Surface(tree.code)
    IN  NewUnits(surface, tree)
        \cup UNION {Touched(InFile(file, surface), LinesOf(file, tree)) :
                       file \in {h.file : h \in tree.hunks}}

FileLevel(tree) ==
    LET surface == Surface(tree.code)
    IN  {file \in {h.file : h \in tree.hunks} :
            \/ InFile(file, surface) = {}
            \/ TouchesTop(InFile(file, surface), LinesOf(file, tree))}

\* uncovered_changed_units: what --changed writes tests for.
UncoveredChanged(tree, texts) == {f \in ChangedUnits(tree) : ~Mentioned(f, texts)}

=============================================================================
