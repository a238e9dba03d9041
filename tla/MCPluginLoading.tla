--------------------------- MODULE MCPluginLoading ---------------------------
(***************************************************************************)
(* Two plugins over two libraries.  The path "here" is a library in the    *)
(* working directory and another one in the root, where it is looked for   *)
(* after a file was loaded by its name only; "." is a library in neither.  *)
(***************************************************************************)
EXTENDS PluginLoading, TLC

CONSTANTS p1, p2, l1, l2, f, g, here, dot, wd, root, v1, v2

MCPlugins == {p1, p2}
MCNames == {here, dot}

MCLibraryFile ==
  (wd :> (here :> l1 @@ dot :> None)) @@ (root :> (here :> l2 @@ dot :> None))

\* g is in one library only.
MCExports == l1 :> {f, g} @@ l2 :> {f} @@ Program :> {f}

Document(l, v, m, fs) ==
  [object |-> TRUE, shared_library |-> l, configuration |-> v, members |-> m, list |-> fs]

\* The second setting may be left out.
Whole == Document(here, <<v2, v2>>, <<g>>, <<g, f>>)
Partial == Document(here, <<v1, Absent>>, <<Absent>>, <<>>)
FromProgram == Document(Null, <<v1, v1>>, <<Null>>, <<>>)
Dot == Document(dot, <<v1, v1>>, <<f>>, <<>>)
BadList == Document(here, <<v1, Absent>>, <<Null>>, <<f, Mistyped>>)

\* At fault in one place each; Whole is too when its library is l2.
Faulty ==
  {[FromProgram EXCEPT !.object = FALSE], [FromProgram EXCEPT !.shared_library = Absent],
   [FromProgram EXCEPT !.members = Absent], [FromProgram EXCEPT !.list = Mistyped]}
    \cup {[FromProgram EXCEPT !.configuration = x] :
            x \in {Mistyped, <<Absent, v2>>, <<v1, Mistyped>>}}

MCDocuments == {Whole, Partial, FromProgram, Dot, BadList} \cup Faulty

MCFiles ==
  {[state |-> "missing", parent |-> wd, document |-> Whole]}
    \cup {[state |-> "readable", parent |-> d, document |-> Whole] : d \in {wd, NoDirectory}}
=============================================================================
