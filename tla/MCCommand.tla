----------------------------- MODULE MCCommand ------------------------------
(***************************************************************************)
(* Instances of Command for TLC: numbers around the limits, around zero    *)
(* and around the modulus, and one (17) whose product with KB wraps into   *)
(* the allowed range; paths with doubled and trailing slashes, through a   *)
(* file that is no directory, back to the parent and above the root, of    *)
(* lengths around PathMax, relative and in absolute form.                  *)
(***************************************************************************)
EXTENDS Command

\* A name is compared with other names only.
MCSymmetry == Permutations(Names)

MCChunkNumbers  == {-64, -56, -1, 0, 1, 9, 17, 64}
MCBufferNumbers == {-64, -54, 0, 1, 11, 64}

MCCwd   == <<"w">>
MCPlain == {<<"w", "f">>}
MCPaths == {
  << >>, <<"/">>, <<"/", "w", "/", "f">>, <<"f", "/", "a">>, <<"f", "/", "..", "/", "a">>,
  <<"a", "/", "/", "a">>, <<"a", "/", "..", "/", "b", "/", "/">>, <<"/", "..", "/", "a">>,
  <<"a", "/", "a", "/", "a">>, <<"a", "/", "a", "/", "a", "/", "..">>,
  <<"/", "a", "/", "a", "/", "a", "/", "a">>, <<"a", "/", "a", "/", "a", "/", "a", "/", "a">>}

=============================================================================
