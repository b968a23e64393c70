-------------------------------- MODULE MCMount --------------------------------
(* A root with a directory whose name ends in an escape character and a    *)
(* file whose name reads like an escaped control character; in the         *)
(* directory a file with that control character and a special code point   *)
(* in its name.                                                            *)
EXTENDS MountDokan, TLC

CONSTANTS root, dir, file, other, h1, h2

(* The kernel may give its file infos in any order.                        *)
Infos == Permutations({h1, h2})

MCParent == root :> root @@ dir :> root @@ file :> root @@ other :> dir

MCCharacters == {"/", Escape, "x", "U", HexLF, HexLS, "LF", "LS", "a"}

MCNames ==
  root :> <<>> @@ dir :> <<"a", Escape>> @@ file :> <<Escape, "x", HexLF>>
    @@ other :> <<"LF", "LS", "U">>

MCLists == root :> <<dir, file>> @@ dir :> <<other>> @@ file :> <<>> @@ other :> <<>>

MCValueSizes == root :> <<>> @@ dir :> <<>> @@ file :> <<2, 1>> @@ other :> <<1>>

MCOtherPaths == {<<"a">>, <<"/", Escape>>, <<"/", "LF">>}
================================================================================
