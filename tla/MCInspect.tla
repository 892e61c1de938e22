------------------------------ MODULE MCInspect ------------------------------
(***************************************************************************)
(* A small instance of Inspect: an entry for each rule of the reader.      *)
(***************************************************************************)
EXTENDS Inspect

Entry(path, type, link, size, bytes) ==
    [path |-> path, type |-> type, symlink |-> IF type = "symlink" THEN link ELSE None,
     hardlink |-> IF type # "symlink" THEN link ELSE None, size |-> size, bytes |-> bytes,
     corrupt |-> FALSE, setid |-> FALSE]

File(path, bytes) == Entry(path, "file", None, bytes, bytes)

MCRaw ==
    {File(<<".PKGINFO">>, 1), File(<<".", ".PKGINFO">>, 1), File(<<".PKGINFO">>, 3),
     Entry(<<".PKGINFO">>, "symlink", <<"a">>, 1, 1), Entry(<<".PKGINFO">>, "directory", None, 1, 0),
     File(<<"usr", "a">>, 2), Entry(<<"usr">>, "directory", None, -1, 0),
     Entry(<<"usr", "">>, "directory", None, 0, 0), File(<<"", "etc">>, 1),
     File(<<"..", "a">>, 1), File(<<"usr", "b", "c", "d">>, 1), File(None, 1), File(<<".", "">>, 1),
     Entry(<<"usr", "l">>, "symlink", <<"a">>, -1, 0),
     Entry(<<"l">>, "symlink", <<"usr", "..", "..">>, 0, 0),
     Entry(<<"h">>, "file", <<"usr", "a">>, 0, 0), Entry(<<"h">>, "file", <<"", "etc">>, 0, 0),
     Entry(<<"d">>, "device", None, 0, 0), Entry(<<"d">>, "device", <<"usr", "a">>, 0, 0),
     [Entry(<<"l">>, "symlink", <<"a">>, 0, 0) EXCEPT !.hardlink = <<"..">>],
     Entry(<<"big">>, "file", None, -1, 7), Entry(<<"short">>, "file", None, 2, 1),
     [File(<<"bad">>, 1) EXCEPT !.corrupt = TRUE], [File(<<"su">>, 1) EXCEPT !.setid = TRUE],
     File(<<"usr", "hooks", "x">>, 1), File(<<"a.hook">>, 0), File(<<".INSTALL">>, 1)}
=============================================================================
