--------------------------------- MODULE Layout ---------------------------------
(***************************************************************************)
(* Where everything is (crates/core/src/paths.rs): the directories of an   *)
(* active root, and the way back from a package's directory to its root.   *)
(***************************************************************************)
EXTENDS Settings

\* A template's ${root}, wherever it stands, is the root's path.
ResolveTemplate(root, template) ==
    FoldLeft(LAMBDA path, part : path \o (IF part = <<"${root}">> THEN root ELSE <<part>>),
             <<>>, template)

\* The root takes the environment, the templates are those of the file.
RuntimeRoot(config, env) == EffectiveValue(config, env, <<"paths", "root">>).value

PkgdbAt(data) == In(data, "pkgdb")
ShimsAt(root) == In(root, "shims")

\* The shims follow the root, the journals and the databases the data directory.
ResolvedPaths(config, env) ==
    LET active == RuntimeRoot(config, env)
        Place(name) == ResolveTemplate(active, config[<<"paths", name>>])
    IN [root  |-> active, packages |-> Place("packages"), data |-> Place("data"),
        logs  |-> Place("logs"), cache |-> Place("cache"),
        pkgdb |-> PkgdbAt(Place("data")), db |-> In(Place("data"), "db"),
        shims |-> ShimsAt(active)]

\* What a command makes sure of before it does anything; not the packages or shims.
ManagedRootDirs(paths) == {paths.data, paths.pkgdb, paths.db, paths.logs, paths.cache}

\* One component for a package's name: separators and colons become "_".
SafePathComponent(name) ==
    IF name \in {<<>>, <<".">>, <<"..">>} THEN <<"_invalid_name">>
    ELSE [n \in DOMAIN name |-> IF name[n] \in {"/", "\\", ":"} THEN "_" ELSE name[n]]

PackageInstallDir(paths, name) == Append(paths.packages, SafePathComponent(name))

\* Two levels up from a package's directory, wherever that is.
InstallRootFromPackageDir(dir) ==
    IF Len(dir) < 2 THEN <<>> ELSE SubSeq(dir, 1, Len(dir) - 2)

\* The journals and the shims that belong to a package's directory.
PkgdbOfDir(dir) == PkgdbAt(In(InstallRootFromPackageDir(dir), "data"))
ShimsOfDir(dir) == ShimsAt(InstallRootFromPackageDir(dir))

IsUnder(path, ancestor) == IsPrefix(ancestor, path)
================================================================================
