------------------------------- MODULE Manifests -------------------------------
(***************************************************************************)
(* What becomes of a package that winget lists: which of its versions the  *)
(* crawler takes (metadata.go), how the manifests of that version become   *)
(* installers (manifest.go, merge.go), and what the parser makes of version *)
(* and installers (version.rs, package.rs, sqlite.rs).                     *)
(*                                                                         *)
(* A token of a version is [n, w, sep]: digits (-1 for none), a word (0 for *)
(* none; words are numbered in the order of their characters, capitals      *)
(* before small letters), and the separator in front of it.  Numbers have   *)
(* up to two digits and no zeros in front.  A version is [prefixed, tokens]: *)
(* whether a "v" stands before the first digit, and its tokens.             *)
(***************************************************************************)
EXTENDS Integers, Sequences, SequencesExt

CONSTANTS
    Words,        \* what stands in a version besides numbers, by its place in the order
    ToLower,      \* the word in lower case
    Blank,        \* a text that is empty once it is trimmed
    Switches      \* the kinds of switches, 1..n, most preferred first

ASSUME WordAssumption ==
    /\ Words \subseteq Nat \ {0}
    /\ ToLower \in [Words \union {0} -> Words \union {0}]
    /\ \A w \in Words \union {0} : ToLower[ToLower[w]] = ToLower[w] /\ (ToLower[w] = 0 <=> w = 0)

Sign(n) == IF n < 0 THEN -1 ELSE IF n > 0 THEN 1 ELSE 0

--------------------------------------------------------------------------------
(* Versions.  What is compared is an identifier or a piece of one, [n, w, at]: *)
(* it stands alone, or is the first or an inner piece of an identifier that "-" *)
(* joins from several tokens.                                                  *)

Tokens == {t \in [n : -1..99, w : Words \union {0}, sep : {".", "-", "+", "other"}] :
             t.n >= 0 \/ t.w # 0}
Alone(token) == [n |-> token.n, w |-> token.w, at |-> "alone"]
Digits(n)    == [n |-> n, w |-> 0, at |-> "alone"]
Word(w)      == [n |-> -1, w |-> w, at |-> "alone"]

StartsWithDigit(token) == token.n >= 0
AllDigits(token) == token.n >= 0 /\ token.w = 0
HasText(tokens) == \E i \in DOMAIN tokens : ~AllDigits(tokens[i])

\* As texts: what ends comes before "-", that before digits, and those before letters.
CompareTexts(a, b) ==
    LET Second(p)  == IF p.n >= 10 THEN 1 + (p.n % 10) ELSE IF p.w = 0 THEN 0 ELSE 11
        First(p)   == IF p.n >= 10 THEN p.n \div 10 ELSE p.n
        Leading(p) == IF StartsWithDigit(p) THEN 12 * First(p) + Second(p) ELSE 120
    IN IF Leading(a) # Leading(b) THEN Sign(Leading(a) - Leading(b)) ELSE Sign(a.w - b.w)

\* Numbers by value, texts by their characters, a number before a text.  Where one
\* identifier goes on with "-" and the other has ended, that is the greater.
CompareIdentifiers(a, b) ==
    LET Numeric(p) == AllDigits(p) /\ p.at = "alone"
        Inner(p)   == p.at = "inner"
    IN IF Inner(a) # Inner(b) THEN IF Inner(a) THEN 1 ELSE -1
       ELSE IF Numeric(a) /\ Numeric(b) THEN Sign(a.n - b.n)
       ELSE IF Numeric(a) THEN -1 ELSE IF Numeric(b) THEN 1
       ELSE CompareTexts(a, b)

\* The first difference decides; without one the longer list is the greater.
CompareLists(s, t) ==
    LET differ == {i \in DOMAIN s \intersect DOMAIN t : CompareIdentifiers(s[i], t[i]) # 0}
        first == CHOOSE i \in differ : \A j \in differ : i <= j
    IN IF differ = {} THEN Sign(Len(s) - Len(t)) ELSE CompareIdentifiers(s[first], t[first])

\* One token after the other: three numbers make the core, what follows them
\* and every word is extra.
TakeToken(parts, token) ==
    IF Len(parts.core) = 3 \/ ~StartsWithDigit(token)
    THEN [parts EXCEPT !.extra = Append(@, Alone(token))]
    ELSE [core  |-> Append(parts.core, Digits(token.n)),
          extra |-> IF AllDigits(token) THEN parts.extra ELSE Append(parts.extra, Word(token.w))]

TakenParts(tokens) ==
    LET parts[n \in Nat] == IF n \notin DOMAIN tokens THEN [core |-> <<>>, extra |-> <<>>]
                            ELSE TakeToken(parts[n - 1], tokens[n])
    IN parts

PartsOf(tokens) ==
    LET parts == TakenParts(tokens)[Len(tokens)]
    IN [parts EXCEPT !.core = [i \in 1..3 |-> IF i \in DOMAIN @ THEN @[i] ELSE Digits(0)]]

\* parseWingetVersion: the crawler's parts have their words in lower case.
LowerParts(tokens) ==
    LET parts == PartsOf(tokens)
    IN [core  |-> parts.core,
        extra |-> [i \in DOMAIN parts.extra |-> [parts.extra[i] EXCEPT !.w = ToLower[@]]]]

\* Mutant: whatever follows the core makes a version newer.
CompareByLength(left, right) ==
    LET l == LowerParts(left.tokens)
        r == LowerParts(right.tokens)
    IN CompareLists(l.core \o l.extra, r.core \o r.extra)

\* Of two versions with one core, a text makes it older and numbers newer.
CompareWingetVersions(left, right) ==
    LET l == LowerParts(left.tokens)
        r == LowerParts(right.tokens)
        core == CompareLists(l.core, r.core)
        Rank(extra) == IF extra = <<>> THEN 1 ELSE IF HasText(extra) THEN 0 ELSE 2
    IN IF core # 0 THEN core
       ELSE IF Rank(l.extra) # Rank(r.extra) THEN Sign(Rank(l.extra) - Rank(r.extra))
       ELSE CompareLists(l.extra, r.extra)

\* collectWingetIndexRows, for the rows [version, rowid] of one id.
BetterRow(best, row) ==
    LET order == CompareWingetVersions(row.version, best.version)
    IN IF order > 0 \/ (order = 0 /\ row.rowid > best.rowid) THEN row ELSE best
BestRows(listed) ==
    LET best[n \in Nat] == IF n \notin DOMAIN listed \ {1} THEN listed[1]
                           ELSE BetterRow(best[n - 1], listed[n])
    IN best
LatestRow(listed) == BestRows(listed)[Len(listed)]

\* A version that is semantic as it stands: "1.2.3", and then "-" and a pre-release,
\* "+" and metadata, or both.
Semantic(version) ==
    LET tokens == version.tokens
        Sep(i) == tokens[i].sep
    IN /\ ~version.prefixed /\ Len(tokens) >= 3
       /\ \A i \in 1..3 : AllDigits(tokens[i])
       /\ Sep(2) = "." /\ Sep(3) = "."
       /\ Len(tokens) > 3 => Sep(4) \in {"-", "+"}
       /\ \A i \in 4..Len(tokens) :
             Sep(i) # "other" /\ \A j \in 4..Len(tokens) : Sep(i) = "+" /\ Sep(j) = "+" => i = j

\* The identifiers that tokens a to b make: "-" joins them, "." does not.
Identifiers(tokens, a, b) ==
    LET Joins(i) == i \in (a + 1)..b /\ tokens[i].sep = "-"
        At(i)    == IF Joins(i) THEN "inner" ELSE IF Joins(i + 1) THEN "first" ELSE "alone"
    IN [i \in 1..(b + 1 - a) |-> [Alone(tokens[a + i - 1]) EXCEPT !.at = At(a + i - 1)]]

\* Version::parse_lossy: as it stands or, failing that, as the parts make it.
Core(numbers, pre, build) == [core |-> numbers, pre |-> pre, build |-> build]
ParseLossy(version) ==
    LET tokens  == version.tokens
        parts   == PartsOf(tokens)
        Each(s) == [i \in DOMAIN s |-> Alone(s[i])]
        pluses  == {i \in 4..Len(tokens) : tokens[i].sep = "+"}
        last    == IF pluses = {} THEN Len(tokens) ELSE (CHOOSE i \in pluses : TRUE) - 1
    IN IF Semantic(version)
       THEN Core(parts.core, Identifiers(tokens, 4, last), Identifiers(tokens, last + 1, Len(tokens)))
       ELSE IF ~StartsWithDigit(tokens[1])
       THEN Core([i \in 1..3 |-> Digits(0)], Each(tokens), <<>>)
       ELSE IF HasText(parts.extra) THEN Core(parts.core, parts.extra, <<>>)
       ELSE Core(parts.core, <<>>, parts.extra)

\* The semver crate's order: a pre-release is older, build metadata is newer.
CompareSemver(a, b) ==
    IF a.core # b.core THEN CompareLists(a.core, b.core)
    ELSE IF (a.pre = <<>>) # (b.pre = <<>>) THEN (IF a.pre = <<>> THEN 1 ELSE -1)
    ELSE IF a.pre # b.pre THEN CompareLists(a.pre, b.pre)
    ELSE CompareLists(a.build, b.build)

--------------------------------------------------------------------------------
(* Installers.  A manifest is [files, defaults, installers], an installer is   *)
(* [type, url, scope, switches, commands]; the other texts of an installer are *)
(* resolved as its url is, the other lists as its commands are.  Its files are *)
(* [layout, locale, installer, named]: the layout that the root manifest says, *)
(* whether the two others can be fetched, and whether all name the package.    *)

FirstNonBlank(own, default) == IF own # Blank THEN own ELSE default
FirstList(own, default) ==
    LET Texts(list) == {t \in ToSet(list) : t # Blank}
    IN IF Texts(own) # {} THEN Texts(own) ELSE Texts(default)

\* A switch of the installer hides the manifest's of its kind, and no other.
PreferredSwitch(own, default) ==
    LET given == {k \in Switches : FirstNonBlank(own[k], default[k]) # Blank}
        first == CHOOSE k \in given : \A j \in given : k <= j
    IN IF given = {} THEN Blank ELSE FirstNonBlank(own[first], default[first])

Listed(manifest) ==
    IF manifest.installers # <<>> THEN manifest.installers
    ELSE IF manifest.defaults.url = Blank /\ manifest.defaults.type = Blank THEN <<>>
    ELSE <<manifest.defaults>>

ResolveInstaller(own, default) ==
    [type     |-> FirstNonBlank(own.type, default.type),
     url      |-> FirstNonBlank(own.url, default.url),
     scope    |-> FirstNonBlank(own.scope, default.scope),
     switches |-> PreferredSwitch(own.switches, default.switches),
     commands |-> FirstList(own.commands, default.commands)]

ResolvedInstallers(manifest) ==
    [i \in DOMAIN Listed(manifest) |-> ResolveInstaller(Listed(manifest)[i], manifest.defaults)]

\* buildPackageSnapshot has the files that the layout asks for.
FilesComplete(files) ==
    /\ files.named
    /\ \/ files.layout = "singleton"
       \/ files.layout = "version" /\ files.locale /\ files.installer

\* One installer that does not resolve costs the catalog the whole package.
Skipped(manifest) ==
    \/ ~FilesComplete(manifest.files)
    \/ Listed(manifest) = <<>>
    \/ \E i \in DOMAIN Listed(manifest) :
          LET installer == ResolvedInstallers(manifest)[i]
          IN \/ installer.url = Blank \/ installer.type = Blank
             \/ installer.scope \notin {Blank, "user", "machine"}

\* Everything but the lists identifies an installer.
CanonicalKey(installer) ==
    [type |-> installer.type, url |-> installer.url,
     scope |-> installer.scope, switches |-> installer.switches]

\* Mutant: of two installers with one key the later is dropped.
KeepFirst(merged, installer) ==
    IF CanonicalKey(installer) \in {CanonicalKey(m) : m \in merged} THEN merged
    ELSE merged \union {installer}

\* merge_installers: the lists of installers with one key are united.
MergeInstaller(merged, installer) ==
    LET same == {m \in merged : CanonicalKey(m) = CanonicalKey(installer)}
    IN (merged \ same) \union
         {[installer EXCEPT !.commands = @ \union UNION {m.commands : m \in same}]}

\* One entry after the other, in the manifest's order.
Merged(entries) ==
    LET merged[n \in Nat] == IF n \notin DOMAIN entries THEN {}
                             ELSE MergeInstaller(merged[n - 1], entries[n])
    IN merged

\* The installers in the rows of the package.
WrittenInstallers(manifest) == Merged(ResolvedInstallers(manifest))[Len(Listed(manifest))]
================================================================================
