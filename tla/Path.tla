-------------------------------- MODULE Path --------------------------------
(* The path joining of io/path.c, for both builds.  A buffer is a function *)
(* from offsets to characters; Untouched is a byte nobody has written.     *)
EXTENDS Naturals, Sequences, SequencesExt

CONSTANTS
    Segments,           \* sequences of characters; NoSegment is NULL
    NoSegment,
    OutSizes,
    PathNul, Untouched

ASSUME PathAssumption == NoSegment \notin Segments /\ OutSizes \subseteq Nat

VARIABLES
    join,               \* the arguments of the last call
    total, out          \* what it returned and what is in the caller's buffer

pathVars == <<join, total, out>>

NoJoin == [build |-> "none"]
PathStart == join = NoJoin /\ total = 0 /\ out = <<>>

IsSep(build, c) == c = "/" \/ (build = "win32" /\ c = "\\")
PathSep(build) == IF build = "win32" THEN "\\" ELSE "/"

\* Seeded fault: no root is kept.
JoinedRootless(build, left, right) ==
    LET a == IF left = NoSegment THEN <<>> ELSE left
        b == IF right = NoSegment THEN <<>> ELSE right
        alen   == Max({0} \cup {k \in DOMAIN a : ~IsSep(build, a[k])})
        bstart == Min({Len(b) + 1} \cup {k \in DOMAIN b : ~IsSep(build, b[k])})
        tail   == SubSeq(b, bstart, Len(b))
    IN  SubSeq(a, 1, alen) \o (IF alen > 0 /\ tail # <<>> THEN <<PathSep(build)>> ELSE <<>>) \o tail

\* The characters combine puts, in order: a without its trailing separators, b
\* without its leading ones.
Joined(build, left, right) ==
    LET a == IF left = NoSegment THEN <<>> ELSE left
        b == IF right = NoSegment THEN <<>> ELSE right
        alen   == Max({0} \cup {k \in DOMAIN a : ~IsSep(build, a[k])})
        bstart == Min({Len(b) + 1} \cup {k \in DOMAIN b : ~IsSep(build, b[k])})
        tail   == SubSeq(b, bstart, Len(b))
    IN  IF a # <<>> /\ alen = 0 THEN <<PathSep(build)>> \o tail
        ELSE SubSeq(a, 1, alen) \o (IF alen > 0 /\ tail # <<>> THEN <<PathSep(build)>> ELSE <<>>) \o tail

\* D4NP_PUT for each character while one byte is left for the NUL.
Stored(chars, size) ==
    LET w == IF Len(chars) < size THEN Len(chars) ELSE size - 1 IN
    [i \in 0..(size - 1) |-> IF i < w THEN chars[i + 1] ELSE IF i = w THEN PathNul ELSE Untouched]

PathCombine ==
    /\ join = NoJoin
    /\ \E build \in {"posix", "win32"}, size \in OutSizes,
          a \in Segments \cup {NoSegment}, b \in Segments \cup {NoSegment} :
              /\ join' = [build |-> build, size |-> size, a |-> a, b |-> b]
              /\ total' = Len(Joined(build, a, b))
              /\ out' = Stored(Joined(build, a, b), size)

PathReturn == join # NoJoin /\ join' = NoJoin /\ total' = 0 /\ out' = <<>>

PathNext == PathCombine \/ PathReturn

-----------------------------------------------------------------------------
\* Every call leaves a C string inside the buffer, a prefix of the whole path,
\* and returns the length a second call needs to store all of it.  Joining is
\* associative, so a path does not depend on the order in which it was put
\* together, and keeps an absolute left segment absolute.
PathJoins ==
    join # NoJoin =>
    LET J(x, y) == Joined(join.build, x, y)
        path    == J(join.a, join.b)
        kept    == IF total < join.size THEN total ELSE join.size - 1
    IN  /\ total = Len(path)
        /\ join.size > 0 => /\ out[kept] = PathNul
                            /\ \A i \in 0..(kept - 1) : out[i] = path[i + 1]
        /\ \A c \in Segments \ {<<>>} :
               IsSep(join.build, c[1]) => /\ J(c, path) # <<>>
                                          /\ IsSep(join.build, J(c, path)[1])
        /\ \A c \in Segments : J(path, c) = J(join.a, J(join.b, c))
=============================================================================
