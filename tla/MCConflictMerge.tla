--------------------------- MODULE MCConflictMerge ---------------------------
\* Values for the run of ConflictMerge, and its naming on all short names. The name of
\* the second file makes the command and the page take it for a copy of the first one.
EXTENDS ConflictMerge

MCPath == {<<"a">>, <<"d", "/", "m", "-", "a", "-", "0">>}
MCLongPath == {<<"d", "/", "m", "-", "a", "-", "0">>}
MCFqn == <<"u", ".", "o", "/", "m", "/", "t">>
MCStamp == <<"1", "2">>

\* The name of a copy leads back to its file exactly if the fqn has no "-" in it
\* and the file is not in a directory below: the "-" of file names do no harm.
ASSUME NamesLeadBack ==
    LET Names(T) == UNION {[1 .. n -> T] : n \in 1 .. 3}
    IN  \A fqn \in Names({"m", "-", "/"}), p \in Names({"a", "-", "/"}) :
            (p[1] # "/" /\ p[Len(p)] # "/") =>
                (main_name_of(FileName(CopyName(fqn, p, 1))) = p
                    <=> "-" \notin Range(fqn) /\ "/" \notin Range(p))
=============================================================================
