-------------------------------- MODULE Slug --------------------------------
(***************************************************************************)
(* slugify of packages/schemas/src/Slug.ts: what of a title may stand in   *)
(* the name of a file. Strings are sequences of one-letter strings.        *)
(***************************************************************************)
EXTENDS Integers, Sequences, SequencesExt

Capitals == [A |-> "a", B |-> "b"]
InSlug(c) == c \in {"a", "b", "1", "-"}
Lower(c) == IF c \in DOMAIN Capitals THEN Capitals[c] ELSE c

(* s.replace(/x+/g, "-"), where x is one of these letters *)
Hyphenated(s, these) ==
    LET Kept(i) == s[i] \notin these
        Starts(i) == i = 1 \/ s[i - 1] \notin these
        Put(r, i) == IF Kept(i) THEN Append(r, s[i]) ELSE IF Starts(i) THEN Append(r, "-") ELSE r
    IN  FoldLeftDomain(Put, <<>>, s)

(* s.replace(/^-|-$/g, "") *)
Trimmed(s) ==
    LET Ends(i) == i \in {1, Len(s)} /\ s[i] = "-"
    IN  FoldLeftDomain(LAMBDA r, i : IF Ends(i) THEN r ELSE Append(r, s[i]), <<>>, s)

(* Mutant: the letters that cannot stand in a slug are removed last. *)
SlugifyLate(title) ==
    SelectSeq(Trimmed(Hyphenated(Hyphenated([i \in DOMAIN title |-> Lower(title[i])], {" "}), {"-"})), InSlug)

slugify(title) ==
    Trimmed(Hyphenated(SelectSeq(Hyphenated([i \in DOMAIN title |-> Lower(title[i])], {" "}), InSlug), {"-"}))

-----------------------------------------------------------------------------
(* Slug.ts 29-35: a slug has only letters, digits and single hyphens, none *)
(* at an end; it is its own slug; and no letter or digit of the title is   *)
(* lost or moved.                                                          *)
SlugIsClean(title) ==
    LET slug == slugify(title)
        Solid(s) == SelectSeq(s, LAMBDA c : InSlug(c) /\ c # "-")
    IN  /\ \A i \in DOMAIN slug :
               InSlug(slug[i]) /\ (slug[i] = "-" => i \notin {1, Len(slug)} /\ slug[i + 1] # "-")
        /\ slugify(slug) = slug
        /\ Solid(slug) = Solid([i \in DOMAIN title |-> Lower(title[i])])
=============================================================================
