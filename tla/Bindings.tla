------------------------------- MODULE Bindings -------------------------------
(***************************************************************************)
(* The Python binding of one block, a C++ file that bindtool has made from *)
(* the header of the block.  Its comment block says from which header, by  *)
(* which options, and may be edited.  cmake asks header_utils.py what the  *)
(* comment says; when the header has another hash than the one noted, it   *)
(* runs bind_oot_file.py to make the file again, or gives up when the file *)
(* is not to be made automatically.                                        *)
(*                                                                         *)
(* cmake's part is that of GNU Radio's GrPybind and bindtool, which are    *)
(* outside of this repository.  The text of the header is the number of    *)
(* its version, and its hash is taken to be different for each.            *)
(***************************************************************************)
EXTENDS Naturals, Sequences

CONSTANTS
    Values,      \* what a developer may write between the parentheses of a flag
    MaxVersion   \* the versions of the header at most

VARIABLES
    header,      \* the version of the header
    binding,     \* the file: its comment block, and the header its code is for
    wanted,      \* whether it was made, or edited, to be made automatically
    silenced,    \* whether its hash was updated by hand without its code
    library      \* the version the library was built for, or Failed

vars == <<header, binding, wanted, silenced, library>>

Failed == MaxVersion + 1

(***************************************************************************)
(* A comment block is a function from its tags to what is in parentheses.  *)
(* header_utils.py reads it into the words it prints.  The pattern of a    *)
(* flag takes one character, so that "true" is no match and gives False.   *)
(***************************************************************************)
Shown(flag) == IF flag THEN "True" ELSE "False"
IsOne(comment, tag) == tag \in DOMAIN comment /\ comment[tag] = "1"

get_flag_automatic(comment) == IsOne(comment, "GEN_AUTOMATIC")
get_flag_pygccxml(comment)  == IsOne(comment, "USE_PYGCCXML")

get_header_filename(comment) ==
    IF "HEADER_FILE" \in DOMAIN comment THEN comment["HEADER_FILE"] ELSE "None"

\* Versions are numbers: no hash is one that no version has.
get_header_file_hash(comment) ==
    IF "HEADER_FILE_HASH" \in DOMAIN comment THEN comment["HEADER_FILE_HASH"] ELSE Failed

get_flags(comment) ==
    [automatic |-> Shown(get_flag_automatic(comment)),
     pygccxml  |-> Shown(get_flag_pygccxml(comment)),
     filename  |-> get_header_filename(comment),
     hash      |-> get_header_file_hash(comment)]

(***************************************************************************)
(* bind_oot_file.py: an option is on when it is 1 or true, in any case.    *)
(***************************************************************************)
IsOn_OneOnly(option) == option = "1"   \* a mutant: words are not understood
IsOn(option) == option \in {"1", "true", "True", "TRUE"}

\* What bindtool writes for the options it is given.
gen_file_binding(filename, automatic, pygccxml) ==
    [comment |-> [GEN_AUTOMATIC    |-> IF automatic THEN "1" ELSE "0",
                  USE_PYGCCXML     |-> IF pygccxml THEN "1" ELSE "0",
                  HEADER_FILE      |-> filename,
                  HEADER_FILE_HASH |-> header],
     code    |-> header]

bind_oot_file(filename, flag_automatic, flag_pygccxml) ==
    gen_file_binding(filename, IsOn(flag_automatic), IsOn(flag_pygccxml))

(***************************************************************************)
(* A binding that bindtool has made, with any flags.                       *)
(***************************************************************************)
Init ==
    /\ header = 1
    /\ \E automatic, pygccxml \in BOOLEAN :
         /\ binding = gen_file_binding("enc.h", automatic, pygccxml)
         /\ wanted = automatic
    /\ silenced = FALSE
    /\ library = 0

(***************************************************************************)
(* A developer changes the header; adapts the code of the binding to it;   *)
(* notes its hash, with the code adapted or not; writes a flag; or takes a *)
(* tag away.                                                               *)
(***************************************************************************)
EditHeader ==
    /\ header < MaxVersion
    /\ header' = header + 1
    /\ UNCHANGED <<binding, wanted, silenced, library>>

EditCode ==
    /\ binding' = [binding EXCEPT !.code = header]
    /\ UNCHANGED <<header, wanted, silenced, library>>

EditHash ==
    /\ "HEADER_FILE_HASH" \in DOMAIN binding.comment
    /\ binding' = [binding EXCEPT !.comment["HEADER_FILE_HASH"] = header]
    /\ silenced' = (binding.code # header)
    /\ UNCHANGED <<header, wanted, library>>

EditFlag ==
    /\ \E tag \in {"GEN_AUTOMATIC", "USE_PYGCCXML"} \cap DOMAIN binding.comment, v \in Values :
         /\ binding' = [binding EXCEPT !.comment[tag] = v]
         /\ wanted' = IF tag = "GEN_AUTOMATIC"
                      THEN v = "1" /\ "HEADER_FILE" \in DOMAIN binding.comment ELSE wanted
    /\ UNCHANGED <<header, silenced, library>>

RemoveTag ==
    /\ \E tag \in DOMAIN binding.comment :
         /\ binding' = [binding EXCEPT !.comment = [t \in DOMAIN @ \ {tag} |-> @[t]]]
         /\ wanted' = (wanted /\ tag \notin {"GEN_AUTOMATIC", "HEADER_FILE"})
    /\ UNCHANGED <<header, silenced, library>>

(***************************************************************************)
(* cmake: the file as it is, when it is for this header; a new one, when   *)
(* it is made automatically; or an error.                                  *)
(***************************************************************************)
UseBinding ==
    LET flags == get_flags(binding.comment)
    IN  /\ flags.filename # "None" /\ flags.hash = header
        /\ library' = binding.code
        /\ UNCHANGED <<header, binding, wanted, silenced>>

Regenerate ==
    LET flags == get_flags(binding.comment)
    IN  /\ flags.filename # "None" /\ flags.hash # header /\ flags.automatic = "True"
        /\ binding' = bind_oot_file(flags.filename, flags.automatic, flags.pygccxml)
        /\ library' = binding'.code
        /\ silenced' = FALSE
        /\ UNCHANGED <<header, wanted>>

OutOfSync ==
    LET flags == get_flags(binding.comment)
    IN  /\ flags.filename = "None" \/ (flags.hash # header /\ flags.automatic = "False")
        /\ library' = Failed
        /\ UNCHANGED <<header, binding, wanted, silenced>>

Configure == UseBinding \/ Regenerate \/ OutOfSync

Next ==
    \/ EditHeader
    \/ EditCode
    \/ EditHash
    \/ EditFlag
    \/ RemoveTag
    \/ Configure

Spec == Init /\ [][Next]_vars

(***************************************************************************)
(* A binding that is made automatically stays so, however often the header *)
(* changes: header_utils.py prints its flags in words that bind_oot_file   *)
(* takes for them, and reads back what bindtool writes, so that cmake      *)
(* never gives up on a file that is wanted automatic.  And the library is  *)
(* for the header that cmake found, unless somebody noted the hash of a    *)
(* header that the code of the binding was not made for.                   *)
(***************************************************************************)
NeverStale ==
    [][Configure => /\ wanted => library' # Failed
                    /\ library' \notin {header, Failed} => silenced]_vars

=============================================================================
