------------------------- MODULE IncludeWhatYouUse -------------------------
(* clint.py, CheckForIncludeWhatYouUse: the headers a file needs must be    *)
(* included by the file or by a header of its own module, which clint looks *)
(* for on the disk.  A path is the sequence of its pieces:                  *)
(* <<"base/", "heap", "_test", ".c">>.                                     *)
EXTENDS SequencesExt

CONSTANT Disk  \* what each readable header includes: [paths -> sets of paths]

VARIABLES
  found,         \* the copy of include_state
  header_keys,   \* the headers included by the file and not yet looked at
  header_found,  \* the header of the module has been loaded
  missing        \* the errors of category build/include_what_you_use

iwyuVars == <<found, header_keys, header_found, missing>>

(* Without extension and suffix, and without public/ and internal/ unless   *)
(* they come first.                                                        *)
ModuleName(path, suffixes) ==
  LET name == Front(path)
      stem == IF Last(name) \in suffixes THEN Front(name) ELSE name
  IN  <<Head(stem)>> \o SelectSeq(Tail(stem), LAMBDA p : p \notin {"public/", "internal/"})

FilesBelongToSameModule(cc, h) ==
  /\ Last(cc) = ".c" /\ Last(h) = ".h"
  /\ IsSuffix(ModuleName(h, {"-inl"}), ModuleName(cc, {"_test", "_unittest"}))

CommonPath(cc, h) ==
  LET module == ModuleName(cc, {"_test", "_unittest"})
  IN  SubSeq(module, 1, Len(module) - Len(ModuleName(h, {"-inl"})))

(* The header is on the disk, where the path of the file says it is.        *)
CanLoad(cc, h) ==
  FilesBelongToSameModule(cc, h) /\ CommonPath(cc, h) \o h \in DOMAIN Disk
Loads(cc, h) == Disk[CommonPath(cc, h) \o h]

(* As UpdateIncludeState below, but stopping at the first header found.     *)
UpdateIncludeStateOnce(cc) ==
  \E h \in header_keys :
    /\ header_keys' = IF CanLoad(cc, h) THEN {} ELSE header_keys \ {h}
    /\ IF CanLoad(cc, h)
         THEN found' = found \cup Loads(cc, h) /\ header_found' = TRUE
         ELSE UNCHANGED <<found, header_found>>
    /\ UNCHANGED missing

(* The loop over the keys of a dictionary, which come in any order.         *)
UpdateIncludeState(cc) ==
  \E h \in header_keys :
    /\ header_keys' = header_keys \ {h}
    /\ IF CanLoad(cc, h)
         THEN found' = found \cup Loads(cc, h) /\ header_found' = TRUE
         ELSE UNCHANGED <<found, header_found>>
    /\ UNCHANGED missing

(* A .c file whose header is not found is given up.                        *)
ReportMissing(cc, required) ==
  /\ header_keys = {}
  /\ missing' = IF Last(cc) = ".c" /\ ~ header_found THEN {} ELSE required \ found
  /\ UNCHANGED <<found, header_keys, header_found>>
=============================================================================
