--------------------------- MODULE HostAttributes ---------------------------
(***************************************************************************)
(* The attributes of an object as two hosts spell them (HostAttributeNames *)
(* in afsplus-fuse): stored names carry a namespace, and the comment and   *)
(* the protection word, fields of the record, look like attributes too.    *)
(* A name is the sequence of its dotted parts.                             *)
(***************************************************************************)
EXTENDS Integers, FiniteSets, Sequences, SequencesExt

CONSTANTS
    HostNames,      \* names a host may use in a call
    AttrValues,     \* values other than the empty one
    MaxStored       \* bound: attributes an object holds

VARIABLES
    stored_set,     \* the stored attributes: pairs <<name, value>>
    fields,         \* [comment, protection]; "" is no comment
    empties         \* FuseConfig.empty_value_removes of this mount

host_vars == <<stored_set, fields, empties>>

Hosts == {"linux", "macos"}
Refused == <<"refused">>
Starts(name, prefix) == IsPrefix(prefix, name)
Strip(name, prefix) == SubSeq(name, Len(prefix) + 1, Len(name))

(* HostAttributeNames::stored: the stored name of a host name.             *)
stored(host, name) ==
    IF host = "linux"
    THEN CASE Starts(name, <<"user">>) \/ Starts(name, <<"security">>) -> name
           [] \/ Starts(name, <<"trusted", "afsplus", "system">>)
              \/ Starts(name, <<"trusted", "afsplus", "aros">>) -> Strip(name, <<"trusted", "afsplus">>)
           [] OTHER -> Refused
    ELSE CASE ~Starts(name, <<"afsplus">>) -> <<"user">> \o name
           [] /\ Starts(name, <<"afsplus", "user">>)
              /\ ~Starts(name, <<"afsplus", "user", "afsplus">>) -> Refused
           [] OTHER -> Strip(name, <<"afsplus">>)

(* HostAttributeNames::host: the host spelling of a stored name.           *)
host_name(host, name) ==
    IF host = "linux"
    THEN IF Starts(name, <<"user">>) \/ Starts(name, <<"security">>) THEN name
         ELSE <<"trusted", "afsplus">> \o name
    ELSE IF Starts(name, <<"user">>) /\ ~Starts(name, <<"user", "afsplus">>)
         THEN Strip(name, <<"user">>)
         ELSE <<"afsplus">> \o name

field_names(host) ==
    LET prefix == IF host = "linux" THEN <<"user", "afsplus", "aros">> ELSE <<"afsplus", "aros">>
    IN  [comment |-> Append(prefix, "comment"), protection |-> Append(prefix, "protection")]

IsField(host, name) == \E f \in {"comment", "protection"} : field_names(host)[f] = name
field(host, name) == CHOOSE f \in {"comment", "protection"} : field_names(host)[f] = name

(* validate_attribute_name                                                 *)
Valid(name) == Len(name) > 1 /\ name[1] \in {"user", "system", "security", "aros"}

(* Mutant: only the names of one host are reserved.                        *)
ReservesOneHost == {<<"aros", "comment">>, <<"aros", "protection">>}

FIELD_ATTRIBUTE_NAMES ==
    {<<"aros", "comment">>, <<"aros", "protection">>,
     <<"user", "afsplus", "aros", "comment">>, <<"user", "afsplus", "aros", "protection">>}

STAGE_ATTRIBUTE == <<"system", "restore", "stage">>

Named(name) == {e \in stored_set : e[1] = name}

-----------------------------------------------------------------------------
(* Calls of the VFS.                                                       *)

Changeable(name) == /\ name \notin FIELD_ATTRIBUTE_NAMES \union {STAGE_ATTRIBUTE, Refused}
                    /\ Valid(name)

set_attributes(name, value, mode) ==
    /\ Changeable(name)
    /\ mode = "create" => Named(name) = {}
    /\ mode = "replace" => Named(name) /= {}
    /\ Cardinality(stored_set \ Named(name)) < MaxStored
    /\ stored_set' = (stored_set \ Named(name)) \union {<<name, value>>}
    /\ UNCHANGED <<fields, empties>>

Removed(name) ==
    /\ Changeable(name) /\ Named(name) /= {}
    /\ stored_set' = stored_set \ Named(name)
    /\ UNCHANGED <<fields, empties>>

-----------------------------------------------------------------------------
(* Calls of a host.                                                        *)

(* remove_field: there is always a protection word.                        *)
remove_field(f) ==
    /\ f = "comment" /\ fields.comment /= ""
    /\ fields' = [fields EXCEPT !.comment = ""]
    /\ UNCHANGED <<stored_set, empties>>

(* set_field: a word that does not parse, as the empty one, changes        *)
(* nothing (parse_protection).                                             *)
set_field(f, value, mode) ==
    /\ mode = "create" => f = "comment" /\ fields.comment = ""
    /\ mode = "replace" => f = "protection" \/ fields.comment /= ""
    /\ f = "protection" => value /= ""
    /\ fields' = [fields EXCEPT ![f] = value]
    /\ UNCHANGED <<stored_set, empties>>

SetAttribute ==
    \E host \in Hosts, name \in HostNames, value \in AttrValues \union {""},
       mode \in {"upsert", "create", "replace"} :
        CASE IsField(host, name) /\ value = "" /\ empties -> remove_field(field(host, name))
          [] IsField(host, name) /\ (value /= "" \/ ~empties) -> set_field(field(host, name), value, mode)
          [] ~IsField(host, name) /\ value = "" /\ empties -> Removed(stored(host, name))
          [] OTHER -> set_attributes(stored(host, name), value, mode)

RemoveAttribute ==
    \E host \in Hosts, name \in HostNames :
        IF IsField(host, name) THEN remove_field(field(host, name))
        ELSE Removed(stored(host, name))

(* The stored names a program of the AROS side uses directly.              *)
NativeSetAttribute ==
    \E name \in HostNames, value \in AttrValues : set_attributes(name, value, "upsert")

get_attribute(host, name) ==
    IF IsField(host, name)
    THEN IF field(host, name) = "comment" /\ fields.comment = "" THEN {}
         ELSE {fields[field(host, name)]}
    ELSE {e[2] : e \in Named(stored(host, name))}

(* list_attributes: with each name what is listed under it.                *)
list_attributes(host) ==
    {[name |-> host_name(host, e[1]), what |-> e[1], value |-> e[2]] : e \in stored_set}
    \union {[name |-> field_names(host)[f], what |-> <<"field", f>>, value |-> fields[f]]
              : f \in {"protection"} \union (IF fields.comment = "" THEN {} ELSE {"comment"})}

HostInit == stored_set = {} /\ fields = [comment |-> "", protection |-> "mode"] /\ empties \in BOOLEAN

HostNext == SetAttribute \/ RemoveAttribute \/ NativeSetAttribute

HostSpec == HostInit /\ [][HostNext]_host_vars

-----------------------------------------------------------------------------
(* Properties. *)

(* "Nothing is hidden and nothing collides": on either host, whichever of  *)
(* them stored it, every attribute and field is listed under a name of its *)
(* own that reads back its value (HostAttributeNames).                     *)
NothingHidden ==
    \A host \in Hosts :
        /\ \A a, b \in list_attributes(host) : a.name = b.name => a = b
        /\ \A a \in list_attributes(host) : get_attribute(host, a.name) = {a.value}
=============================================================================
