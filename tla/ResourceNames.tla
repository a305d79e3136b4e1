--------------------------- MODULE ResourceNames ---------------------------
(* Bastion resource names, the capabilities that an action on one asks for,  *)
(* and the locations of artifacts and binaries in their old and new forms.   *)
EXTENDS Integers, Sequences

Namespaces == {"sandbox", "project", "provider", "template", "catalog", "infra"}
\* The namespace in which the factory of each type puts a name.
NamespaceOf ==
  [sandbox |-> "sandbox", project |-> "project", provider |-> "provider",
   instance |-> "provider", template |-> "template", artifact |-> "template",
   doctor |-> "catalog", assertion |-> "catalog", advice |-> "catalog",
   experience |-> "catalog", pool |-> "infra", worker |-> "infra",
   config |-> "infra", secret |-> "infra"]
Types == DOMAIN NamespaceOf

\* A text is what stands between its colons, and whether blanks follow it.
Text(parts, padded) == [parts |-> parts, padded |-> padded]
Default == Text(<<"default">>, FALSE)
\* There is one pool and one configuration.
Factory(type, id) ==
  [namespace |-> NamespaceOf[type], type |-> type,
   id |-> IF type \in {"pool", "config"} THEN Default ELSE id]

to_string(b) == Text(<<"brn", b.namespace, b.type>> \o b.id.parts, b.id.padded)
Error(kind) == [error |-> kind]
\* The text is trimmed and must have four parts, whatever the identifier was; that
\* the type belongs to the namespace is not looked at.
parse_brn(t) ==
  IF Len(t.parts) # 4 \/ t.parts[1] # "brn" THEN Error("InvalidFormat")
  ELSE IF t.parts[2] \notin Namespaces THEN Error("UnknownNamespace")
  ELSE IF t.parts[3] \notin Types THEN Error("UnknownType")
  ELSE IF t.parts[4] = "" THEN Error("MissingResourceId")
  ELSE [namespace |-> t.parts[2], type |-> t.parts[3], id |-> Text(<<t.parts[4]>>, FALSE)]

------------------------------------------------------------------------------
\* What an action on a resource requires; {} lets everybody through.
Managed == [read |-> {"READONLY"}, write |-> {"ADMIN"}, execute |-> {}]
required_capabilities(b, action) ==
  CASE b.namespace = "catalog" /\ b.type = "experience" -> {"READONLY"}
    [] b.namespace = "sandbox" -> {"EXECUTION"}
    [] b.namespace = "project" ->
         [read |-> {"READONLY"}, write |-> {"EXECUTION", "ADMIN"}, execute |-> {"EXECUTION"}][action]
    [] b.namespace = "catalog" /\ b.type = "doctor" -> [Managed EXCEPT !.execute = {"ADMIN"}][action]
    [] b.namespace = "catalog" /\ b.type \notin {"experience", "doctor", "assertion", "advice"} -> {}
    [] OTHER -> Managed[action]
authorize(capabilities, b, action) == required_capabilities(b, action) \subseteq capabilities

------------------------------------------------------------------------------
\* A location has a kind and a place; a remote one may have a checksum.
Location(kind, place, checksum) ==
  [kind |-> kind, place |-> place, checksum |-> IF kind = "Remote" THEN checksum ELSE "none"]
LocationPath(l) == IF l.kind = "Remote" THEN "none" ELSE l.place
LocationUrl(l) == IF l.kind = "Remote" THEN l.place ELSE "none"
\* The conversions from the old types and back; a BinaryRef cannot be in the image,
\* so the way back makes it a local one.
Converted(l, kinds) == [l EXCEPT !.kind = kinds[l.kind]]
FromArtifactLocation(l) ==
  Converted(l, [Local |-> "Local", Remote |-> "Remote", PreBakedInImage |-> "PreBaked"])
ToArtifactLocation(l) ==
  Converted(l, [Local |-> "Local", Remote |-> "Remote", PreBaked |-> "PreBakedInImage"])
FromBinaryRef(l) == Converted(l, [Local |-> "Local", Remote |-> "Remote"])
ToBinaryRef(l) == Converted(l, [Local |-> "Local", Remote |-> "Remote", PreBaked |-> "Local"])

------------------------------------------------------------------------------
\* A name is read back from its text, up to the blanks behind it, and asks for the
\* same capabilities, exactly when its identifier is one nonempty part; it is never
\* read as another resource (to_string, parse_brn).
NameReadBack(name) ==
  LET read == parse_brn(to_string(name))
      id == name.id
  IN IF Len(id.parts) = 1 /\ id.parts[1] # ""
     THEN /\ read = [name EXCEPT !.id.padded = FALSE]
          /\ \A a \in {"read", "write", "execute"} :
               \A cs \in SUBSET {"READONLY", "EXECUTION", "ADMIN"} :
                 authorize(cs, read, a) = authorize(cs, name, a)
     ELSE "error" \in DOMAIN read

\* An artifact location survives the new form, and a binary loses only that it is in
\* the image (the From implementations between the three types).
LocationReadBack(l) ==
  LET new == FromArtifactLocation(l)
      back == FromBinaryRef(ToBinaryRef(new))
  IN /\ ToArtifactLocation(new) = l
     /\ new.kind # "PreBaked" => back = new
     /\ LocationPath(back) = LocationPath(new) /\ LocationUrl(back) = LocationUrl(new)
     /\ back.checksum = new.checksum
=============================================================================
