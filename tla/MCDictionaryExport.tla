------------------------- MODULE MCDictionaryExport -------------------------
(* Two sets of documents, one of which a dictionary is fed with: small ones  *)
(* that redefine each other's formats, vendors, AVPs and commands, and the   *)
(* base dictionary with documents over the same names and ids.               *)
EXTENDS DictionaryExport, BaseStack

VARIABLE menu

\* At most MaxLoads[menu] documents are loaded into one dictionary.
MaxLoads == [small |-> 4, base |-> 2]
VARIABLE loads

Format(n, p) == [format |-> <<[name |-> n, parent |-> p]>>]
Vendor(n, c) == [vendor |-> <<[name |-> n, code |-> c]>>]
OfVendor(a, v) == [a EXCEPT !.vendor = v, !.vBit = TRUE]
Doc(as) == [avp |-> as]

SmallDocs ==
    {Format("Fmt", "OctetString"), Format("Fmt", ""), Format("Alt", "Fmt"), Format("Time", "Grouped"),
     Vendor("V", 1), Vendor("V", 2), Vendor("W", 1),
     Doc(<<Single("A", 1, "Fmt"), Grouped("B", 2, Fixed(<<"A">>) \o AnyNumber(<<"AVP">>))>>),
     Doc(<<OfVendor(Single("A", 1, "Time"), "V")>>),
     Doc(<<Grouped("C", 3, Optional(<<"A">>)), Grouped("A", 1, AtLeastOne(<<"C">>))>>),
     Doc(<<Single("A", 3, "Any")>>), Doc(<<Single("C", 0, "Any")>>),
     Doc(<<Grouped("B", 2, Each("Other", NoQual, <<"AVP">>))>>),
     [command |-> <<Command("R", 1, TRUE, Fixed(<<"A">>) \o Mandatory(<<"AVP">>)),
                    Command("S", 1, FALSE, <<>>)>>],
     [command |-> <<Command("R", 1, FALSE, Mandatory(<<"A">>))>>]}

\* An id of base under another name, a name of base under another id, the
\* generic name moved onto an AVP of base, a vendor of base renamed.
BaseDocs ==
    {Base, Doc(<<Grouped("Amount", 445, Fixed(<<"AVP">>))>>),
     Doc(<<Grouped("Unit-Value", 9, Optional(<<"CC-Money">>))>>),
     Doc(<<Single("AVP", 264, "Time")>>),
     [vendor |-> <<[name |-> "3GPP", code |-> 94]>>,
      avp |-> <<OfVendor(Single("User-Name", 1, "UTF8String"), "3GPP")>>]}

Menus == [small |-> SmallDocs, base |-> BaseDocs]
MCDocs == SmallDocs \cup BaseDocs

UserNames == {"AVP", "", "A", "B", "C", "R", "S", "V", "W", "Fmt", "Alt", "Amount"}
SectionNames(d, key) == {Section(d, key)[i].name : i \in DOMAIN Section(d, key)}
MCNames ==
    BasicTypes \cup DerivedTypes \cup ReservedTypes \cup UserNames
    \cup UNION {SectionNames(Base, key) : key \in {"vendor", "avp", "command"}}
\* Any order of the names will do: those of formats come first, then those of
\* base as it lists them.
MCRank ==
    LET Listed(key) == [i \in DOMAIN Section(Base, key) |-> Section(Base, key)[i].name]
        order == <<"Address", "Alt", "Any", "DiameterIdentity", "DiameterURI", "Enumerated",
                   "Float32", "Float64", "Fmt", "Grouped", "IPFilterRule", "Integer32", "Integer64",
                   "OctetString", "QoSFilterRule", "Time", "UTF8String", "Unknown",
                   "Unsigned32", "Unsigned64">>
                 \o Listed("vendor") \o Listed("avp") \o Listed("command")
                 \o <<"", "A", "AVP", "Amount", "B", "C", "R", "S", "V", "W">>
    IN [n \in MCNames |-> CHOOSE i \in DOMAIN order : order[i] = n]

MCInit == ExportInit /\ menu \in DOMAIN Menus /\ loads = 0

MCNext ==
    /\ ExportNext
    /\ UNCHANGED menu
    /\ IF phase = "idle" /\ phase' = "format" /\ ~reloading'
       THEN doc' \in Menus[menu] /\ loads < MaxLoads[menu] /\ loads' = loads + 1
       ELSE IF Clear \/ Restart THEN loads' = 0 ELSE UNCHANGED loads

MCSpec == MCInit /\ [][MCNext]_<<vars, exporter, menu, loads>>
=============================================================================
