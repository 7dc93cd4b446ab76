----------------------------- MODULE BaseStack -----------------------------
(* json::stacks::base, the dictionary of RFC 6733 and RFC 4006 the library   *)
(* carries, as a document of Dictionary, and what must hold of its load: its *)
(* entries refer to each other by name only, and nothing but load() ever     *)
(* checks them.  Every AVP of it is of the IETF: none has a vendor or V bit. *)
EXTENDS Dictionary

Single(n, code, f) ==
    [name |-> n, code |-> code, vendor |-> Absent, vBit |-> FALSE, format |-> f,
     enum |-> FALSE, label |-> FALSE, rules |-> Absent]
Labelled(n, code, f) == [Single(n, code, f) EXCEPT !.label = TRUE]
Enumerated(n, code) == [Labelled(n, code, "Enumerated") EXCEPT !.enum = TRUE]
Grouped(n, code, rs) == [Single(n, code, Absent) EXCEPT !.rules = rs]
Command(n, code, r, rs) == [name |-> n, code |-> code, request |-> r, rules |-> rs]

Each(type, qual, names) ==
    [i \in DOMAIN names |-> [name |-> names[i], type |-> type, qual |-> qual]]
Fixed(names) == Each("Fixed", NoQual, names)
Mandatory(names) == Each("Mandatory", NoQual, names)
Optional(names) == Each("Optional", NoQual, names)
AnyNumber(names) == Each("Optional", <<Blank, Blank>>, names)    \* "*"
AtLeastOne(names) == Each("Mandatory", <<1, Blank>>, names)      \* "1*"

----------------------------------------------------------------------------
BaseVendors ==
    LET V(n, code) == [name |-> n, code |-> code] IN
    <<V("IETF", 0), V("NOKIA", 94), V("ERICSSON", 193), V("TELEFONICAID", 5189),
      V("3GPP", 10415), V("ETSI", 13019)>>

Codes1To263 == <<
    Single("User-Name", 1, "UTF8String"), Single("NAS-IP-Address", 4, "OctetString"),
    Single("Framed-IP-Address", 8, "OctetString"), Single("Filter-Id", 11, "UTF8String"),
    Single("Class", 25, "OctetString"), Single("Session-Timeout", 27, "Unsigned32"),
    Single("Called-Station-Id", 30, "UTF8String"), Single("Proxy-State", 33, "OctetString"),
    Single("Accounting-Session-Id", 44, "OctetString"),
    Single("Acct-Multi-Session-Id", 50, "UTF8String"), Single("Event-Timestamp", 55, "Time"),
    Single("Acct-Interim-Interval", 85, "Unsigned32"),
    Single("Framed-IPv6-Prefix", 97, "OctetString"), Single("Host-IP-Address", 257, "Address"),
    Single("Auth-Application-Id", 258, "Unsigned32"),
    Labelled("Acct-Application-Id", 259, "Unsigned32"),
    Grouped("Vendor-Specific-Application-Id", 260,
        Each("Optional", <<1, Blank>>, <<"Vendor-Id">>)
        \o Each("Optional", <<Blank, 1>>, <<"Auth-Application-Id", "Acct-Application-Id">>)),
    Enumerated("Redirect-Host-Usage", 261), Single("Redirect-Max-Cache-Time", 262, "Unsigned32"),
    Single("Session-Id", 263, "UTF8String")>>

Codes264To273 == <<
    Single("Origin-Host", 264, "DiameterIdentity"),
    Single("Supported-Vendor-Id", 265, "Unsigned32"), Single("Vendor-Id", 266, "Unsigned32"),
    Single("Firmware-Revision", 267, "Unsigned32"), Labelled("Result-Code", 268, "Unsigned32"),
    Single("Product-Name", 269, "UTF8String"), Labelled("Session-Binding", 270, "Unsigned32"),
    Enumerated("Session-Server-Failover", 271), Single("Multi-Round-Time-Out", 272, "Unsigned32"),
    Enumerated("Disconnect-Cause", 273)>>

Codes274To294 == <<
    Enumerated("Auth-Request-Type", 274), Single("Auth-Grace-Period", 276, "Unsigned32"),
    Enumerated("Auth-Session-State", 277), Single("Origin-State-Id", 278, "Unsigned32"),
    Grouped("Failed-AVP", 279, AtLeastOne(<<"AVP">>)),
    Single("Proxy-Host", 280, "DiameterIdentity"), Single("Error-Message", 281, "UTF8String"),
    Single("Route-Record", 282, "DiameterIdentity"),
    Single("Destination-Realm", 283, "DiameterIdentity"),
    Grouped("Proxy-Info", 284,
        Mandatory(<<"Proxy-Host", "Proxy-State">>) \o AnyNumber(<<"AVP">>)),
    Enumerated("Re-Auth-Request-Type", 285),
    Single("Accounting-Sub-Session-Id", 287, "Unsigned64"),
    Single("Authorization-Lifetime", 291, "Unsigned32"),
    Single("Redirect-Host", 292, "DiameterURI"),
    Single("Destination-Host", 293, "DiameterIdentity"),
    Single("Error-Reporting-Host", 294, "DiameterIdentity")>>

Codes295To418 == <<
    Enumerated("Termination-Cause", 295), Single("Origin-Realm", 296, "DiameterIdentity"),
    Grouped("Experimental-Result", 297, Mandatory(<<"Vendor-Id", "Experimental-Result-Code">>)),
    Labelled("Experimental-Result-Code", 298, "Unsigned32"),
    Labelled("Inband-Security-Id", 299, "Unsigned32"),
    Grouped("E2E-Sequence-AVP", 300, AnyNumber(<<"AVP">>)),
    Single("CC-Correlation-Id", 411, "OctetString"), Single("CC-Input-Octets", 412, "Unsigned64"),
    Grouped("CC-Money", 413, Fixed(<<"Unit-Value">>) \o Optional(<<"Currency-Code">>)),
    Single("CC-Output-Octets", 414, "Unsigned64"), Single("CC-Request-Number", 415, "Unsigned32"),
    Enumerated("CC-Request-Type", 416), Single("CC-Service-Specific-Units", 417, "Unsigned64"),
    Enumerated("CC-Session-Failover", 418)>>

Codes419To432 == <<
    Single("CC-Sub-Session-Id", 419, "Unsigned64"), Single("CC-Time", 420, "Unsigned32"),
    Single("CC-Total-Octets", 421, "Unsigned64"), Enumerated("Check-Balance-Result", 422),
    Grouped("Cost-Information", 423,
        Mandatory(<<"Unit-Value", "Currency-Code">>) \o Optional(<<"Cost-Unit">>)),
    Single("Cost-Unit", 424, "UTF8String"), Single("Currency-Code", 425, "Unsigned32"),
    Enumerated("Credit-Control", 426), Enumerated("Credit-Control-Failure-Handling", 427),
    Enumerated("Direct-Debiting-Failure-Handling", 428), Single("Exponent", 429, "Integer32"),
    Grouped("Final-Unit-Indication", 430,
        Fixed(<<"Final-Unit-Action">>) \o AnyNumber(<<"Restriction-Filter-Rule", "Filter-Id">>)
        \o Optional(<<"Redirect-Server">>)),
    Grouped("Granted-Service-Unit", 431,
        Optional(<<"Tariff-Time-Change", "CC-Time", "CC-Money", "CC-Total-Octets",
              "CC-Input-Octets", "CC-Output-Octets", "CC-Service-Specific-Units">>)
        \o AnyNumber(<<"AVP">>)),
    Single("Rating-Group", 432, "Unsigned32")>>

\* (variant) the amount may be converted: a loop through four AVPs.
UnitValueRulesLooping ==
    Fixed(<<"Value-Digits">>) \o Optional(<<"Exponent">>)
    \o Optional(<<"Multiple-Services-Credit-Control">>)

UnitValueRules == Fixed(<<"Value-Digits">>) \o Optional(<<"Exponent">>)

Codes433To445 == <<
    Enumerated("Redirect-Address-Type", 433),
    Grouped("Redirect-Server", 434,
        Fixed(<<"Redirect-Address-Type", "Redirect-Server-Address">>)),
    Single("Redirect-Server-Address", 435, "UTF8String"), Enumerated("Requested-Action", 436),
    Grouped("Requested-Service-Unit", 437,
        Optional(<<"CC-Time", "CC-Money", "CC-Total-Octets", "CC-Input-Octets",
              "CC-Output-Octets", "CC-Service-Specific-Units">>)
        \o AnyNumber(<<"AVP">>)),
    Single("Restriction-Filter-Rule", 438, "IPFilterRule"),
    Single("Service-Identifier", 439, "Unsigned32"),
    Grouped("Service-Parameter-Info", 440,
        Mandatory(<<"Service-Parameter-Type", "Service-Parameter-Value">>)),
    Single("Service-Parameter-Type", 441, "Unsigned32"),
    Single("Service-Parameter-Value", 442, "OctetString"),
    Grouped("Subscription-Id", 443,
        Mandatory(<<"Subscription-Id-Type", "Subscription-Id-Data">>)),
    Single("Subscription-Id-Data", 444, "UTF8String"), Grouped("Unit-Value", 445, UnitValueRules)>>

Codes446To456 == <<
    Grouped("Used-Service-Unit", 446,
        Optional(<<"Tariff-Change-Usage", "CC-Time", "CC-Money", "CC-Total-Octets",
              "CC-Input-Octets", "CC-Output-Octets", "CC-Service-Specific-Units">>)
        \o AnyNumber(<<"AVP">>)),
    Single("Value-Digits", 447, "Integer64"), Single("Validity-Time", 448, "Unsigned32"),
    Enumerated("Final-Unit-Action", 449), Enumerated("Subscription-Id-Type", 450),
    Single("Tariff-Time-Change", 451, "Time"), Enumerated("Tariff-Change-Usage", 452),
    Single("G-S-U-Pool-Identifier", 453, "Unsigned32"), Enumerated("CC-Unit-Type", 454),
    Enumerated("Multiple-Services-Indicator", 455),
    Grouped("Multiple-Services-Credit-Control", 456,
        Optional(<<"Granted-Service-Unit", "Requested-Service-Unit">>)
        \o AnyNumber(<<"Used-Service-Unit">>) \o Optional(<<"Tariff-Change-Usage">>)
        \o AnyNumber(<<"Service-Identifier">>) \o Optional(<<"Rating-Group">>)
        \o AnyNumber(<<"G-S-U-Pool-Reference">>)
        \o Optional(<<"Validity-Time", "Result-Code", "Final-Unit-Indication">>)
        \o AnyNumber(<<"AVP">>))>>

Codes457To485 == <<
    Grouped("G-S-U-Pool-Reference", 457,
        Mandatory(<<"G-S-U-Pool-Identifier", "CC-Unit-Type", "Unit-Value">>)),
    Grouped("User-Equipment-Info", 458,
        Mandatory(<<"User-Equipment-Info-Type", "User-Equipment-Info-Value">>)),
    Enumerated("User-Equipment-Info-Type", 459),
    Single("User-Equipment-Info-Value", 460, "OctetString"),
    Single("Service-Context-Id", 461, "UTF8String"), Enumerated("Accounting-Record-Type", 480),
    Single("Accounting-Interim-Interval", 482, "Integer32"),
    Enumerated("Accounting-Realtime-Required", 483),
    Single("Accounting-Record-Number", 485, "Unsigned32")>>

Commands257To271 == <<
    Command("Capabilities-Exchange-Request", 257, TRUE,
        Mandatory(<<"Origin-Host", "Origin-Realm">>) \o AtLeastOne(<<"Host-IP-Address">>)
        \o Mandatory(<<"Vendor-Id", "Product-Name">>) \o Optional(<<"Origin-State-Id">>)
        \o AnyNumber(<<"Supported-Vendor-Id", "Auth-Application-Id", "Inband-Security-Id",
              "Acct-Application-Id">>)
        \o Optional(<<"Vendor-Specific-Application-Id", "Firmware-Revision">>)
        \o AnyNumber(<<"AVP">>)),
    Command("Capabilities-Exchange-Answer", 257, FALSE,
        Mandatory(<<"Result-Code", "Origin-Host", "Origin-Realm">>)
        \o AtLeastOne(<<"Host-IP-Address">>) \o Mandatory(<<"Vendor-Id", "Product-Name">>)
        \o Optional(<<"Origin-State-Id", "Error-Message">>)
        \o AnyNumber(<<"Failed-AVP", "Supported-Vendor-Id", "Auth-Application-Id",
              "Inband-Security-Id", "Acct-Application-Id">>)
        \o Optional(<<"Vendor-Specific-Application-Id", "Firmware-Revision">>)
        \o AnyNumber(<<"AVP">>)),
    Command("Re-Auth-Request", 258, TRUE,
        Fixed(<<"Session-Id">>)
        \o Mandatory(<<"Origin-Host", "Origin-Realm", "Destination-Realm", "Destination-Host",
              "Auth-Application-Id", "Re-Auth-Request-Type">>)
        \o Optional(<<"User-Name", "Origin-State-Id">>)
        \o AnyNumber(<<"Proxy-Info", "Route-Record", "AVP">>)),
    Command("Re-Auth-Answer", 258, FALSE,
        Fixed(<<"Session-Id">>) \o Mandatory(<<"Result-Code", "Origin-Host", "Origin-Realm">>)
        \o Optional(<<"User-Name", "Origin-State-Id", "Error-Message", "Error-Reporting-Host">>)
        \o AnyNumber(<<"Failed-AVP", "Redirect-Host">>)
        \o Optional(<<"Redirect-Host-Usage", "Redirect-Max-Cache-Time">>)
        \o AnyNumber(<<"Proxy-Info", "AVP">>)),
    Command("Accounting-Request", 271, TRUE,
        Fixed(<<"Session-Id">>)
        \o Mandatory(<<"Origin-Host", "Origin-Realm", "Destination-Realm",
              "Accounting-Record-Type", "Accounting-Record-Number">>)
        \o Optional(<<"Acct-Application-Id", "Vendor-Specific-Application-Id", "User-Name",
              "Accounting-Sub-Session-Id", "Accounting-Session-Id", "Acct-Multi-Session-Id",
              "Acct-Interim-Interval", "Accounting-Realtime-Required", "Origin-State-Id",
              "Event-Timestamp">>)
        \o AnyNumber(<<"Proxy-Info", "Route-Record", "AVP">>)),
    Command("Accounting-Answer", 271, FALSE,
        Fixed(<<"Session-Id">>)
        \o Mandatory(<<"Result-Code", "Origin-Host", "Origin-Realm", "Accounting-Record-Type",
              "Accounting-Record-Number">>)
        \o Optional(<<"Acct-Application-Id", "Vendor-Specific-Application-Id", "User-Name",
              "Accounting-Sub-Session-Id", "Accounting-Session-Id", "Acct-Multi-Session-Id",
              "Error-Reporting-Host", "Acct-Interim-Interval", "Accounting-Realtime-Required",
              "Origin-State-Id", "Event-Timestamp">>)
        \o AnyNumber(<<"Proxy-Info", "AVP">>))>>

Commands274To282 == <<
    Command("Abort-Session-Request", 274, TRUE,
        Fixed(<<"Session-Id">>)
        \o Mandatory(<<"Origin-Host", "Origin-Realm", "Destination-Realm", "Destination-Host",
              "Auth-Application-Id">>)
        \o Optional(<<"User-Name", "Origin-State-Id">>)
        \o AnyNumber(<<"Proxy-Info", "Route-Record", "AVP">>)),
    Command("Abort-Session-Answer", 274, FALSE,
        Fixed(<<"Session-Id">>) \o Mandatory(<<"Result-Code", "Origin-Host", "Origin-Realm">>)
        \o Optional(<<"User-Name", "Origin-State-Id", "Error-Message", "Error-Reporting-Host">>)
        \o AnyNumber(<<"Failed-AVP", "Redirect-Host">>)
        \o Optional(<<"Redirect-Host-Usage", "Redirect-Max-Cache-Time">>)
        \o AnyNumber(<<"Proxy-Info", "AVP">>)),
    Command("Session-Termination-Request", 275, TRUE,
        Fixed(<<"Session-Id">>)
        \o Mandatory(<<"Origin-Host", "Origin-Realm", "Destination-Realm",
              "Auth-Application-Id", "Termination-Cause">>)
        \o Optional(<<"User-Name", "Destination-Host">>) \o AnyNumber(<<"Class">>)
        \o Optional(<<"Origin-State-Id">>) \o AnyNumber(<<"Proxy-Info", "Route-Record", "AVP">>)),
    Command("Session-Termination-Answer", 275, FALSE,
        Fixed(<<"Session-Id">>) \o Mandatory(<<"Result-Code", "Origin-Host", "Origin-Realm">>)
        \o Optional(<<"User-Name">>) \o AnyNumber(<<"Class">>)
        \o Optional(<<"Error-Message", "Error-Reporting-Host">>) \o AnyNumber(<<"Failed-AVP">>)
        \o Optional(<<"Origin-State-Id">>) \o AnyNumber(<<"Redirect-Host">>)
        \o Optional(<<"Redirect-Host-Usage", "Redirect-Max-Cache-Time">>)
        \o AnyNumber(<<"Proxy-Info", "AVP">>)),
    Command("Device-Watchdog-Request", 280, TRUE,
        Mandatory(<<"Origin-Host", "Origin-Realm">>) \o Optional(<<"Origin-State-Id">>)),
    Command("Device-Watchdog-Answer", 280, FALSE,
        Mandatory(<<"Result-Code", "Origin-Host", "Origin-Realm">>)
        \o Optional(<<"Error-Message">>) \o AnyNumber(<<"Failed-AVP">>)
        \o Optional(<<"Origin-State-Id">>)),
    Command("Disconnect-Peer-Request", 282, TRUE,
        Mandatory(<<"Origin-Host", "Origin-Realm", "Disconnect-Cause">>)),
    Command("Disconnect-Peer-Answer", 282, FALSE,
        Mandatory(<<"Result-Code", "Origin-Host", "Origin-Realm">>)
        \o Optional(<<"Error-Message">>) \o AnyNumber(<<"Failed-AVP">>))>>

Base ==
    [vendor |-> BaseVendors,
     avp |-> Codes1To263 \o Codes264To273 \o Codes274To294 \o Codes295To418 \o Codes419To432
                \o Codes433To445 \o Codes446To456 \o Codes457To485,
     command |-> Commands257To271 \o Commands274To282]

----------------------------------------------------------------------------
\* The normal end of a load of base.
BaseLoaded == doc = Base /\ phase = "command" /\ ~HasEntry("command")

\* Whatever was loaded before, base loads to its end, unless that has left two
\* AVPs containing each other or moved the name of the generic AVP.
BaseLoads ==
    [][doc = Base /\ phase' \in {"idle", "dead"} =>
        BaseLoaded \/ (phase = "loops" /\ ShortLoop) \/ avpNames["AVP"] # GenericId]_vars

HasSessionId(c) ==
    \E i \in DOMAIN commands[c].level.rules :
        commands[c].level.rules[i].avp = avpNames["Session-Id"]

\* Once base is loaded every request has its answer and every answer its
\* request, and both or neither belong to a session, whose id comes first and
\* is fixed: setHeaderToAnswer flips the request bit of a header unchecked, and
\* the message is then named and sorted by the command that leads to.
RequestsAnswered ==
    BaseLoaded =>
        \A c \in DOMAIN commands :
            /\ <<c[1], ~c[2]>> \in DOMAIN commands
            /\ HasSessionId(c) <=> HasSessionId(<<c[1], ~c[2]>>)
            /\ HasSessionId(c) => LET first == commands[c].level.rules[1] IN
                    IsFixed(first) /\ first.avp = avpNames["Session-Id"]

\* The bounds the getters read out of a qualifier leave a number of AVPs that
\* satisfies the rule, for every rule loaded.
RulesSatisfiable ==
    \A level \in {avps[id].level : id \in DOMAIN avps}
                 \cup {commands[c].level : c \in DOMAIN commands} :
        \A i \in DOMAIN level.rules :
            LET rule == level.rules[i] IN
            QualMax(rule) = Infinite \/ (QualMin(rule) <= QualMax(rule) /\ QualMax(rule) > 0)
=============================================================================
