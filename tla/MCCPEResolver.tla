--------------------------- MODULE MCCPEResolver ----------------------------
(***************************************************************************)
(* Five components: a package in the dictionary that comes with the        *)
(* program, one in the offline database, and two that only the services    *)
(* know, one of them listed twice with different qualifiers.               *)
(***************************************************************************)
EXTENDS CPE, CPEResolver

MCSources == ToSet(AllSources)

MCLower(s) == s

MCPURLParts ==
  ("npm/known" :> [type |-> "npm", ns |-> "", name |-> "known"])
    @@ ("npm/local" :> [type |-> "npm", ns |-> "", name |-> "local"])
    @@ ("npm/left" :> [type |-> "npm", ns |-> "", name |-> "left"])
    @@ ("deb/right" :> [type |-> "deb", ns |-> "", name |-> "right"])

Parts(vendor, product, version) == [part |-> "a", vendor |-> vendor, product |-> product, version |-> version]

MCCPEParts ==
  ("cpe:a:left:left:1" :> Parts("left", "left", "1")) @@ ("cpe:a:x:left:*" :> Parts("x", "left", "*"))
    @@ ("cpe:a:x:left:2" :> Parts("x", "left", "2")) @@ ("cpe:h:right" :> [Parts("right", "right", "3") EXCEPT !.part = "h"])

MCBundledIndex == <<"npm", "", "known">> :> [vendor |-> "v", product |-> "known"]

MCLocalFiles ==
  << [index |-> "by-purl", key |-> <<"npm", "", "local", "1">>, entry |-> [vendor |-> "w", product |-> "local"], ok |-> TRUE],
     [index |-> "by-name", key |-> <<"npm", "left">>, entry |-> [vendor |-> "w", product |-> "left"], ok |-> FALSE] >>

MCNVDIndex == ("left" :> <<"cpe:a:left:left:1", "cpe:a:x:left:*", "cpe:a:x:left:2", "cpe:broken">>)
                @@ ("right" :> <<"cpe:h:right">>)

MCDefinitions == [type |-> "npm", ns |-> "", name |-> "left", version |-> "1"] :> <<"cpe:a:left:left:1", "cpe:broken">>

MCNormal(s) == s
MCWithin(s, t) == s = t
MCLastSegment(s) == s

MCLookups == << <<"npm/left", "1", "">>, <<"npm/known", "1", "">>, <<"npm/left", "1", "?a=b">>,
                <<"deb/right", "3", "">>, <<"npm/local", "1", "">> >>

=============================================================================
