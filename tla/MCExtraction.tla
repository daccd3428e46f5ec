---------------------------- MODULE MCExtraction ----------------------------
(* The extraction steps of a rebuild side by side: the caches they keep, the  *)
(* symbols, services and calls they bring into the staged graph, and the      *)
(* reviewed corrections of what they brought.  They share no state: a         *)
(* behaviour is of one of them, and the others stay off.                      *)
EXTENDS Corrections, DatabaseCache, QueryCache, VendorCache, CallFacts,
        ServiceScan, SymbolImport

SymbolTrees == INSTANCE SymbolWorlds
ServiceTrees == INSTANCE ServiceWorlds
CallTrees == INSTANCE CallWorlds

SymbolSources == SymbolTrees!AllWorlds
ServiceSources == ServiceTrees!AllTrees
CallSources == CallTrees!AllWorlds

allVars ==
  <<dbVars, queryVars, vendorVars, symbolVars, serviceVars, callVars, vars>>

\* One of them runs.
Start ==
  LET Only(active, name, On, Idle) == IF active = name THEN On ELSE Idle
  IN \E active \in {"databases", "queries", "vendor", "symbols", "services",
                    "calls", "corrections"} :
       /\ Only(active, "databases", DatabaseInit, DatabaseOff)
       /\ Only(active, "queries", QueryInit, QueryOff)
       /\ Only(active, "vendor", VendorInit, VendorOff)
       /\ Only(active, "symbols", SymbolInit, SymbolOff)
       /\ Only(active, "services", ServiceInit, ServiceOff)
       /\ Only(active, "calls", CallsInit, CallsOff)
       /\ Only(active, "corrections", Init, Off)

Extract ==
  \/ /\ DatabaseNext
     /\ UNCHANGED <<queryVars, vendorVars, symbolVars, serviceVars, callVars, vars>>
  \/ /\ QueryNext
     /\ UNCHANGED <<dbVars, vendorVars, symbolVars, serviceVars, callVars, vars>>
  \/ /\ VendorNext
     /\ UNCHANGED <<dbVars, queryVars, symbolVars, serviceVars, callVars, vars>>
  \/ /\ SymbolNext
     /\ UNCHANGED <<dbVars, queryVars, vendorVars, serviceVars, callVars, vars>>
  \/ /\ ServiceNext
     /\ UNCHANGED <<dbVars, queryVars, vendorVars, symbolVars, callVars, vars>>
  \/ /\ CallsNext
     /\ UNCHANGED <<dbVars, queryVars, vendorVars, symbolVars, serviceVars, vars>>
  \/ /\ Next
     /\ UNCHANGED <<dbVars, queryVars, vendorVars, symbolVars, serviceVars, callVars>>

Extraction == Start /\ [][Extract]_allVars
=============================================================================
