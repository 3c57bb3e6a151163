---------------------------- MODULE MCServerStartup ----------------------------
EXTENDS ServerStartup

\* Three of the five manifests, in the order in which they are embedded; the
\* managed clusters have no controller on the global hub.
MCManifests == <<"placementrules", "managedclusters", "policies">>
MCWatched == {"placementrules", "policies"}
===============================================================================
