SPECIFICATION StoreSpec
CONSTANTS
    Instances = {"a", "b"}
    Databases <- MCDatabases
    RouteFiles <- MCRouteFiles
    Datasets <- MCDatasets
    GisRequests <- MCGisRequests
    StoreFaults = {"disk", "busy", "crash"}
INVARIANTS
    SchemaIsOneVersion
    ImportIsWhole
    OpenedRowsAgree
