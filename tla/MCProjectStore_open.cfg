SPECIFICATION StoreSpec
CONSTANTS
    Instances = {"a"}
    Databases <- MCProject
    RouteFiles <- MCRouteFiles
    Datasets <- MCDatasets
    GisRequests <- MCGisRequests
    StoreFaults = {"crash"}
INVARIANT UnfinishedProxyStarts
