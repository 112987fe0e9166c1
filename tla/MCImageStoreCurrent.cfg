SPECIFICATION Spec
CONSTANTS
    w1 = w1
    w2 = w2
    stock = stock
    packages = packages
    Workspaces = {w1, w2}
    Images = {stock, packages}
    StockImage = stock
    Configured <- MCConfigured
    MaxFaults = 0
INVARIANTS KeepsCurrentImages
CHECK_DEADLOCK FALSE
